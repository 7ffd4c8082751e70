------------------------- MODULE EventSetsAny_proof -------------------------
(***************************************************************************)
(* Proofs about EventSets that need no assumption on how the Java code     *)
(* pairs its calls: the events of an event set, the order of its snapshots *)
(* and the return codes in its rows.  The invariant AnyInv is a statement  *)
(* about each event set on its own, so that a step is settled by the one   *)
(* slot it writes.                                                         *)
(***************************************************************************)
EXTENDS EventSets_proof, FiniteSetTheorems

-----------------------------------------------------------------------------
(* The PAPI counters an array of event names asks for.  There is a column  *)
(* for each as long as the array asks for no more than MaxPapiEvents.      *)
PapiIdsOf(a) == {Info[a[i]].id : i \in {j \in DOMAIN a : Info[a[j]].papi}}
PapiFits == \A a \in EventArrays : Cardinality(PapiIdsOf(a)) <= MaxPapiEvents

(* The events are of the component of the event set.                       *)
Resolved(u) ==
  u.papi => /\ Info[u.name].papi /\ u.id = Info[u.name].id
            /\ u.component = Info[u.name].component
OneComponent(es) ==
  \A k \in DOMAIN es.used_events :
    /\ Resolved(es.used_events[k])
    /\ es.used_events[k].papi => /\ es.used_events[k].component = es.papi_component
                                 /\ es.used_papi_events # <<>>
Asked(es) ==
  \A j \in DOMAIN es.used_papi_events :
    \E k \in DOMAIN es.used_events :
      es.used_events[k].papi /\ es.used_events[k].id = es.used_papi_events[j]

(* Every PAPI event has its column, and every column another counter.      *)
Distinct(q) == \A i, j \in DOMAIN q : q[i] = q[j] => i = j
HasColumn(q, u) == u.papi => u.papi_index + 1 \in DOMAIN q /\ q[u.papi_index + 1] = u.id
Columns(es) ==
  /\ Distinct(es.used_papi_events)
  /\ \A k \in DOMAIN es.used_events : HasColumn(es.used_papi_events, es.used_events[k])

EventsOK(es) == OneComponent(es) /\ Asked(es) /\ (PapiFits => Columns(es))

(* The events still to be added are of the same array.                     *)
FromArray(q, names) ==
  \E a \in EventArrays :
    /\ \A i \in DOMAIN names : \E j \in DOMAIN a : names[i] = a[j]
    /\ \A i \in DOMAIN q : q[i] \in PapiIdsOf(a)

(* The snapshots in use are ordered, and tell of their own PAPI calls what *)
(* the getters read: rc2 is not looked at in an end snapshot.              *)
Ordered(es) ==
  \A i, j \in 0 .. es.data_index - 1 : i < j => es.data[i].time <= es.data[j].time
Reported(c) ==
  /\ c.type = START => ("PAPI_ERROR" \in {c.rc1, c.rc2} <=> c.failed)
  /\ c.type = END => (c.rc1 = "PAPI_ERROR" <=> c.failed)
Clean(c) == c.rc1 = "PAPI_OK" /\ c.rc2 = "PAPI_OK"
BufferOK(es, t) ==
  /\ Ordered(es)
  /\ \A i \in 0 .. es.data_index - 1 : es.data[i].time <= t /\ Reported(es.data[i])
  /\ UsesPapi(es) \/ \A c \in Cells : Clean(es.data[c])

RowOK(row) ==
  /\ row.start.time <= row.end.time
  /\ row.start.type = START /\ row.end.type = END
  /\ Reported(row.start) /\ Reported(row.end)

AnyInv ==
  /\ \A s \in Slots : Usable(s) =>
       /\ EventsOK(all_eventsets[s])
       /\ fault = "none" => BufferOK(all_eventsets[s], now)
  /\ call.op = "events" => FromArray(all_eventsets[call.cur].used_papi_events, call.names)
  /\ \A k \in DOMAIN rows : RowOK(rows[k])

-----------------------------------------------------------------------------
(* Adding an event to an event set: pure facts about the operators of      *)
(* AddEvent.                                                               *)
LEMMA PapiIdsFinite ==
  ASSUME NEW a \in Seq(DOMAIN Info)
  PROVE  IsFiniteSet(PapiIdsOf(a))
<1> DEFINE S == {j \in DOMAIN a : Info[a[j]].papi}
           f == [i \in S |-> Info[a[i]].id]
<1>1. IsFiniteSet(1 .. Len(a))
  BY FS_Interval
<1>2. S \in SUBSET (1 .. Len(a))
  OBVIOUS
<1>3. IsFiniteSet(S)
  BY <1>1, <1>2, FS_Subset
<1>4. f \in Surjection(S, PapiIdsOf(a))
  BY DEF Surjection, PapiIdsOf
<1> HIDE DEF S, f
<1> QED
  BY <1>3, <1>4, FS_Surjection

LEMMA DistinctFits ==
  ASSUME NEW q \in Seq(Int), Distinct(q), NEW T, IsFiniteSet(T), \A i \in DOMAIN q : q[i] \in T
  PROVE  Len(q) <= Cardinality(T)
<1>1. DOMAIN q = 1 .. Len(q) /\ Len(q) \in Nat
  OBVIOUS
<1>2. q \in Injection(1 .. Len(q), T)
  <2>1. q \in [1 .. Len(q) -> T]
    BY <1>1
  <2> QED
    BY <2>1 DEF Injection, IsInjective, Distinct
<1>3. Cardinality(1 .. Len(q)) <= Cardinality(T)
  BY <1>2, FS_Injection
<1>4. Cardinality(1 .. Len(q)) = Len(q)
  BY <1>1, FS_Interval
<1> QED
  BY <1>3, <1>4

LEMMA AppendOne ==
  ASSUME NEW S, NEW q \in Seq(S), NEW x \in S
  PROVE  /\ Append(q, x) \in Seq(S) /\ Append(q, x) # <<>>
         /\ DOMAIN Append(q, x) = DOMAIN q \cup {Len(q) + 1} /\ Len(q) + 1 \notin DOMAIN q
         /\ Append(q, x)[Len(q) + 1] = x
         /\ \A i \in DOMAIN q : Append(q, x)[i] = q[i]
         /\ Len(Append(q, x)) = Len(q) + 1 /\ Len(q) \in Nat /\ DOMAIN q = 1 .. Len(q)
OBVIOUS

LEMMA DistinctAppend ==
  ASSUME NEW q \in Seq(Int), Distinct(q), NEW x \in Int, \A i \in DOMAIN q : q[i] # x
  PROVE  Distinct(Append(q, x))
<1> DEFINE r == Append(q, x)
           n == Len(q) + 1
<1>1. /\ DOMAIN r = DOMAIN q \cup {n} /\ n \notin DOMAIN q /\ r[n] = x
      /\ \A i \in DOMAIN q : r[i] = q[i]
  BY AppendOne
<1> HIDE DEF r, n
<1>2. Distinct(r)
  BY <1>1 DEF Distinct
<1> QED
  BY <1>2 DEF r

(* What PapiIdsWith does to the list of counters.                          *)
LEMMA PapiIdsKnown ==
  ASSUME NEW es \in Slot, NEW id \in Int, KnownPapi(es, id) # {}
  PROVE  /\ PapiIdsWith(es, id) = es.used_papi_events
         /\ \E j \in DOMAIN es.used_papi_events :
              es.used_papi_events[j] = id /\ PapiIndex(es, id) + 1 = j
<1>1. es.used_papi_events \in Seq(Int)
  BY DEF Slot
<1>2. PICK j \in KnownPapi(es, id) : j = (CHOOSE k \in KnownPapi(es, id) : TRUE)
  OBVIOUS
<1>3. j \in DOMAIN es.used_papi_events /\ es.used_papi_events[j] = id /\ j \in Int
  BY <1>1, <1>2 DEF KnownPapi
<1>4. PapiIndex(es, id) = j - 1
  BY <1>2 DEF PapiIndex
<1>5. PapiIndex(es, id) + 1 = j
  BY <1>3, <1>4
<1> QED
  BY <1>3, <1>5 DEF PapiIdsWith

LEMMA PapiIdsNew ==
  ASSUME NEW es \in Slot, NEW id \in Int, KnownPapi(es, id) = {}
  PROVE  LET q == es.used_papi_events
         IN  /\ \A j \in DOMAIN q : q[j] # id
             /\ Len(q) < MaxPapiEvents =>
                  PapiIdsWith(es, id) = Append(q, id) /\ PapiIndex(es, id) = Len(q)
             /\ ~(Len(q) < MaxPapiEvents) => PapiIdsWith(es, id) = q
BY DEF KnownPapi, PapiIdsWith, PapiIndex

(* PapiIdsWith keeps what is there and adds no more than the new counter.  *)
LEMMA PapiIdsGrow ==
  ASSUME NEW es \in Slot, NEW id \in Int
  PROVE  LET q == es.used_papi_events
             r == PapiIdsWith(es, id)
         IN  /\ q \in Seq(Int) /\ r \in Seq(Int) /\ r # <<>>
             /\ \A j \in DOMAIN q : j \in DOMAIN r /\ r[j] = q[j]
             /\ \A j \in DOMAIN r : j \in DOMAIN q \/ r[j] = id
<1> DEFINE q == es.used_papi_events
           r == PapiIdsWith(es, id)
<1>1. q \in Seq(Int) /\ MaxPapiEvents \in Nat \ {0, 1}
  BY ConstantsAssumption DEF Slot
<1>2. CASE KnownPapi(es, id) # {}
  <2>1. r = q /\ \E j \in DOMAIN q : q[j] = id
    BY <1>2, PapiIdsKnown
  <2>2. q # <<>>
    BY <2>1
  <2> QED
    BY <1>1, <2>1, <2>2
<1>3. CASE KnownPapi(es, id) = {} /\ Len(q) < MaxPapiEvents
  <2>1. r = Append(q, id)
    BY <1>3, PapiIdsNew
  <2> HIDE DEF q, r
  <2>2. /\ r \in Seq(Int) /\ r # <<>> /\ DOMAIN r = DOMAIN q \cup {Len(q) + 1}
        /\ r[Len(q) + 1] = id /\ \A j \in DOMAIN q : r[j] = q[j]
    BY <1>1, <2>1, AppendOne
  <2> QED
    BY <1>1, <2>2 DEF q, r
<1>4. CASE KnownPapi(es, id) = {} /\ ~(Len(q) < MaxPapiEvents)
  <2>1. r = q
    BY <1>4, PapiIdsNew
  <2>2. q # <<>>
    BY <1>1, <1>4
  <2> QED
    BY <1>1, <2>1, <2>2
<1> QED
  BY <1>2, <1>3, <1>4

(* The event set after AddEvent has added an event to it.                  *)
Added(es, e) ==
  [WithEvent(es, e) EXCEPT !.papi_component =
     IF Info[e].papi THEN Info[e].component ELSE @]

LEMMA AddedFields ==
  ASSUME NEW es \in Slot, NEW e \in DOMAIN Info
  PROVE  LET a == Added(es, e)
         IN  /\ a \in Slot /\ a.valid = es.valid
             /\ a.data = es.data /\ a.data_index = es.data_index
             /\ a.used_events = Append(es.used_events, UsedEvent(es, e))
             /\ a.used_papi_events = IF Info[e].papi THEN PapiIdsWith(es, Info[e].id)
                                     ELSE es.used_papi_events
             /\ a.papi_component = IF Info[e].papi THEN Info[e].component
                                   ELSE es.papi_component
<1> DEFINE w == WithEvent(es, e)
           comp == IF Info[e].papi THEN Info[e].component ELSE w.papi_component
           ids == IF Info[e].papi THEN PapiIdsWith(es, Info[e].id) ELSE es.used_papi_events
<1>1. w \in Slot /\ w.valid = es.valid
  BY WithEventType
<1>2. /\ w.data = es.data /\ w.data_index = es.data_index
      /\ w.used_events = Append(es.used_events, UsedEvent(es, e))
      /\ w.used_papi_events = ids /\ w.papi_component = es.papi_component
  BY DEF WithEvent, Slot
<1>3. comp \in Int
  BY <1>1, ConstantsAssumption DEF EventInfo, Slot
<1>4. Added(es, e) = [w EXCEPT !.papi_component = comp]
  BY DEF Added
<1>5. comp = IF Info[e].papi THEN Info[e].component ELSE es.papi_component
  BY <1>2
<1> HIDE DEF w, comp, ids
<1>6. LET a == [w EXCEPT !.papi_component = comp]
      IN  /\ a \in Slot /\ a.valid = w.valid /\ a.data = w.data
          /\ a.data_index = w.data_index /\ a.used_events = w.used_events
          /\ a.used_papi_events = w.used_papi_events /\ a.papi_component = comp
  BY <1>1, <1>3 DEF Slot
<1> QED
  BY <1>1, <1>2, <1>4, <1>5, <1>6 DEF ids

LEMMA UsedEventFields ==
  ASSUME NEW es \in Slot, NEW e \in DOMAIN Info
  PROVE  LET u == UsedEvent(es, e)
         IN  /\ u \in Used /\ Resolved(u) /\ (u.papi <=> Info[e].papi)
             /\ u.id = Info[e].id /\ u.component = Info[e].component
             /\ Info[e].papi => u.papi_index = PapiIndex(es, Info[e].id)
<1>1. UsedEvent(es, e) \in Used
  BY UsedEventType
<1> QED
  BY <1>1 DEF UsedEvent, Resolved

(* An event that is let in is of the component of the counters there are.  *)
LEMMA ComponentKept ==
  ASSUME NEW es \in Slot, NEW e \in DOMAIN Info, OneComponent(es), Asked(es),
         Info[e].papi, ~ComponentDiffers(es, e), es.used_papi_events # <<>>
  PROVE  es.papi_component = Info[e].component
<1> DEFINE q == es.used_papi_events
           id == Info[e].id
           r == PapiIdsWith(es, id)
<1>1. id \in Int /\ MaxPapiEvents \in Nat \ {0, 1}
  BY ConstantsAssumption DEF EventInfo
<1>2. q \in Seq(Int) /\ Len(q) \in Nat /\ Len(q) > 0 /\ 1 \in DOMAIN q
  <2>1. q \in Seq(Int)
    BY DEF Slot
  <2> HIDE DEF q
  <2> QED
    BY <2>1 DEF q
<1>3. CASE Len(r) > 1
  BY <1>3 DEF ComponentDiffers
<1>4. CASE ~(Len(r) > 1)
  <2>1. KnownPapi(es, id) # {}
    <3>1. SUFFICES ASSUME KnownPapi(es, id) = {} PROVE FALSE
      OBVIOUS
    <3>2. CASE Len(q) < MaxPapiEvents
      <4>1. r = Append(q, id)
        BY <1>1, <3>1, <3>2, PapiIdsNew
      <4> HIDE DEF q, r
      <4>2. Len(r) = Len(q) + 1
        BY <1>1, <1>2, <4>1
      <4> QED
        BY <1>2, <1>4, <4>2
    <3>3. CASE ~(Len(q) < MaxPapiEvents)
      <4>1. r = q
        BY <1>1, <3>1, <3>3, PapiIdsNew
      <4> HIDE DEF q, r
      <4> QED
        BY <1>1, <1>2, <1>4, <3>3, <4>1
    <3> QED
      BY <3>2, <3>3
  <2>2. PICK j \in DOMAIN q : q[j] = id
    BY <2>1 DEF KnownPapi
  <2>3. PICK k \in DOMAIN es.used_events :
          es.used_events[k].papi /\ es.used_events[k].id = id
    BY <2>2 DEF Asked
  <2>4. /\ Resolved(es.used_events[k]) /\ es.used_events[k].component = es.papi_component
    BY <2>3 DEF OneComponent
  <2> DEFINE f == es.used_events[k].name
  <2>5. Info[f].papi /\ id = Info[f].id /\ es.papi_component = Info[f].component
    BY <2>3, <2>4 DEF Resolved
  <2>6. f \in DOMAIN Info
    <3>1. es.used_events \in Seq(Used)
      BY DEF Slot
    <3>2. es.used_events[k] \in Used
      BY <2>3, <3>1
    <3> QED
      BY <3>2 DEF Used
  <2> HIDE DEF f
  <2> QED
    BY <2>5, <2>6, ConstantsAssumption
<1> QED
  BY <1>3, <1>4

LEMMA AddedComponent ==
  ASSUME NEW es \in Slot, NEW e \in DOMAIN Info, OneComponent(es), Asked(es),
         ~ComponentDiffers(es, e)
  PROVE  OneComponent(Added(es, e)) /\ Asked(Added(es, e))
<1> DEFINE a == Added(es, e)
           u == UsedEvent(es, e)
           b == es.used_events
           c == a.used_events
           q == es.used_papi_events
           r == a.used_papi_events
           n == Len(b) + 1
<1>1. /\ c = Append(b, u)
      /\ r = IF Info[e].papi THEN PapiIdsWith(es, Info[e].id) ELSE q
      /\ a.papi_component = IF Info[e].papi THEN Info[e].component ELSE es.papi_component
  BY AddedFields
<1>2. /\ u \in Used /\ Resolved(u) /\ (u.papi <=> Info[e].papi)
      /\ u.id = Info[e].id /\ u.component = Info[e].component
  BY UsedEventFields
<1>3. b \in Seq(Used) /\ q \in Seq(Int) /\ Info[e].id \in Int
  BY ConstantsAssumption DEF Slot, EventInfo
<1>4. /\ Info[e].papi => r # <<>>
      /\ q # <<>> => r # <<>>
      /\ \A j \in DOMAIN r : (j \in DOMAIN q /\ r[j] = q[j]) \/ (Info[e].papi /\ r[j] = Info[e].id)
  <2>1. CASE Info[e].papi
    BY <1>1, <1>3, <2>1, PapiIdsGrow
  <2>2. CASE ~Info[e].papi
    BY <1>1, <2>2
  <2> QED
    BY <2>1, <2>2
<1>5. q # <<>> => a.papi_component = es.papi_component
  BY <1>1, ComponentKept
<1>6. /\ \A k \in DOMAIN b : /\ Resolved(b[k])
                             /\ b[k].papi => b[k].component = es.papi_component /\ q # <<>>
      /\ \A j \in DOMAIN q : \E k \in DOMAIN b : b[k].papi /\ b[k].id = q[j]
  BY DEF OneComponent, Asked
<1>7. /\ DOMAIN c = DOMAIN b \cup {n} /\ c[n] = u /\ \A k \in DOMAIN b : c[k] = b[k]
  <2> HIDE DEF a, u, b, c
  <2> QED
    BY <1>1, <1>2, <1>3, AppendOne
<1>8. /\ u.papi => u.component = a.papi_component
  BY <1>1, <1>2
<1> HIDE DEF u, b, c, q, r, n, a
<1>9. \A k \in DOMAIN c : Resolved(c[k])
  BY <1>2, <1>6, <1>7
<1>10. \A k \in DOMAIN c : c[k].papi => c[k].component = a.papi_component /\ r # <<>>
  BY <1>2, <1>4, <1>5, <1>6, <1>7, <1>8
<1>11. \A j \in DOMAIN r : \E k \in DOMAIN c : c[k].papi /\ c[k].id = r[j]
  BY <1>2, <1>4, <1>6, <1>7
<1>12. OneComponent(a)
  BY <1>9, <1>10 DEF OneComponent, c, r
<1>13. Asked(a)
  BY <1>11 DEF Asked, c, r
<1> QED
  BY <1>12, <1>13 DEF a

(* Columns: a new counter gets the next one, a known one keeps its own.    *)
LEMMA AddedColumns ==
  ASSUME NEW es \in Slot, NEW e \in DOMAIN Info, Columns(es),
         Info[e].papi /\ KnownPapi(es, Info[e].id) = {} =>
           Len(es.used_papi_events) < MaxPapiEvents
  PROVE  Columns(Added(es, e))
<1> DEFINE a == Added(es, e)
           u == UsedEvent(es, e)
           b == es.used_events
           c == a.used_events
           q == es.used_papi_events
           r == a.used_papi_events
           id == Info[e].id
           n == Len(b) + 1
<1>1. /\ c = Append(b, u)
      /\ r = IF Info[e].papi THEN PapiIdsWith(es, id) ELSE q
  BY AddedFields
<1>2. /\ u \in Used /\ (u.papi <=> Info[e].papi) /\ u.id = id
      /\ Info[e].papi => u.papi_index = PapiIndex(es, id)
  BY UsedEventFields
<1>3. b \in Seq(Used) /\ q \in Seq(Int) /\ id \in Int
  BY ConstantsAssumption DEF Slot, EventInfo
<1>4. DOMAIN c = DOMAIN b \cup {n} /\ c[n] = u /\ \A k \in DOMAIN b : c[k] = b[k]
  <2> HIDE DEF a, u, b, c
  <2> QED
    BY <1>1, <1>2, <1>3, AppendOne
<1>5. Distinct(q) /\ \A k \in DOMAIN b : HasColumn(q, b[k])
  BY DEF Columns
<1>6. Distinct(r) /\ HasColumn(r, u) /\ \A j \in DOMAIN q : j \in DOMAIN r /\ r[j] = q[j]
  <2>1. CASE ~Info[e].papi
    BY <1>1, <1>2, <1>5, <2>1 DEF HasColumn
  <2>2. CASE Info[e].papi /\ KnownPapi(es, id) # {}
    <3>1. r = q /\ \E j \in DOMAIN q : q[j] = id /\ PapiIndex(es, id) + 1 = j
      BY <1>1, <1>3, <2>2, PapiIdsKnown
    <3> QED
      BY <1>2, <1>5, <2>2, <3>1 DEF HasColumn
  <2>3. CASE Info[e].papi /\ KnownPapi(es, id) = {}
    <3>1. /\ r = Append(q, id) /\ PapiIndex(es, id) = Len(q)
          /\ \A j \in DOMAIN q : q[j] # id
      BY <1>1, <1>3, <2>3, PapiIdsNew
    <3>2. u.papi_index + 1 = Len(q) + 1
      BY <1>2, <2>3, <3>1
    <3> HIDE DEF q, r, u, id
    <3>3. /\ DOMAIN r = DOMAIN q \cup {Len(q) + 1} /\ r[Len(q) + 1] = id
          /\ \A j \in DOMAIN q : r[j] = q[j]
      BY <1>3, <3>1, AppendOne
    <3>4. Distinct(r)
      BY <1>3, <1>5, <3>1, DistinctAppend
    <3> QED
      BY <1>2, <3>2, <3>3, <3>4 DEF HasColumn
  <2> QED
    BY <2>1, <2>2, <2>3
<1> HIDE DEF u, b, c, q, r, n, a
<1>7. \A k \in DOMAIN b : HasColumn(r, b[k])
  BY <1>5, <1>6 DEF HasColumn
<1>8. \A k \in DOMAIN c : HasColumn(r, c[k])
  BY <1>4, <1>6, <1>7
<1>9. Columns(a)
  BY <1>6, <1>8 DEF Columns, c, r
<1> QED
  BY <1>9 DEF a

(* The array asks for no more counters than there are columns, so there is *)
(* one left for a counter of the array that has none yet.                  *)
LEMMA ColumnLeft ==
  ASSUME NEW q \in Seq(Int), Distinct(q), PapiFits, NEW a \in EventArrays,
         \A i \in DOMAIN q : q[i] \in PapiIdsOf(a),
         NEW id \in PapiIdsOf(a), id \in Int, \A i \in DOMAIN q : q[i] # id
  PROVE  Len(q) < MaxPapiEvents
<1> DEFINE r == Append(q, id)
<1>1. /\ r \in Seq(Int) /\ DOMAIN r = DOMAIN q \cup {Len(q) + 1} /\ r[Len(q) + 1] = id
      /\ \A j \in DOMAIN q : r[j] = q[j]
      /\ Len(r) = Len(q) + 1 /\ Len(q) \in Nat
  BY AppendOne
<1>2. Distinct(r)
  BY DistinctAppend
<1>3. IsFiniteSet(PapiIdsOf(a)) /\ a \in Seq(DOMAIN Info)
  BY PapiIdsFinite, ConstantsAssumption
<1> HIDE DEF r
<1>4. \A i \in DOMAIN r : r[i] \in PapiIdsOf(a)
  BY <1>1
<1>5. Len(r) <= Cardinality(PapiIdsOf(a))
  BY <1>1, <1>2, <1>3, <1>4, DistinctFits
<1>6. Cardinality(PapiIdsOf(a)) <= MaxPapiEvents /\ MaxPapiEvents \in Nat
  BY ConstantsAssumption DEF PapiFits
<1>7. Cardinality(PapiIdsOf(a)) \in Nat
  BY <1>3, FS_CardinalityType
<1> QED
  BY <1>1, <1>5, <1>6, <1>7

(* One iteration of the loop over the event names.                         *)
LEMMA AddedOK ==
  ASSUME NEW es \in Slot, NEW names \in Seq(DOMAIN Info), names # <<>>,
         EventsOK(es), FromArray(es.used_papi_events, names),
         ~ComponentDiffers(es, Head(names))
  PROVE  /\ EventsOK(Added(es, Head(names)))
         /\ FromArray(Added(es, Head(names)).used_papi_events, Tail(names))
<1> DEFINE q == es.used_papi_events
           e == Head(names)
           rest == Tail(names)
           id == Info[e].id
           r == Added(es, e).used_papi_events
<1>1. e \in DOMAIN Info /\ e = names[1] /\ 1 \in DOMAIN names
  BY HeadTail
<1>2. id \in Int /\ q \in Seq(Int)
  BY <1>1, ConstantsAssumption DEF EventInfo, Slot
<1>3. PICK a \in EventArrays :
        /\ \A i \in DOMAIN names : \E j \in DOMAIN a : names[i] = a[j]
        /\ \A i \in DOMAIN q : q[i] \in PapiIdsOf(a)
  BY DEF FromArray
<1>4. Info[e].papi => id \in PapiIdsOf(a)
  <2>1. PICK j \in DOMAIN a : a[j] = e
    BY <1>1, <1>3
  <2> QED
    BY <2>1 DEF PapiIdsOf
<1>5. \A i \in DOMAIN rest : \E j \in DOMAIN a : rest[i] = a[j]
  <2>1. \A i \in DOMAIN rest : i + 1 \in DOMAIN names /\ rest[i] = names[i + 1]
    OBVIOUS
  <2> QED
    BY <1>3, <2>1
<1>6. r = IF Info[e].papi THEN PapiIdsWith(es, id) ELSE q
  BY <1>1, AddedFields
<1>7. \A i \in DOMAIN r : r[i] \in PapiIdsOf(a)
  <2>1. CASE Info[e].papi
    <3>1. \A j \in DOMAIN r : (j \in DOMAIN q /\ r[j] = q[j]) \/ r[j] = id
      <4>1. r = PapiIdsWith(es, id)
        BY <1>6, <2>1
      <4> HIDE DEF r, id, e
      <4> QED
        BY <1>2, <4>1, PapiIdsGrow
    <3> QED
      BY <1>3, <1>4, <2>1, <3>1
  <2>2. CASE ~Info[e].papi
    BY <1>3, <1>6, <2>2
  <2> QED
    BY <2>1, <2>2
<1>8. FromArray(r, rest)
  BY <1>5, <1>7 DEF FromArray
<1>9. OneComponent(Added(es, e)) /\ Asked(Added(es, e))
  BY <1>1, AddedComponent DEF EventsOK
<1>10. ASSUME PapiFits PROVE Columns(Added(es, e))
  <2>1. Columns(es) /\ Distinct(q)
    BY <1>10 DEF EventsOK, Columns
  <2>2. ASSUME Info[e].papi, KnownPapi(es, id) = {}
        PROVE  Len(q) < MaxPapiEvents
    <3>1. \A j \in DOMAIN q : q[j] # id
      BY <1>2, <2>2, PapiIdsNew
    <3> QED
      BY <1>2, <1>3, <1>4, <1>10, <2>1, <2>2, <3>1, ColumnLeft
  <2> QED
    BY <1>1, <2>1, <2>2, AddedColumns
<1> QED
  BY <1>8, <1>9, <1>10 DEF EventsOK

-----------------------------------------------------------------------------
(* The snapshot buffer.                                                    *)
LEMMA EventsSame ==
  ASSUME NEW a, NEW b, EventsOK(a), b.used_events = a.used_events,
         b.used_papi_events = a.used_papi_events, b.papi_component = a.papi_component
  PROVE  EventsOK(b)
BY DEF EventsOK, OneComponent, Asked, Columns

(* A snapshot tells of its own calls.                                      *)
LEMMA SnapshotReported ==
  ASSUME NEW es \in Slot, NEW cell \in Cell, now \in Nat, NEW rc1 \in PapiRc, NEW rc2 \in PapiRc,
         NEW user \in Nat, UsesPapi(es) \/ Clean(cell)
  PROVE  \A c \in {ubench_measure_start(es, cell, rc1, rc2),
                   ubench_measure_sample(es, cell, rc1, user),
                   ubench_measure_stop(es, cell, rc1)} :
           c \in Cell /\ c.time = now /\ Reported(c) /\ (UsesPapi(es) \/ Clean(c))
<1> DEFINE a == ubench_measure_start(es, cell, rc1, rc2)
           s == ubench_measure_sample(es, cell, rc1, user)
           b == ubench_measure_stop(es, cell, rc1)
<1>1. a \in Cell /\ s \in Cell /\ b \in Cell
  BY SnapshotType
<1>2. /\ a.time = now /\ a.type = START /\ s.time = now /\ s.type = user
      /\ b.time = now /\ b.type = END
  BY DEF ubench_measure_start, ubench_measure_sample, ubench_measure_stop, Cell
<1>3. CASE UsesPapi(es)
  <2>1. a.rc1 = rc2 /\ a.rc2 = rc1 /\ (a.failed <=> "PAPI_ERROR" \in {rc1, rc2})
    BY <1>3 DEF ubench_measure_start, Cell
  <2>2. b.rc1 = rc1 /\ (b.failed <=> rc1 = "PAPI_ERROR")
    BY <1>3 DEF ubench_measure_stop, Cell
  <2> HIDE DEF a, b, s
  <2>3. Reported(a) /\ Reported(b) /\ Reported(s)
    BY <1>2, <2>1, <2>2 DEF Reported, START, END
  <2> QED
    BY <1>1, <1>2, <1>3, <2>3 DEF a, b, s
<1>4. CASE ~UsesPapi(es)
  <2>1. /\ a.rc1 = cell.rc1 /\ a.rc2 = cell.rc2 /\ a.failed = FALSE
        /\ s.rc1 = cell.rc1 /\ s.rc2 = cell.rc2
        /\ b.rc1 = cell.rc1 /\ b.rc2 = cell.rc2 /\ b.failed = FALSE
    BY <1>4 DEF ubench_measure_start, ubench_measure_sample, ubench_measure_stop, Cell
  <2> HIDE DEF a, b, s
  <2>2. Clean(a) /\ Clean(b) /\ Clean(s)
    BY <1>4, <2>1 DEF Clean
  <2>3. Reported(a) /\ Reported(b) /\ Reported(s)
    BY <1>2, <2>1, <2>2 DEF Reported, Clean, START, END
  <2> QED
    BY <1>1, <1>2, <2>2, <2>3 DEF a, b, s
<1> QED
  BY <1>3, <1>4

(* Fewer snapshots of the same buffer, read later.                         *)
LEMMA BufferPrefix ==
  ASSUME NEW a \in Slot, NEW b \in Slot, NEW t \in Nat, NEW u \in Nat, BufferOK(a, t), t <= u,
         b.data = a.data, b.data_index <= a.data_index, UsesPapi(a) => UsesPapi(b),
         a.data_index <= a.data_size
  PROVE  BufferOK(b, u)
<1>1. a.data_index \in Nat /\ b.data_index \in Nat
  BY DEF Slot
<1>2. \A i \in 0 .. b.data_index - 1 : i \in 0 .. a.data_index - 1
  BY <1>1
<1>3. \A i \in 0 .. b.data_index - 1 : a.data[i] \in Cell
  BY <1>1, <1>2, UsedCell
<1>4. \A i \in 0 .. b.data_index - 1 : a.data[i].time \in Nat
  BY <1>3 DEF Cell
<1>5. \A i \in 0 .. b.data_index - 1 : b.data[i].time <= u
  BY <1>2, <1>4 DEF BufferOK
<1> QED
  BY <1>2, <1>5 DEF BufferOK, Ordered

(* A snapshot taken now goes after the others.                             *)
LEMMA BufferWrite ==
  ASSUME NEW es \in Slot, NEW new \in Slot, NEW cell \in Cell, NEW t \in Nat,
         BufferOK(es, t), es.data_index < es.data_size,
         cell.time = t, Reported(cell), UsesPapi(es) \/ Clean(cell),
         new.used_events = es.used_events, new.data_index = es.data_index + 1,
         new.data = [es.data EXCEPT ![es.data_index] = cell]
  PROVE  BufferOK(new, t)
<1> DEFINE n == es.data_index
<1>1. n \in Nat /\ n \in Cells /\ es.data \in [Cells -> Cell]
  BY CellAtIn DEF Slot
<1>2. \A c \in Cells : new.data[c] = IF c = n THEN cell ELSE es.data[c]
  BY <1>1
<1>3. \A i \in 0 .. n - 1 : i \in Cells /\ i # n
  BY <1>1, ConstantsAssumption DEF Cells
<1>4. \A i \in 0 .. new.data_index - 1 : i = n \/ i \in 0 .. n - 1
  BY <1>1
<1>5. \A i \in 0 .. n - 1 : new.data[i] = es.data[i]
  BY <1>2, <1>3
<1>6. new.data[n] = cell
  BY <1>1, <1>2
<1>7. \A i \in 0 .. new.data_index - 1 : new.data[i].time <= t /\ Reported(new.data[i])
  BY <1>4, <1>5, <1>6 DEF BufferOK
<1>8. Ordered(new)
  <2>1. SUFFICES ASSUME NEW i \in 0 .. new.data_index - 1, NEW j \in 0 .. new.data_index - 1, i < j
                 PROVE  new.data[i].time <= new.data[j].time
    BY DEF Ordered
  <2>2. i \in 0 .. n - 1
    BY <1>1, <1>4, <2>1
  <2>3. CASE j = n
    BY <1>6, <1>7, <2>3
  <2>4. CASE j \in 0 .. n - 1
    BY <1>5, <2>1, <2>2, <2>4 DEF BufferOK, Ordered
  <2> QED
    BY <1>4, <2>3, <2>4
<1>9. UsesPapi(new) \/ \A c \in Cells : Clean(new.data[c])
  BY <1>2 DEF BufferOK, UsesPapi
<1> QED
  BY <1>7, <1>8, <1>9 DEF BufferOK

-----------------------------------------------------------------------------
(* The steps.  A step that replaces one event set has to settle that one.  *)
SlotOK(es, t, f) == EventsOK(es) /\ (f = "none" => BufferOK(es, t))

LEMMA OneSlotAny ==
  ASSUME TypeInv, AnyInv, NEW i \in Slots, NEW es \in Slot,
         all_eventsets' = [all_eventsets EXCEPT ![i] = es],
         es.valid \/ (call'.op = "events" /\ call'.cur = i) => SlotOK(es, now, fault'),
         call'.op = "events" => call'.cur = i /\ FromArray(es.used_papi_events, call'.names),
         UNCHANGED <<rows, now>>, fault' = "none" => fault = "none"
  PROVE  AnyInv'
<1>1. /\ all_eventsets \in [Slots -> Slot]
      /\ \A s \in Slots : Usable(s) => SlotOK(all_eventsets[s], now, fault)
      /\ \A k \in DOMAIN rows : RowOK(rows[k])
  BY DEF TypeInv, TypeOK, AnyInv, SlotOK
<1>2. \A s \in Slots : all_eventsets'[s] = IF s = i THEN es ELSE all_eventsets[s]
  BY <1>1, ReplaceSlot
<1>3. ASSUME NEW s \in Slots, Usable(s)'
      PROVE  SlotOK(all_eventsets'[s], now', fault')
  <2>1. CASE s = i
    BY <1>2, <1>3, <2>1 DEF Usable
  <2>2. CASE s # i
    <3>1. all_eventsets'[s] = all_eventsets[s] /\ Usable(s)
      BY <1>2, <1>3, <2>2 DEF Usable
    <3> QED
      BY <1>1, <3>1 DEF SlotOK
  <2> QED
    BY <2>1, <2>2
<1>4. \A s \in Slots : Usable(s)' => SlotOK(all_eventsets'[s], now', fault')
  BY <1>3
<1>5. call'.op = "events" => FromArray(all_eventsets'[call'.cur].used_papi_events, call'.names)
  BY <1>2
<1> QED
  BY <1>1, <1>4, <1>5 DEF AnyInv, SlotOK

(* A step that changes no event set.                                       *)
LEMMA NoSlotAny ==
  ASSUME TypeInv, AnyInv, UNCHANGED all_eventsets,
         call'.op # "events" \/ UNCHANGED call,
         now' \in Nat, now <= now', fault' = "none" => fault = "none",
         \A k \in DOMAIN rows' : RowOK(rows'[k])
  PROVE  AnyInv'
<1>1. /\ all_eventsets \in [Slots -> Slot] /\ now \in Nat
      /\ \A s \in Slots : Usable(s) => SlotOK(all_eventsets[s], now, fault)
      /\ \A s \in Slots : Usable(s) => Blocks(all_eventsets[s])
  BY DEF TypeInv, TypeOK, BlocksOK, AnyInv, SlotOK
<1>2. ASSUME NEW s \in Slots, Usable(s)'
      PROVE  SlotOK(all_eventsets'[s], now', fault')
  <2>1. all_eventsets'[s] = all_eventsets[s] /\ Usable(s) /\ all_eventsets[s] \in Slot
    BY <1>1, <1>2 DEF Usable
  <2>2. ASSUME fault' = "none"
        PROVE  BufferOK(all_eventsets[s], now')
    <3>1. BufferOK(all_eventsets[s], now)
      BY <1>1, <2>1, <2>2 DEF SlotOK
    <3>2. all_eventsets[s].data_index <= all_eventsets[s].data_size
      BY <1>1, <2>1, <2>2 DEF Blocks
    <3>3. all_eventsets[s].data_index \in Nat
      BY <2>1 DEF Slot
    <3>4. all_eventsets[s].data_index <= all_eventsets[s].data_index
      BY <3>3
    <3> QED
      BY <1>1, <2>1, <3>1, <3>2, <3>4, BufferPrefix
  <2> QED
    BY <1>1, <2>1, <2>2 DEF SlotOK
<1>3. \A s \in Slots : Usable(s)' => SlotOK(all_eventsets'[s], now', fault')
  BY <1>2
<1>4. call'.op = "events" => FromArray(all_eventsets'[call'.cur].used_papi_events, call'.names)
  BY DEF AnyInv
<1> QED
  BY <1>3, <1>4 DEF AnyInv, SlotOK

LEMMA CreateAny ==
  ASSUME TypeInv, AnyInv, Create
  PROVE  AnyInv'
<1>1. PICK m \in Counts, names \in EventArrays, attach \in Attaching :
          \/ CreateRejected(m, names, attach)
          \/ CreateAllocates(m, names, attach)
          \/ \E what \in {"table", "data", "events"} : CreateOutOfMemory(m, names, attach, what)
  BY DEF Create
<1>2. attach \in BOOLEAN /\ names \in Seq(DOMAIN Info)
  BY ConstantsAssumption
<1>3. UNCHANGED <<rows, now, fault>> /\ now \in Nat
  BY <1>1 DEF CreateRejected, CreateAllocates, CreateOutOfMemory, TypeInv, TypeOK
<1>4. now <= now' /\ now' \in Nat /\ \A k \in DOMAIN rows' : RowOK(rows'[k])
  BY <1>3 DEF AnyInv
<1>5. CASE CreateRejected(m, names, attach)
  <2>1. UNCHANGED all_eventsets /\ call'.op \in {"idle", "attach"}
    BY <1>2, <1>5, CreateReturnsOp DEF CreateRejected
  <2> QED
    BY <1>3, <1>4, <2>1, NoSlotAny
<1>6. ASSUME NEW what \in {"table", "data", "events"}, CreateOutOfMemory(m, names, attach, what)
      PROVE  AnyInv'
  <2>1. call'.op \in {"idle", "attach"} /\ SlotFor \in Slots /\ 2 * m > 0
    BY <1>2, <1>6, CreateReturnsOp DEF CreateOutOfMemory
  <2>2. CASE UNCHANGED all_eventsets
    BY <1>3, <1>4, <2>1, <2>2, NoSlotAny
  <2>3. CASE all_eventsets' = [all_eventsets EXCEPT ![SlotFor] =
                IF what = "data" THEN [@ EXCEPT !.mem = "none"]
                ELSE [@ EXCEPT !.mem = "freed", !.data_index = 0, !.data_size = 2 * m]]
    <3> DEFINE old == all_eventsets[SlotFor]
               new == IF what = "data" THEN [old EXCEPT !.mem = "none"]
                      ELSE [old EXCEPT !.mem = "freed", !.data_index = 0, !.data_size = 2 * m]
    <3>1. old \in Slot /\ ~old.valid
      BY <2>1, SlotForProperties DEF TypeInv, TypeOK
    <3>2. 2 * m \in 0 .. MaxIndex
      BY <2>1, ConstantsAssumption
    <3>3. new \in Slot /\ ~new.valid
      BY <3>1, <3>2 DEF Slot
    <3>4. all_eventsets' = [all_eventsets EXCEPT ![SlotFor] = new]
      BY <2>3
    <3> HIDE DEF new
    <3> QED
      BY <1>3, <2>1, <3>3, <3>4, OneSlotAny
  <2> QED
    BY <1>6, <2>2, <2>3 DEF CreateOutOfMemory
<1>7. CASE CreateAllocates(m, names, attach)
  <2> DEFINE new == [EmptySlot EXCEPT !.mem = "live", !.data_size = 2 * m, !.count = m]
  <2>1. /\ 2 * m > 0 /\ SlotFor \in Slots
        /\ all_eventsets' = [all_eventsets EXCEPT ![SlotFor] = new]
        /\ call' = [Idle EXCEPT !.op = "events", !.attach = attach,
                                !.names = names, !.cur = SlotFor]
    BY <1>7 DEF CreateAllocates
  <2>2. m \in Nat /\ 2 * m \in 0 .. MaxIndex
    BY <2>1, ConstantsAssumption
  <2>3. call'.op = "events" /\ call'.cur = SlotFor /\ call'.names = names
    BY <2>1, IdleType DEF Call
  <2>4. /\ new \in Slot /\ new.data_index = 0 /\ new.data = [c \in Cells |-> ZeroCell]
        /\ new.used_events = <<>> /\ new.used_papi_events = <<>>
    <3>1. /\ EmptySlot \in Slot /\ EmptySlot.data_index = 0
          /\ EmptySlot.data = [c \in Cells |-> ZeroCell]
          /\ EmptySlot.used_events = <<>> /\ EmptySlot.used_papi_events = <<>>
      BY ConstantSlots DEF EmptySlot
    <3> QED
      BY <2>2, <3>1 DEF Slot
  <2> HIDE DEF new
  <2>5. EventsOK(new)
    BY <2>4 DEF EventsOK, OneComponent, Asked, Columns, Distinct
  <2>6. BufferOK(new, now)
    <3>1. \A i \in 0 .. new.data_index - 1 : FALSE
      BY <2>4
    <3>2. \A c \in Cells : Clean(new.data[c])
      BY <2>4 DEF Clean, ZeroCell
    <3> QED
      BY <3>1, <3>2 DEF BufferOK, Ordered
  <2>7. FromArray(new.used_papi_events, names)
    <3>1. \A i \in DOMAIN new.used_papi_events : FALSE
      BY <2>4
    <3> QED
      BY <3>1 DEF FromArray
  <2> QED
    BY <1>3, <2>1, <2>3, <2>4, <2>5, <2>6, <2>7, OneSlotAny DEF SlotOK
<1> QED
  BY <1>1, <1>5, <1>6, <1>7

LEMMA AddEventAny ==
  ASSUME TypeInv, AnyInv, AddEvent
  PROVE  AnyInv'
<1> DEFINE e == Head(call.names)
           es == all_eventsets[call.cur]
<1>1. call.op = "events" /\ call.names # <<>> /\ UNCHANGED <<rows, now, fault>>
  BY DEF AddEvent
<1>2. /\ call \in Call /\ call.cur \in 0 .. all_eventset_count - 1 /\ ~es.valid
      /\ all_eventset_count \in 0 .. MaxSets /\ all_eventsets \in [Slots -> Slot] /\ now \in Nat
  BY <1>1 DEF TypeInv, TypeOK, CallOK
<1>3. call.cur \in Slots
  BY <1>2, InTable
<1>4. es \in Slot /\ call.names \in Seq(DOMAIN Info) /\ call.attach \in BOOLEAN
  BY <1>2, <1>3 DEF Call
<1>5. e \in DOMAIN Info
  BY <1>1, <1>4, HeadTail
<1>6. WithEvent(es, e) \in Slot /\ ~WithEvent(es, e).valid
  BY <1>2, <1>4, <1>5, WithEventType
<1>7. Freed(es) \in Slot /\ ~Freed(es).valid
  BY <1>4, FreedType DEF Freed, Slot
<1>8. ASSUME NEW new \in Slot, ~new.valid,
              all_eventsets' = [all_eventsets EXCEPT ![call.cur] = new],
              CreateReturns(call.attach, -1)
      PROVE  AnyInv'
  <2>1. call'.op \in {"idle", "attach"}
    BY <1>4, <1>8, CreateReturnsOp
  <2> HIDE DEF es
  <2> QED
    BY <1>1, <1>3, <1>8, <2>1, OneSlotAny
<1>9. ASSUME ~ComponentDiffers(es, e),
             all_eventsets' = [all_eventsets EXCEPT ![call.cur] = Added(es, e)],
             call' = [call EXCEPT !.names = Tail(call.names)]
      PROVE  AnyInv'
  <2> DEFINE new == Added(es, e)
  <2>1. call'.op = "events" /\ call'.cur = call.cur /\ call'.names = Tail(call.names)
    BY <1>1, <1>2, <1>9 DEF Call
  <2>2. /\ EventsOK(es) /\ FromArray(es.used_papi_events, call.names)
        /\ fault = "none" => BufferOK(es, now) /\ es.data_index <= es.data_size
    BY <1>1, <1>3 DEF AnyInv, Usable, TypeInv, BlocksOK, Blocks
  <2>3. /\ new \in Slot /\ new.data = es.data /\ new.data_index = es.data_index
        /\ new.used_events = Append(es.used_events, UsedEvent(es, e))
    BY <1>4, <1>5, AddedFields
  <2>4. EventsOK(new) /\ FromArray(new.used_papi_events, Tail(call.names))
    BY <1>1, <1>4, <1>9, <2>2, AddedOK
  <2>5. UsesPapi(es) => UsesPapi(new)
    <3> DEFINE u == UsedEvent(es, e)
               a == new.used_events
               b == es.used_events
    <3>1. a = Append(b, u) /\ b \in Seq(Used) /\ u \in Used
      BY <1>4, <1>5, <2>3, UsedEventType DEF Slot
    <3> HIDE DEF a, b, u
    <3>2. DOMAIN a = DOMAIN b \cup {Len(b) + 1} /\ \A k \in DOMAIN b : a[k] = b[k]
      BY <3>1, AppendOne
    <3> QED
      BY <3>2 DEF a, b, UsesPapi
  <2> HIDE DEF new, es
  <2>6. fault = "none" => BufferOK(new, now)
    <3>1. SUFFICES ASSUME fault = "none" PROVE BufferOK(new, now)
      OBVIOUS
    <3>2. es.data_index \in Nat
      BY <1>4 DEF Slot
    <3>3. new.data_index <= es.data_index /\ now <= now
      BY <1>2, <2>3, <3>2
    <3> QED
      BY <1>2, <1>4, <2>2, <2>3, <2>5, <3>1, <3>3, BufferPrefix
  <2>7. all_eventsets' = [all_eventsets EXCEPT ![call.cur] = new]
    BY <1>9 DEF new
  <2> QED
    BY <1>1, <1>3, <2>1, <2>3, <2>4, <2>6, <2>7, OneSlotAny DEF SlotOK
<1>10. \/ all_eventsets' = [all_eventsets EXCEPT ![call.cur] = Freed(es)] /\ CreateReturns(call.attach, -1)
       \/ all_eventsets' = [all_eventsets EXCEPT ![call.cur] = WithEvent(es, e)] /\ CreateReturns(call.attach, -1)
       \/ /\ ~ComponentDiffers(es, e)
          /\ all_eventsets' = [all_eventsets EXCEPT ![call.cur] = Added(es, e)]
          /\ call' = [call EXCEPT !.names = Tail(call.names)]
  BY DEF AddEvent, Added
<1> QED
  BY <1>6, <1>7, <1>8, <1>9, <1>10

LEMMA FinishCreateAny ==
  ASSUME TypeInv, AnyInv, NEW papi, FinishCreate(papi)
  PROVE  AnyInv'
<1> DEFINE es == all_eventsets[call.cur]
           pe(b) == IF b THEN "created" ELSE es.papi_eventset
           good == [es EXCEPT !.valid = TRUE, !.papi_eventset = pe(UsesPapi(es))]
           bad == [Freed(es) EXCEPT !.papi_eventset = IF papi = "not created" THEN @ ELSE "created"]
<1>1. call.op = "events" /\ UNCHANGED <<rows, now, fault>>
  BY DEF FinishCreate
<1>2. /\ call \in Call /\ call.cur \in 0 .. all_eventset_count - 1 /\ now \in Nat
      /\ all_eventset_count \in 0 .. MaxSets /\ all_eventsets \in [Slots -> Slot]
  BY <1>1 DEF TypeInv, TypeOK, CallOK
<1>3. call.cur \in Slots
  BY <1>2, InTable
<1>4. es \in Slot /\ call.attach \in BOOLEAN
  BY <1>2, <1>3 DEF Call
<1>5. EventsOK(es) /\ (fault = "none" => BufferOK(es, now))
  BY <1>1, <1>3 DEF AnyInv, Usable
<1>6. /\ good \in Slot /\ good.data = es.data /\ good.data_index = es.data_index
      /\ good.used_events = es.used_events /\ good.used_papi_events = es.used_papi_events
      /\ good.papi_component = es.papi_component
  <2>1. pe(UsesPapi(es)) \in {"PAPI_NULL", "created"}
    BY <1>4 DEF Slot
  <2> HIDE DEF pe
  <2> QED
    BY <1>4, <2>1 DEF Slot
<1>7. bad \in Slot /\ ~bad.valid
  <2>1. Freed(es) \in Slot /\ ~Freed(es).valid
    BY <1>4, FreedType DEF Freed, Slot
  <2> QED
    BY <2>1 DEF Slot
<1>8. \/ all_eventsets' = [all_eventsets EXCEPT ![call.cur] = good] /\ CreateReturns(call.attach, call.cur)
      \/ all_eventsets' = [all_eventsets EXCEPT ![call.cur] = bad] /\ CreateReturns(call.attach, -1)
  BY DEF FinishCreate
<1> HIDE DEF good, bad, es
<1>9. call'.op \in {"idle", "attach"}
  BY <1>4, <1>8, CreateReturnsOp
<1>10. EventsOK(good)
  BY <1>5, <1>6, EventsSame
<1>11. fault = "none" => BufferOK(good, now)
  BY <1>5, <1>6 DEF BufferOK, Ordered, UsesPapi
<1> QED
  BY <1>1, <1>3, <1>6, <1>7, <1>8, <1>9, <1>10, <1>11, OneSlotAny DEF SlotOK

LEMMA FreedAny ==
  ASSUME TypeInv, AnyInv, NEW id, IsValid(id),
         all_eventsets' = [all_eventsets EXCEPT ![id] = Freed(@)],
         call' = Idle, UNCHANGED <<rows, now, fault>>
  PROVE  AnyInv'
<1>1. id \in Slots /\ all_eventsets[id] \in Slot
  BY ValidInSlots DEF TypeInv
<1>2. Freed(all_eventsets[id]) \in Slot /\ ~Freed(all_eventsets[id]).valid
  BY <1>1, FreedType DEF Freed, Slot
<1> QED
  BY <1>1, <1>2, IdleType, OneSlotAny

(* A step that leaves the event sets, the rows and the clock as they are.  *)
LEMMA SameSlotsAny ==
  ASSUME TypeInv, AnyInv, UNCHANGED <<all_eventsets, rows, now>>,
         call'.op # "events" \/ UNCHANGED call, fault' = "none" => fault = "none"
  PROVE  AnyInv'
<1>1. now \in Nat
  BY DEF TypeInv, TypeOK
<1>2. now' \in Nat /\ now <= now'
  BY <1>1
<1>3. \A k \in DOMAIN rows' : RowOK(rows'[k])
  BY DEF AnyInv
<1> QED
  BY <1>2, <1>3, NoSlotAny

LEMMA AttachAny ==
  ASSUME TypeInv, AnyInv, NEW ok, Attach(ok)
  PROVE  AnyInv'
<1>1. call.op = "attach" /\ call' = Idle /\ call'.op = "idle" /\ UNCHANGED <<rows, now>>
  BY IdleType DEF Attach
<1>2. call.cur # -1 => IsValid(call.cur)
  BY <1>1 DEF TypeInv, TypeOK, CallOK
<1>3. CASE UNCHANGED all_eventsets
  <2>1. fault' = "none" => fault = "none"
    BY DEF Attach
  <2> QED
    BY <1>1, <1>3, <2>1, SameSlotsAny
<1>4. CASE call.cur # -1 /\ all_eventsets' = [all_eventsets EXCEPT ![call.cur] = Freed(@)] /\ UNCHANGED fault
  BY <1>1, <1>2, <1>4, FreedAny
<1> QED
  BY <1>3, <1>4 DEF Attach

LEMMA BeginLoopAny ==
  ASSUME TypeInv, AnyInv, NEW op \in IdOps, NEW ids, NEW user, BeginLoop(op, ids, user)
  PROVE  AnyInv'
<1>1. call'.op = op
  BY IdleType DEF BeginLoop, Call
<1> QED
  BY <1>1, SameSlotsAny DEF BeginLoop, IdOps

LEMMA InvalidIdAny ==
  ASSUME TypeInv, AnyInv, InvalidId
  PROVE  AnyInv'
BY IdleType, SameSlotsAny DEF InvalidId

LEMMA NextIdOp ==
  ASSUME TypeInv, call.op \in IdOps, NextId
  PROVE  call'.op # "events"
BY NextIdCallOK

LEMMA MakeRoomFields ==
  ASSUME NEW es \in Slot, es.count > 0, es.data_size = 2 * es.count
  PROVE  LET m == MakeRoom(es)
         IN  /\ m \in Slot /\ SameButData(es, m) /\ m.data = es.data
             /\ m.data_index <= es.data_index
<1>1. es.data_index \in Nat
  BY DEF Slot
<1>2. MakeRoom(es) \in Slot /\ SameButData(es, MakeRoom(es))
  BY Positive, MakeRoomType
<1>3. CASE es.data_index >= es.data_size
  <2>1. MakeRoom(es) = [es EXCEPT !.data_index = es.data_index - 2]
    BY <1>3 DEF MakeRoom
  <2>2. MakeRoom(es).data = es.data /\ MakeRoom(es).data_index = es.data_index - 2
    BY <2>1 DEF Slot
  <2> QED
    BY <1>1, <1>2, <2>2
<1>4. CASE ~(es.data_index >= es.data_size)
  <2>1. MakeRoom(es) = es
    BY <1>4 DEF MakeRoom
  <2> QED
    BY <1>1, <1>2, <2>1
<1> QED
  BY <1>3, <1>4

(* start, sample and stop: a snapshot that tells of its own calls is       *)
(* written where m, the event set after MakeRoom, has its index.           *)
LEMMA SnapshotStep ==
  ASSUME TypeInv, AnyInv, call.op \in IdOps, fault = "none", NEW id, IsValid(id),
         NEW m \in Slot, SameButData(all_eventsets[id], m),
         m.data = all_eventsets[id].data, m.data_index <= all_eventsets[id].data_index,
         NEW cell \in Cell, cell.time = now,
         (UsesPapi(m) \/ Clean(CellAt(m))) => Reported(cell) /\ (UsesPapi(m) \/ Clean(cell)),
         NEW new \in Slot, SameButData(m, new), new.data_index = m.data_index + 1,
         new.data = WriteCell(m, cell).data,
         all_eventsets' = [all_eventsets EXCEPT ![id] = new],
         fault' = IF Overruns(m) THEN "overrun" ELSE fault,
         NextId, UNCHANGED <<rows, now>>
  PROVE  AnyInv'
<1> DEFINE es == all_eventsets[id]
<1>1. id \in Slots /\ es \in Slot /\ es.valid /\ now \in Nat
  BY ValidInSlots DEF TypeInv, TypeOK
<1>2. EventsOK(es) /\ BufferOK(es, now) /\ es.data_index <= es.data_size
  BY <1>1 DEF AnyInv, Usable, TypeInv, BlocksOK, Blocks
<1> HIDE DEF es
<1>3. /\ m.used_events = es.used_events /\ new.used_events = m.used_events
      /\ new.used_papi_events = es.used_papi_events /\ new.papi_component = es.papi_component
      /\ m.data_size = es.data_size
  BY DEF SameButData, es
<1>4. EventsOK(new)
  BY <1>2, <1>3, EventsSame
<1>5. now <= now
  BY <1>1
<1>6. BufferOK(m, now)
  <2>1. UsesPapi(es) => UsesPapi(m)
    BY <1>3 DEF UsesPapi
  <2>2. m.data = es.data /\ m.data_index <= es.data_index
    BY DEF es
  <2> QED
    BY <1>1, <1>2, <1>5, <2>1, <2>2, BufferPrefix
<1>7. ASSUME ~Overruns(m) PROVE BufferOK(new, now)
  <2>1. m.data_index < m.data_size /\ m.data_index \in Nat
    <3>1. m.data_index \in Nat /\ m.data_size \in 0 .. MaxIndex /\ MaxIndex \in Nat
      BY ConstantsAssumption DEF Slot
    <3> QED
      BY <1>7, <3>1 DEF Overruns
  <2>2. m.data_index \in Cells /\ CellAt(m) = m.data[m.data_index]
    BY <2>1, CellAtIn
  <2>3. UsesPapi(m) \/ Clean(CellAt(m))
    BY <1>6, <2>2 DEF BufferOK
  <2>4. Reported(cell) /\ (UsesPapi(m) \/ Clean(cell))
    BY <2>3
  <2>5. new.data = [m.data EXCEPT ![m.data_index] = cell]
    BY <1>7, WriteCellType
  <2> QED
    BY <1>1, <1>3, <1>6, <2>1, <2>4, <2>5, BufferWrite
<1>8. fault' = "none" => BufferOK(new, now)
  BY <1>7
<1>9. call'.op # "events"
  BY NextIdOp
<1> QED
  BY <1>1, <1>4, <1>8, <1>9, OneSlotAny DEF SlotOK

(* What TypeInv says of the event set with a valid id.                     *)
LEMMA ValidSlot ==
  ASSUME TypeInv, NEW id, IsValid(id)
  PROVE  /\ id \in Slots /\ all_eventsets[id] \in Slot /\ all_eventsets[id].valid
         /\ all_eventsets[id].count > 0 /\ all_eventsets[id].data_size = 2 * all_eventsets[id].count
         /\ now \in Nat
<1>1. id \in Slots /\ all_eventsets[id] \in Slot /\ all_eventsets[id].valid
  BY ValidInSlots DEF TypeInv
<1> QED
  BY <1>1 DEF TypeInv, TypeOK, BlocksOK, Blocks, Usable

LEMMA StartOneAny ==
  ASSUME TypeInv, AnyInv, NEW rc1 \in PapiRc, NEW rc2 \in PapiRc, StartOne(rc1, rc2)
  PROVE  AnyInv'
<1> DEFINE id == Head(call.ids)
           m == MakeRoom(all_eventsets[id])
           cell == ubench_measure_start(m, CellAt(m), rc1, rc2)
           new == Started(m, rc1, rc2)
<1>1. /\ call.op = "start" /\ call.op \in IdOps /\ fault = "none" /\ IsValid(id) /\ NextId
      /\ all_eventsets' = [all_eventsets EXCEPT ![id] = new]
      /\ fault' = IF Overruns(m) THEN "overrun" ELSE fault
      /\ UNCHANGED <<rows, now>>
  BY DEF StartOne, IdOps
<1>2. /\ all_eventsets[id] \in Slot /\ all_eventsets[id].count > 0 /\ now \in Nat
      /\ all_eventsets[id].data_size = 2 * all_eventsets[id].count
  BY <1>1, ValidSlot
<1>3. /\ m \in Slot /\ SameButData(all_eventsets[id], m) /\ m.data = all_eventsets[id].data
      /\ m.data_index <= all_eventsets[id].data_index
  BY <1>2, MakeRoomFields
<1>4. /\ new \in Slot /\ SameButData(m, new) /\ new.data_index = m.data_index + 1
      /\ new.data = WriteCell(m, cell).data
  BY <1>2, <1>3, StartedType
<1> HIDE DEF m, new
<1>5. CellAt(m) \in Cell
  BY <1>3, CellAtType
<1>6. cell \in Cell /\ cell.time = now
  <2>1. cell \in Cell
    BY <1>2, <1>3, <1>5, SnapshotType
  <2> QED
    BY <1>5, <2>1 DEF ubench_measure_start, Cell
<1>7. (UsesPapi(m) \/ Clean(CellAt(m))) => Reported(cell) /\ (UsesPapi(m) \/ Clean(cell))
  <2>1. SUFFICES ASSUME UsesPapi(m) \/ Clean(CellAt(m))
                 PROVE  Reported(cell) /\ (UsesPapi(m) \/ Clean(cell))
    OBVIOUS
  <2> QED
    BY <1>2, <1>3, <1>5, <2>1, SnapshotReported
<1> HIDE DEF cell, id
<1> QED
  BY <1>1, <1>3, <1>4, <1>6, <1>7, SnapshotStep

LEMMA SampleOneAny ==
  ASSUME TypeInv, AnyInv, NEW rc \in PapiRc, SampleOne(rc)
  PROVE  AnyInv'
<1> DEFINE id == Head(call.ids)
           user == call.user
           m == MakeRoom(all_eventsets[id])
           cell == ubench_measure_sample(m, CellAt(m), rc, user)
           new == Sampled(m, rc, user)
<1>1. /\ call.op = "sample" /\ call.op \in IdOps /\ fault = "none" /\ IsValid(id) /\ NextId
      /\ all_eventsets' = [all_eventsets EXCEPT ![id] = new]
      /\ fault' = IF Overruns(m) THEN "overrun" ELSE fault
      /\ UNCHANGED <<rows, now>>
  BY DEF SampleOne, IdOps
<1>2. /\ all_eventsets[id] \in Slot /\ all_eventsets[id].count > 0 /\ now \in Nat
      /\ all_eventsets[id].data_size = 2 * all_eventsets[id].count
  BY <1>1, ValidSlot
<1>3. /\ m \in Slot /\ SameButData(all_eventsets[id], m) /\ m.data = all_eventsets[id].data
      /\ m.data_index <= all_eventsets[id].data_index
  BY <1>2, MakeRoomFields
<1>4. user \in Nat
  BY DEF TypeInv, TypeOK, CallOK, Call
<1> HIDE DEF user
<1>5. /\ new \in Slot /\ SameButData(m, new) /\ new.data_index = m.data_index + 1
      /\ new.data = WriteCell(m, cell).data
  BY <1>2, <1>3, <1>4, SampledType DEF Sampled
<1> HIDE DEF m, new
<1>6. CellAt(m) \in Cell
  BY <1>3, CellAtType
<1>7. cell \in Cell /\ cell.time = now
  <2>1. cell \in Cell
    BY <1>2, <1>3, <1>4, <1>6, SnapshotType
  <2> QED
    BY <1>6, <2>1 DEF ubench_measure_sample, Cell
<1>8. (UsesPapi(m) \/ Clean(CellAt(m))) => Reported(cell) /\ (UsesPapi(m) \/ Clean(cell))
  <2>1. SUFFICES ASSUME UsesPapi(m) \/ Clean(CellAt(m))
                 PROVE  Reported(cell) /\ (UsesPapi(m) \/ Clean(cell))
    OBVIOUS
  <2> QED
    BY <1>2, <1>3, <1>4, <1>6, <2>1, SnapshotReported
<1> HIDE DEF cell, id
<1> QED
  BY <1>1, <1>3, <1>5, <1>7, <1>8, SnapshotStep

LEMMA StopOneAny ==
  ASSUME TypeInv, AnyInv, NEW rc \in PapiRc, StopOne(rc)
  PROVE  AnyInv'
<1> DEFINE id == Head(call.ids)
           m == all_eventsets[id]
           cell == ubench_measure_stop(m, CellAt(m), rc)
           new == Stopped(m, rc)
<1>1. /\ call.op = "stop" /\ call.op \in IdOps /\ fault = "none" /\ IsValid(id) /\ NextId
      /\ all_eventsets' = [all_eventsets EXCEPT ![id] = new]
      /\ fault' = IF Overruns(m) THEN "overrun" ELSE fault
      /\ UNCHANGED <<rows, now>>
  BY DEF StopOne, IdOps
<1>2. m \in Slot /\ now \in Nat
  BY <1>1, ValidSlot
<1>3. m.data_index \in Nat
  BY <1>2 DEF Slot
<1>4. SameButData(m, m) /\ m.data_index <= m.data_index
  BY <1>3 DEF SameButData
<1>5. /\ new \in Slot /\ SameButData(m, new) /\ new.data_index = m.data_index + 1
      /\ new.data = WriteCell(m, cell).data
  BY <1>2, StoppedType
<1>6. CellAt(m) \in Cell
  BY <1>2, CellAtType
<1>7. cell \in Cell /\ cell.time = now
  <2>1. cell \in Cell
    BY <1>2, <1>6, SnapshotType
  <2> QED
    BY <1>6, <2>1 DEF ubench_measure_stop, Cell
<1>8. (UsesPapi(m) \/ Clean(CellAt(m))) => Reported(cell) /\ (UsesPapi(m) \/ Clean(cell))
  <2>1. SUFFICES ASSUME UsesPapi(m) \/ Clean(CellAt(m))
                 PROVE  Reported(cell) /\ (UsesPapi(m) \/ Clean(cell))
    OBVIOUS
  <2> QED
    BY <1>2, <1>6, <2>1, SnapshotReported
<1> HIDE DEF cell, new
<1> QED
  BY <1>1, <1>2, <1>4, <1>5, <1>7, <1>8, SnapshotStep

LEMMA ResetOneAny ==
  ASSUME TypeInv, AnyInv, ResetOne
  PROVE  AnyInv'
<1> DEFINE id == Head(call.ids)
           es == all_eventsets[id]
           new == [es EXCEPT !.data_index = 0, !.taken = 0]
<1>1. /\ call.op \in IdOps /\ fault = "none" /\ IsValid(id) /\ NextId
      /\ all_eventsets' = [all_eventsets EXCEPT ![id] = new]
      /\ UNCHANGED <<rows, now, fault>>
  BY DEF ResetOne, IdOps
<1>2. id \in Slots /\ es \in Slot /\ es.valid /\ now \in Nat
  BY <1>1, ValidSlot
<1>3. EventsOK(es) /\ BufferOK(es, now) /\ es.data_index <= es.data_size
  BY <1>1, <1>2 DEF AnyInv, Usable, TypeInv, BlocksOK, Blocks
<1>4. /\ new \in Slot /\ new.data_index = 0 /\ new.data = es.data
      /\ new.used_events = es.used_events /\ new.used_papi_events = es.used_papi_events
      /\ new.papi_component = es.papi_component
  BY <1>2 DEF Slot
<1>5. es.data_index \in Nat
  BY <1>2 DEF Slot
<1> HIDE DEF es, new, id
<1>6. EventsOK(new)
  BY <1>3, <1>4, EventsSame
<1>7. BufferOK(new, now)
  <2>1. new.data_index <= es.data_index /\ now <= now
    BY <1>2, <1>4, <1>5
  <2>2. UsesPapi(es) => UsesPapi(new)
    BY <1>4 DEF UsesPapi
  <2> QED
    BY <1>2, <1>3, <1>4, <2>1, <2>2, BufferPrefix
<1>8. call'.op # "events"
  BY <1>1, NextIdOp
<1> QED
  BY <1>1, <1>2, <1>4, <1>6, <1>7, <1>8, OneSlotAny DEF SlotOK

LEMMA DestroyEventSetAny ==
  ASSUME TypeInv, AnyInv, NEW id, DestroyEventSet(id)
  PROVE  AnyInv'
BY FreedAny DEF DestroyEventSet, CanCall

LEMMA GetResultsAny ==
  ASSUME TypeInv, AnyInv, NEW id, GetResults(id)
  PROVE  AnyInv'
<1>1. call'.op = "results"
  BY IdleType DEF GetResults, Call
<1> QED
  BY <1>1, SameSlotsAny DEF GetResults

(* The pair of snapshots of a new row: the end comes after the start.      *)
LEMMA AddDataRowAny ==
  ASSUME TypeInv, AnyInv, AddDataRow
  PROVE  AnyInv'
<1> DEFINE es == all_eventsets[call.cur]
           s == find_first_matching_snapshot_type(es, call.from, START)
           e == find_first_matching_snapshot_type(es, s, END)
           row == [start |-> es.data[s], end |-> es.data[e]]
<1>1. /\ call.op = "results" /\ HasPair(es, call.from) /\ rows' = Append(rows, row)
      /\ call' = [call EXCEPT !.from = e + 1] /\ UNCHANGED <<all_eventsets, now, fault>>
  BY DEF AddDataRow
<1>2. /\ call \in Call /\ rows \in Seq([start : Cell, end : Cell]) /\ IsValid(call.cur)
      /\ fault = "none" /\ now \in Nat
  BY <1>1 DEF TypeInv, TypeOK, CallOK
<1>3. call'.op = "results" /\ call.from \in Nat
  BY <1>1, <1>2 DEF Call
<1>4. call.cur \in Slots /\ es \in Slot /\ es.valid
  BY <1>2, ValidSlot
<1>5. BufferOK(es, now) /\ es.data_index <= es.data_size
  BY <1>2, <1>4 DEF AnyInv, Usable, TypeInv, BlocksOK, Blocks
<1>6. /\ s \in Nat /\ e \in Nat /\ s < e /\ e < es.data_index
      /\ es.data[s] \in Cell /\ es.data[e] \in Cell
      /\ es.data[s].type = START /\ es.data[e].type = END
  <2> HIDE DEF es
  <2> QED
    BY <1>1, <1>3, <1>4, <1>5, PairProperties
<1>7. es.data_index \in Nat
  BY <1>4 DEF Slot
<1> HIDE DEF s, e, es
<1>8. s \in 0 .. es.data_index - 1 /\ e \in 0 .. es.data_index - 1
  BY <1>6, <1>7
<1>9. /\ es.data[s].time <= es.data[e].time
      /\ Reported(es.data[s]) /\ Reported(es.data[e])
  BY <1>5, <1>6, <1>8 DEF BufferOK, Ordered
<1>10. RowOK(row) /\ row \in [start : Cell, end : Cell]
  BY <1>6, <1>9 DEF RowOK
<1> HIDE DEF row
<1>11. DOMAIN rows' = DOMAIN rows \cup {Len(rows) + 1} /\ rows'[Len(rows) + 1] = row
       /\ \A k \in DOMAIN rows : rows'[k] = rows[k]
  BY <1>1, <1>2, <1>10, AppendOne
<1>12. \A k \in DOMAIN rows' : RowOK(rows'[k])
  BY <1>10, <1>11 DEF AnyInv
<1>13. now' \in Nat /\ now <= now'
  BY <1>1, <1>2
<1> QED
  BY <1>1, <1>3, <1>12, <1>13, NoSlotAny

LEMMA ReturnResultsAny ==
  ASSUME TypeInv, AnyInv, ReturnResults
  PROVE  AnyInv'
<1>1. call'.op = "idle" /\ rows' = <<>> /\ UNCHANGED <<all_eventsets, now, fault>>
  BY IdleType DEF ReturnResults
<1>2. now \in Nat
  BY DEF TypeInv, TypeOK
<1>3. now' \in Nat /\ now <= now'
  BY <1>1, <1>2
<1>4. \A k \in DOMAIN rows' : RowOK(rows'[k])
  BY <1>1
<1> QED
  BY <1>1, <1>3, <1>4, NoSlotAny

LEMMA TickAny ==
  ASSUME TypeInv, AnyInv, Tick
  PROVE  AnyInv'
<1>1. now \in Nat /\ now' = now + 1 /\ UNCHANGED <<all_eventsets, call, rows, fault>>
  BY DEF Tick, TypeInv, TypeOK
<1>2. now' \in Nat /\ now <= now'
  BY <1>1
<1>3. \A k \in DOMAIN rows' : RowOK(rows'[k])
  BY <1>1 DEF AnyInv
<1> QED
  BY <1>1, <1>2, <1>3, NoSlotAny

LEMMA InitAny == Init => AnyInv
<1>1. SUFFICES ASSUME Init PROVE AnyInv
  OBVIOUS
<1>2. call.op = "idle" /\ rows = <<>>
  BY <1>1, IdleType DEF Init
<1>3. \A s \in Slots : ~Usable(s)
  BY <1>1, <1>2 DEF Init, EmptySlot, Usable
<1>4. \A k \in DOMAIN rows : RowOK(rows[k])
  BY <1>2
<1> QED
  BY <1>2, <1>3, <1>4 DEF AnyInv

LEMMA NextAny ==
  ASSUME TypeInv, AnyInv, [Next]_vars
  PROVE  AnyInv'
<1>1. CASE Create
  BY <1>1, CreateAny
<1>2. CASE \E id \in Slots : DestroyEventSet(id) \/ GetResults(id)
  BY <1>2, DestroyEventSetAny, GetResultsAny
<1>3. ASSUME NEW ids \in IdArrays,
             \/ Start(ids) \/ Stop(ids) \/ Reset(ids)
             \/ \E user \in SampleIds : Sample(ids, user)
      PROVE  AnyInv'
  <2>1. \E op \in IdOps : \E user : BeginLoop(op, ids, user)
    BY <1>3 DEF Start, Stop, Sample, Reset, IdOps
  <2> QED
    BY <2>1, BeginLoopAny
<1>4. CASE Iterate
  BY <1>4, AddEventAny, FinishCreateAny, AttachAny, InvalidIdAny, StartOneAny,
     SampleOneAny, StopOneAny, ResetOneAny, AddDataRowAny, ReturnResultsAny DEF Iterate
<1>5. CASE Tick
  BY <1>5, TickAny
<1>6. CASE UNCHANGED vars
  BY <1>6, SameSlotsAny DEF vars
<1> QED
  BY <1>1, <1>2, <1>3, <1>4, <1>5, <1>6 DEF Next

LEMMA AnyClient == Spec => [](TypeInv /\ AnyInv)
<1>1. Init => TypeInv /\ AnyInv
  BY InitTypeInv, InitAny
<1>2. TypeInv /\ AnyInv /\ [Next]_vars => (TypeInv /\ AnyInv)'
  BY NextTypeInv, NextAny
<1> QED
  BY <1>1, <1>2, PTL DEF Spec

-----------------------------------------------------------------------------
(* All PAPI events of an event set are of the component its PAPI event set *)
(* is assigned to: createEventSet compares the component of every further  *)
(* counter, and an event of a counter that is known is of the same         *)
(* component (measurement.c, the loop over the event names).               *)
THEOREM OneComponentOnly == Spec => []SameComponent
<1>1. TypeInv /\ AnyInv => SameComponent
  BY DEF AnyInv, Usable, EventsOK, OneComponent, SameComponent
<1> QED
  BY <1>1, AnyClient, PTL

(* The getter of a PAPI event reads the column PAPI delivers its counter   *)
(* in, for event arrays that ask for at most UBENCH_MAX_PAPI_EVENTS        *)
(* counters (measurement.c, papi_index).                                   *)
THEOREM ColumnsMatch ==
  ASSUME PapiFits
  PROVE  Spec => []PapiColumns
<1>1. TypeInv /\ AnyInv => PapiColumns
  BY DEF AnyInv, Usable, EventsOK, Columns, HasColumn, PapiColumns
<1> QED
  BY <1>1, AnyClient, PTL

(* Whatever the client calls, the snapshots in use are ordered in time     *)
(* while nothing was written outside a buffer, and the end of a row of     *)
(* getResults is not before its start (measurement.c, the step back of     *)
(* start and sample in a full buffer, and the search of getResults).       *)
THEOREM InOrder == Spec => []SnapshotsInOrder
<1>1. TypeInv /\ AnyInv => SnapshotsInOrder
  BY DEF AnyInv, Usable, BufferOK, Ordered, RowOK, SnapshotsInOrder
<1> QED
  BY <1>1, AnyClient, PTL

(* Whatever the client calls, a value of getResults is an error code       *)
(* exactly when a PAPI call made for that row failed: the code a cell      *)
(* keeps from an earlier use is one the getter does not look at, or the    *)
(* event set makes no PAPI calls (measure.c, getter_papi in events.c).     *)
THEOREM RowsReport == Spec => []RowReportsItsCalls
<1>1. TypeInv /\ AnyInv => RowReportsItsCalls
  <2>1. SUFFICES ASSUME AnyInv, NEW k \in DOMAIN rows
                 PROVE  (getter_papi(rows[k]) = "PAPI_ERROR")
                          <=> (rows[k].start.failed \/ rows[k].end.failed)
    BY DEF RowReportsItsCalls
  <2>2. RowOK(rows[k])
    BY <2>1 DEF AnyInv
  <2> QED
    BY <2>2 DEF RowOK, Reported, getter_papi
<1> QED
  BY <1>1, AnyClient, PTL

(* A step of the methods that create writes at most a slot that is not     *)
(* valid; attaching may free the event set that was just created.          *)
WritesOnly(i) == \E es : all_eventsets' = [all_eventsets EXCEPT ![i] = es]
MayWrite(i) == ~all_eventsets[i].valid \/ (call.op = "attach" /\ call.cur = i)
WritesOwn == UNCHANGED all_eventsets \/ \E i \in Slots : MayWrite(i) /\ WritesOnly(i)

LEMMA CreateBegins ==
  ASSUME TypeInv, Create
  PROVE  WritesOwn
<1>1. PICK m \in Counts, names \in EventArrays, attach \in Attaching :
        \/ CreateRejected(m, names, attach)
        \/ CreateAllocates(m, names, attach)
        \/ \E what \in {"table", "data", "events"} : CreateOutOfMemory(m, names, attach, what)
  BY DEF Create
<1>2. CASE CreateRejected(m, names, attach)
  BY <1>2 DEF CreateRejected, WritesOwn
<1>3. CASE CreateAllocates(m, names, attach)
  <2>1. SlotFor \in Slots /\ ~all_eventsets[SlotFor].valid
    BY <1>3, SlotForProperties DEF CreateAllocates, TypeInv
  <2>2. WritesOnly(SlotFor)
    BY <1>3 DEF CreateAllocates, WritesOnly
  <2> QED
    BY <2>1, <2>2 DEF WritesOwn, MayWrite
<1>4. ASSUME NEW what, CreateOutOfMemory(m, names, attach, what)
      PROVE  WritesOwn
  <2>1. SlotFor \in Slots /\ ~all_eventsets[SlotFor].valid
    BY <1>4, SlotForProperties DEF CreateOutOfMemory, TypeInv
  <2>2. UNCHANGED all_eventsets \/ WritesOnly(SlotFor)
    BY <1>4 DEF CreateOutOfMemory, WritesOnly
  <2> QED
    BY <2>1, <2>2 DEF WritesOwn, MayWrite
<1> QED
  BY <1>1, <1>2, <1>3, <1>4

LEMMA CreateGoesOn ==
  ASSUME TypeInv, Next, call.op \in {"events", "attach"}
  PROVE  WritesOwn
<1>1. /\ all_eventset_count \in 0 .. MaxSets /\ call \in Call
      /\ call.op = "events" =>
           call.cur \in 0 .. all_eventset_count - 1 /\ ~all_eventsets[call.cur].valid
      /\ call.op = "attach" /\ call.cur # -1 => call.cur \in 0 .. all_eventset_count - 1
  BY DEF TypeInv, TypeOK, CallOK, IsValid
<1>2. /\ call.op = "events" => call.cur \in Slots /\ MayWrite(call.cur)
      /\ call.op = "attach" /\ call.cur # -1 => call.cur \in Slots /\ MayWrite(call.cur)
  BY <1>1, InTable DEF MayWrite
<1>3. CASE AddEvent
  <2>1. call.op = "events" /\ WritesOnly(call.cur)
    BY <1>3 DEF AddEvent, WritesOnly
  <2> QED
    BY <1>2, <2>1 DEF WritesOwn
<1>4. ASSUME NEW papi, FinishCreate(papi) PROVE WritesOwn
  <2>1. call.op = "events" /\ WritesOnly(call.cur)
    BY <1>4 DEF FinishCreate, WritesOnly
  <2> QED
    BY <1>2, <2>1 DEF WritesOwn
<1>5. ASSUME NEW ok, Attach(ok) PROVE WritesOwn
  <2>1. call.op = "attach" /\ (UNCHANGED all_eventsets \/ (call.cur # -1 /\ WritesOnly(call.cur)))
    BY <1>5 DEF Attach, WritesOnly
  <2> QED
    BY <1>2, <2>1 DEF WritesOwn
<1>6. ASSUME CanCall PROVE FALSE
  BY <1>6, IdleType DEF CanCall
<1>7. CASE Tick
  BY <1>7 DEF Tick, WritesOwn
<1>8. CASE Create
  BY <1>8, CreateBegins
<1>9. ASSUME NEW id, DestroyEventSet(id) \/ GetResults(id) PROVE FALSE
  BY <1>6, <1>9 DEF DestroyEventSet, GetResults
<1>10. ASSUME NEW ids, Start(ids) \/ Stop(ids) \/ Reset(ids) \/ \E user : Sample(ids, user)
       PROVE  FALSE
  BY <1>6, <1>10 DEF Start, Stop, Reset, Sample, BeginLoop
<1>11. ASSUME \/ InvalidId \/ ResetOne \/ AddDataRow \/ ReturnResults
              \/ \E rc1, rc2 : StartOne(rc1, rc2)
              \/ \E rc : SampleOne(rc) \/ StopOne(rc)
       PROVE  FALSE
  BY <1>11 DEF InvalidId, StartOne, SampleOne, StopOne, ResetOne, AddDataRow, ReturnResults
<1>12. CASE Iterate
  BY <1>3, <1>4, <1>5, <1>11, <1>12 DEF Iterate
<1> QED
  BY <1>7, <1>8, <1>9, <1>10, <1>12 DEF Next

(* The methods that create leave the valid event sets alone, on every path *)
(* and when memory runs out: the slot createEventSet fills, and frees when *)
(* it fails, becomes valid with its last step only, and a failing attach   *)
(* destroys no other event set (measurement.c, createEventSet and the      *)
(* create-attached methods).                                               *)
THEOREM CreateKeepsOthers == Spec => CreateDisturbsNothing
<1> DEFINE Step == \A s \in Slots :
                     all_eventsets[s].valid /\ all_eventsets'[s] # all_eventsets[s] =>
                       ~(Create \/ call.op = "events" \/ (call.op = "attach" /\ call.cur # s))
<1>1. ASSUME TypeInv, Next PROVE Step
  <2>1. SUFFICES ASSUME NEW s \in Slots, all_eventsets[s].valid,
                        Create \/ call.op = "events" \/ (call.op = "attach" /\ call.cur # s)
                 PROVE  all_eventsets'[s] = all_eventsets[s]
    OBVIOUS
  <2>2. all_eventsets \in [Slots -> Slot]
    BY <1>1 DEF TypeInv, TypeOK
  <2>3. WritesOwn
    BY <1>1, <2>1, CreateBegins, CreateGoesOn
  <2>4. ~MayWrite(s)
    <3>1. CASE Create
      BY <2>1, <3>1, IdleType DEF Create, CreateRejected, CreateAllocates, CreateOutOfMemory,
         CanCall, MayWrite
    <3> QED
      BY <2>1, <3>1 DEF MayWrite
  <2> QED
    BY <2>2, <2>3, <2>4 DEF WritesOwn, WritesOnly
<1>2. TypeInv /\ [Next]_vars => [Step]_vars
  BY <1>1
<1>3. Spec => []TypeInv
  BY InitTypeInv, NextTypeInv, PTL DEF Spec
<1> HIDE DEF Step
<1>4. Spec => [][Step]_vars
  BY <1>2, <1>3, PTL DEF Spec
<1> QED
  BY <1>4 DEF CreateDisturbsNothing, Step
=============================================================================
