------------------------------ MODULE EventSets ------------------------------
(***************************************************************************)
(* The event sets of the native agent (measurement.c, measure.c): the      *)
(* table all_eventsets, the life of an event set (create, attach,          *)
(* destroy) and the snapshot buffer that start, stop, sample and reset     *)
(* write and getResults reads.  The model is of the build with PAPI.       *)
(*                                                                         *)
(* One Java thread calls the native methods.  A method that loops over its *)
(* argument array or over the buffer takes one step per iteration, and no  *)
(* other method runs before it returns; only the clock moves in between.   *)
(*                                                                         *)
(* What the events measure is abstracted to one reading that never         *)
(* decreases (now); of a PAPI call only the return code is kept.  The test *)
(* of data_size = 0 in start and sample is left out: createEventSet makes  *)
(* no such event set.                                                      *)
(*                                                                         *)
(* A definition marked as a variant is a version of the one that follows   *)
(* it with a plausible error; it takes no part in the specification and    *)
(* serves to show that a property notices the error.                       *)
(*                                                                         *)
(* fault records that the code has left the memory it owns.  What happens  *)
(* after that is undefined and the model stops.                            *)
(***************************************************************************)
EXTENDS Integers, Sequences

CONSTANTS
  Counts,           \* measurementCount arguments of createEventSet
  EventArrays,      \* eventNames arguments: sequences of event names
  IdArrays,         \* eventSet... arguments: sequences of ids
  SampleIds,        \* sampleId arguments of sample
  Info,             \* event name -> what ubench_event_resolve finds
  Attaching,        \* whether createEventSet is called by a create-attached method
  Client,           \* how the Java code pairs its calls, see Allowed
  MaxPapiEvents,    \* UBENCH_MAX_PAPI_EVENTS
  MaxSets,          \* bound: slots of the table
  MaxIndex,         \* bound: snapshot cells of an event set
  MaxTime,          \* bound: readings of the clock
  MaxMeasurements   \* bound: start calls per event set since its last reset

START == -1   \* UBENCH_SNAPSHOT_TYPE_START
END == -2     \* UBENCH_SNAPSHOT_TYPE_END
PapiRc == {"PAPI_OK", "PAPI_ERROR"}

Slots == 0 .. MaxSets - 1
Cells == 0 .. MaxIndex - 1

EventInfo == [known : BOOLEAN, papi : BOOLEAN, id : Int, component : Int]

ASSUME ConstantsAssumption ==
  /\ Attaching \subseteq BOOLEAN
  /\ Client \in {"alternating", "sampling", "any"}
  /\ MaxSets \in Nat \ {0} /\ MaxIndex \in Nat
  /\ MaxTime \in Nat /\ MaxMeasurements \in Nat
  /\ MaxPapiEvents \in Nat \ {0, 1}
  /\ SampleIds \subseteq Nat
  /\ \A m \in Counts : m \in Int /\ 2 * m <= MaxIndex
  /\ \A a \in IdArrays : a \in Seq(Int)
  /\ \A a \in EventArrays : a \in Seq(DOMAIN Info)
  /\ \A e \in DOMAIN Info : Info[e] \in EventInfo
  /\ \A e, f \in DOMAIN Info :   \* PAPI derives the component from the id
       Info[e].papi /\ Info[f].papi /\ Info[e].id = Info[f].id =>
         Info[e].component = Info[f].component

VARIABLES
  all_eventsets,       \* the table; slots past the count are not allocated
  all_eventset_count,
  call,                \* the native method that is running
  rows,                \* the rows getResults has passed to addDataRow
  now,                 \* what a clock or an event counter reads
  fault                \* "none", or the invalid memory access that was made

vars == <<all_eventsets, all_eventset_count, call, rows, now, fault>>

(***************************************************************************)
(* A snapshot cell.  meas and failed are history: the measurement (start   *)
(* call) it belongs to, and whether a PAPI call made for it failed.        *)
(***************************************************************************)
ZeroCell ==
  [type |-> 0, time |-> 0, rc1 |-> "PAPI_OK", rc2 |-> "PAPI_OK",
   meas |-> 0, failed |-> FALSE]

(***************************************************************************)
(* A slot of the table.  mem is the state of the blocks data and           *)
(* used_events, which are allocated and freed together; names counts the   *)
(* strings ubench_event_resolve duplicated for used_events.  running is    *)
(* PAPI's own state of papi_eventset.  count, open and taken are history:  *)
(* the requested number of measurements, whether a measurement is started  *)
(* and not stopped, and how many were started since the last reset.        *)
(***************************************************************************)
EmptySlot ==
  [valid |-> FALSE, mem |-> "none", names |-> 0,
   data |-> [c \in Cells |-> ZeroCell], data_index |-> 0, data_size |-> 0,
   used_events |-> <<>>, used_papi_events |-> <<>>, papi_component |-> 0,
   papi_eventset |-> "PAPI_NULL", running |-> FALSE,
   count |-> 0, open |-> FALSE, taken |-> 0]

Idle == [op |-> "idle", attach |-> FALSE, names |-> <<>>, ids |-> <<>>,
         cur |-> -1, user |-> 0, from |-> 0]

Init ==
  /\ all_eventsets = [s \in Slots |-> EmptySlot]
  /\ all_eventset_count = 0
  /\ call = Idle
  /\ rows = <<>>
  /\ now = 0
  /\ fault = "none"

CanCall == call = Idle /\ fault = "none"

IsValid(id) ==
  id \in 0 .. all_eventset_count - 1 /\ all_eventsets[id].valid

UsesPapi(es) == \E k \in DOMAIN es.used_events : es.used_events[k].papi

(***************************************************************************)
(* createEventSet                                                          *)
(***************************************************************************)

(* createEventSet returns id to Java, or to the attaching function.        *)
CreateReturns(attach, id) ==
  call' = IF ~attach THEN Idle
          ELSE [Idle EXCEPT !.op = "attach", !.attach = attach, !.cur = id]

(* The first free slot, or the one a realloc of the table adds.            *)
FreeSlots_NotTested == 0 .. all_eventset_count - 1   \* variant
FreeSlots ==
  {s \in 0 .. all_eventset_count - 1 : ~all_eventsets[s].valid}
SlotFor ==
  IF FreeSlots = {} THEN all_eventset_count
  ELSE CHOOSE s \in FreeSlots : \A t \in FreeSlots : s <= t

(* Both blocks are freed; the strings and the PAPI event set are not.      *)
Freed_StillValid(es) == [es EXCEPT !.mem = "freed"]   \* variant
Freed(es) == [es EXCEPT !.mem = "freed", !.valid = FALSE]

CreateRejected(m, names, attach) ==
  /\ CanCall
  /\ 2 * m <= 0 \/ names = <<>>
  /\ CreateReturns(attach, -1)
  /\ UNCHANGED <<all_eventsets, all_eventset_count, rows, now, fault>>

(* One of the three allocations fails; a slot already added stays, free.   *)
CreateOutOfMemory(m, names, attach, what) ==
  /\ CanCall
  /\ 2 * m > 0 /\ names # <<>>
  /\ SlotFor \in Slots
  /\ \/ /\ what = "table" /\ FreeSlots = {}
        /\ UNCHANGED <<all_eventsets, all_eventset_count>>
     \/ /\ what \in {"data", "events"}
        /\ all_eventset_count' = IF FreeSlots = {} THEN all_eventset_count + 1
                                 ELSE all_eventset_count
        /\ all_eventsets' =
             [all_eventsets EXCEPT ![SlotFor] =
                IF what = "data" THEN [@ EXCEPT !.mem = "none"]
                ELSE [@ EXCEPT !.mem = "freed", !.data_index = 0, !.data_size = 2 * m]]
  /\ CreateReturns(attach, -1)
  /\ UNCHANGED <<rows, now, fault>>

CreateAllocates(m, names, attach) ==
  /\ CanCall
  /\ 2 * m > 0 /\ names # <<>>
  /\ SlotFor \in Slots
  /\ all_eventset_count' = IF FreeSlots = {} THEN all_eventset_count + 1
                           ELSE all_eventset_count
  /\ all_eventsets' =
       [all_eventsets EXCEPT ![SlotFor] =
          [EmptySlot EXCEPT !.mem = "live", !.data_size = 2 * m, !.count = m]]
  /\ call' = [Idle EXCEPT !.op = "events", !.attach = attach,
                          !.names = names, !.cur = SlotFor]
  /\ UNCHANGED <<rows, now, fault>>

(***************************************************************************)
(* One iteration of the loop over the event names.                         *)
(***************************************************************************)
KnownPapi(es, id) == {j \in DOMAIN es.used_papi_events :
                        es.used_papi_events[j] = id}

PapiIndex_OneOff(es, id) ==   \* variant
  IF KnownPapi(es, id) # {} THEN CHOOSE j \in KnownPapi(es, id) : TRUE
  ELSE Len(es.used_papi_events)
(* papi_index is the position of the id, counted from 0; it stays 0, as    *)
(* calloc left it, when the id is new and used_papi_events is full.        *)
PapiIndex(es, id) ==
  IF KnownPapi(es, id) # {} THEN (CHOOSE j \in KnownPapi(es, id) : TRUE) - 1
  ELSE IF Len(es.used_papi_events) < MaxPapiEvents
       THEN Len(es.used_papi_events) ELSE 0

UsedEvent(es, e) ==
  [name |-> e, papi |-> Info[e].papi, id |-> Info[e].id,
   component |-> Info[e].component,
   papi_index |-> IF Info[e].papi THEN PapiIndex(es, Info[e].id) ELSE 0]

PapiIdsWith(es, id) ==
  IF KnownPapi(es, id) = {} /\ Len(es.used_papi_events) < MaxPapiEvents
  THEN Append(es.used_papi_events, id) ELSE es.used_papi_events

WithEvent(es, e) ==
  [es EXCEPT
     !.names = @ + 1,
     !.used_events = Append(@, UsedEvent(es, e)),
     !.used_papi_events = IF Info[e].papi THEN PapiIdsWith(es, Info[e].id) ELSE @]

ComponentDiffers_OneOff(es, e) ==   \* variant
  /\ Info[e].papi
  /\ Len(PapiIdsWith(es, Info[e].id)) > 2
  /\ es.papi_component # Info[e].component

ComponentDiffers(es, e) ==
  /\ Info[e].papi
  /\ Len(PapiIdsWith(es, Info[e].id)) > 1
  /\ es.papi_component # Info[e].component

AddEvent ==
  /\ call.op = "events" /\ call.names # <<>>
  /\ LET e == Head(call.names)
         es == all_eventsets[call.cur]
     IN  \/ /\ ~Info[e].known
            /\ all_eventsets' = [all_eventsets EXCEPT ![call.cur] = Freed(es)]
            /\ CreateReturns(call.attach, -1)
         \/ /\ Info[e].known /\ ComponentDiffers(es, e)
            /\ all_eventsets' = [all_eventsets EXCEPT ![call.cur] = WithEvent(es, e)]
            /\ CreateReturns(call.attach, -1)
         \/ /\ Info[e].known /\ ~ComponentDiffers(es, e)
            /\ all_eventsets' =
                 [all_eventsets EXCEPT ![call.cur] =
                    [WithEvent(es, e) EXCEPT !.papi_component =
                       IF Info[e].papi THEN Info[e].component ELSE @]]
            /\ call' = [call EXCEPT !.names = Tail(@)]
  /\ UNCHANGED <<all_eventset_count, rows, now, fault>>

(* All events are resolved; the PAPI event set is made when one needs it.  *)
(* papi says how far the PAPI calls get before one of them fails.          *)
FinishCreate(papi) ==
  /\ call.op = "events" /\ call.names = <<>>
  /\ LET es == all_eventsets[call.cur]
     IN  \/ /\ ~UsesPapi(es) \/ papi = "ok"
            /\ all_eventsets' =
                 [all_eventsets EXCEPT ![call.cur] =
                    [es EXCEPT !.valid = TRUE,
                       !.papi_eventset = IF UsesPapi(es) THEN "created" ELSE @]]
            /\ CreateReturns(call.attach, call.cur)
         \/ /\ UsesPapi(es) /\ papi # "ok"
            /\ all_eventsets' =
                 [all_eventsets EXCEPT ![call.cur] =
                    [Freed(es) EXCEPT !.papi_eventset =
                       IF papi = "not created" THEN @ ELSE "created"]]
            /\ CreateReturns(call.attach, -1)
  /\ UNCHANGED <<all_eventset_count, rows, now, fault>>

(***************************************************************************)
(* createAttachedEventSetWithJavaThread and ...WithNativeThread, after     *)
(* their call of createEventSet.  They read slot -1 when it returned -1:   *)
(* the read faults while the table is still the null pointer; later it     *)
(* finds whatever precedes the table, and the function returns -1 whether  *)
(* or not that looks like a PAPI event set.                                *)
(***************************************************************************)
Attach(ok) ==
  /\ call.op = "attach"
  /\ LET id == call.cur
     IN  \/ /\ id = -1
            /\ fault' = IF all_eventset_count = 0 THEN "null table" ELSE fault
            /\ UNCHANGED all_eventsets
         \/ /\ id # -1 /\ (ok \/ ~UsesPapi(all_eventsets[id]))
            /\ UNCHANGED <<all_eventsets, fault>>
         \/ /\ id # -1 /\ ~ok /\ UsesPapi(all_eventsets[id])
            /\ all_eventsets' = [all_eventsets EXCEPT ![id] = Freed(@)]
            /\ UNCHANGED fault
  /\ call' = Idle
  /\ UNCHANGED <<all_eventset_count, rows, now>>

DestroyEventSet(id) ==
  /\ CanCall
  /\ IsValid(id)   \* otherwise an exception and no effect
  /\ all_eventsets' = [all_eventsets EXCEPT ![id] = Freed(@)]
  /\ UNCHANGED <<all_eventset_count, call, rows, now, fault>>

(***************************************************************************)
(* start, stop, sample, reset: a loop over the array of ids that throws    *)
(* and returns at the first invalid one.                                   *)
(***************************************************************************)

(* How the Java code uses the methods.  An "alternating" client starts     *)
(* only what is stopped, stops only what is started, resets only what is   *)
(* stopped and takes no samples; a "sampling" client also samples what is  *)
(* started; "any" client does as it likes.                                 *)
Allowed(op, ids) ==
  \/ Client = "any"
  \/ /\ \A i, j \in DOMAIN ids : ids[i] = ids[j] => i = j
     /\ op = "sample" => Client = "sampling"
     /\ \A i \in DOMAIN ids :
          IsValid(ids[i]) =>
            (all_eventsets[ids[i]].open <=> op \in {"stop", "sample"})

(* Bound: no more starts than MaxMeasurements.                             *)
WithinBound(op, ids) ==
  op = "start" =>
    \A i \in DOMAIN ids :
      IsValid(ids[i]) => all_eventsets[ids[i]].taken < MaxMeasurements

BeginLoop(op, ids, user) ==
  /\ CanCall
  /\ ids # <<>>   \* otherwise the method returns at once
  /\ Allowed(op, ids) /\ WithinBound(op, ids)
  /\ call' = [Idle EXCEPT !.op = op, !.ids = ids, !.user = user]
  /\ UNCHANGED <<all_eventsets, all_eventset_count, rows, now, fault>>

Start(ids) == BeginLoop("start", ids, 0)
Stop(ids) == BeginLoop("stop", ids, 0)
Sample(ids, user) == BeginLoop("sample", ids, user)
Reset(ids) == BeginLoop("reset", ids, 0)

NextId == call' = IF Len(call.ids) = 1 THEN Idle
                  ELSE [call EXCEPT !.ids = Tail(@)]

InvalidId ==
  /\ call.op \in {"start", "stop", "sample", "reset"} /\ fault = "none"
  /\ ~IsValid(Head(call.ids))
  /\ call' = Idle
  /\ UNCHANGED <<all_eventsets, all_eventset_count, rows, now, fault>>

MakeRoom_OneBack(es) ==   \* variant
  IF es.data_index >= es.data_size
  THEN [es EXCEPT !.data_index = @ - 1] ELSE es

(* start and sample step back over the last two cells of a full buffer.    *)
MakeRoom(es) ==
  IF es.data_index >= es.data_size
  THEN [es EXCEPT !.data_index = @ - 2] ELSE es

(* Return codes of the PAPI calls of one snapshot: PAPI_start refuses a    *)
(* running event set and PAPI_stop one that does not run.                  *)
StartRcs(es) == IF es.running THEN {"PAPI_ERROR"} ELSE PapiRc
StopRcs(es) == IF es.running THEN PapiRc ELSE {"PAPI_ERROR"}

ubench_measure_start_Unchecked(es, cell, rcStart, rcRead) ==   \* variant
  [cell EXCEPT !.type = START, !.time = now, !.meas = es.taken + 1,
     !.rc1 = IF UsesPapi(es) THEN rcRead ELSE @,
     !.failed = UsesPapi(es) /\ "PAPI_ERROR" \in {rcStart, rcRead}]

(* ubench_measure_start: papi_rc2 is PAPI_start's code, papi_rc1 PAPI_read's. *)
ubench_measure_start(es, cell, rcStart, rcRead) ==
  [cell EXCEPT !.type = START, !.time = now, !.meas = es.taken + 1,
     !.rc1 = IF UsesPapi(es) THEN rcRead ELSE @,
     !.rc2 = IF UsesPapi(es) THEN rcStart ELSE @,
     !.failed = UsesPapi(es) /\ "PAPI_ERROR" \in {rcStart, rcRead}]

(* ubench_measure_sample sets papi_rc1 only.                               *)
ubench_measure_sample(es, cell, rcRead, user) ==
  [cell EXCEPT !.type = user, !.time = now, !.meas = es.taken,
     !.rc1 = IF UsesPapi(es) THEN rcRead ELSE @,
     !.failed = UsesPapi(es) /\ rcRead = "PAPI_ERROR"]

ubench_measure_stop_NoTime(es, cell, rcStop) ==   \* variant
  [cell EXCEPT !.type = END, !.meas = es.taken,
     !.rc1 = IF UsesPapi(es) THEN rcStop ELSE @,
     !.failed = UsesPapi(es) /\ rcStop = "PAPI_ERROR"]

(* ubench_measure_stop sets papi_rc1 only.                                 *)
ubench_measure_stop(es, cell, rcStop) ==
  [cell EXCEPT !.type = END, !.time = now, !.meas = es.taken,
     !.rc1 = IF UsesPapi(es) THEN rcStop ELSE @,
     !.failed = UsesPapi(es) /\ rcStop = "PAPI_ERROR"]

(* The snapshot goes to data[data_index], wherever that is.                *)
Overruns(es) == es.data_index >= es.data_size
WriteCell(es, cell) ==
  [es EXCEPT !.data = IF Overruns(es) THEN @ ELSE [@ EXCEPT ![es.data_index] = cell],
             !.data_index = @ + 1]
CellAt(es) == IF Overruns(es) THEN ZeroCell ELSE es.data[es.data_index]

(* An event set after start, sample and stop have taken their snapshot.    *)
Started(es, rcStart, rcRead) ==
  [WriteCell(es, ubench_measure_start(es, CellAt(es), rcStart, rcRead))
   EXCEPT !.running = @ \/ (UsesPapi(es) /\ rcStart = "PAPI_OK"),
          !.open = TRUE, !.taken = @ + 1]
Sampled(es, rcRead, user) ==
  WriteCell(es, ubench_measure_sample(es, CellAt(es), rcRead, user))
Stopped(es, rcStop) ==
  [WriteCell(es, ubench_measure_stop(es, CellAt(es), rcStop))
   EXCEPT !.running = @ /\ ~(UsesPapi(es) /\ rcStop = "PAPI_OK"),
          !.open = FALSE]

StartOne(rcStart, rcRead) ==
  /\ call.op = "start" /\ fault = "none" /\ IsValid(Head(call.ids))
  /\ LET id == Head(call.ids)
         es == MakeRoom(all_eventsets[id])
     IN  /\ UsesPapi(es) => rcStart \in StartRcs(es)
         /\ all_eventsets' = [all_eventsets EXCEPT ![id] = Started(es, rcStart, rcRead)]
         /\ fault' = IF Overruns(es) THEN "overrun" ELSE fault
  /\ NextId
  /\ UNCHANGED <<all_eventset_count, rows, now>>

SampleOne(rcRead) ==
  /\ call.op = "sample" /\ fault = "none" /\ IsValid(Head(call.ids))
  /\ LET id == Head(call.ids)
         es == MakeRoom(all_eventsets[id])
     IN  /\ all_eventsets' = [all_eventsets EXCEPT ![id] = Sampled(es, rcRead, call.user)]
         /\ fault' = IF Overruns(es) THEN "overrun" ELSE fault
  /\ NextId
  /\ UNCHANGED <<all_eventset_count, rows, now>>

(* stop does not look at data_size.                                        *)
StopOne(rcStop) ==
  /\ call.op = "stop" /\ fault = "none" /\ IsValid(Head(call.ids))
  /\ LET id == Head(call.ids)
         es == all_eventsets[id]
     IN  /\ UsesPapi(es) => rcStop \in StopRcs(es)
         /\ all_eventsets' = [all_eventsets EXCEPT ![id] = Stopped(es, rcStop)]
         /\ fault' = IF Overruns(es) THEN "overrun" ELSE fault
  /\ NextId
  /\ UNCHANGED <<all_eventset_count, rows, now>>

ResetOne_KeepsData ==   \* variant
  /\ call.op = "reset" /\ fault = "none" /\ IsValid(Head(call.ids))
  /\ all_eventsets' = [all_eventsets EXCEPT ![Head(call.ids)] = [@ EXCEPT !.taken = 0]]
  /\ NextId
  /\ UNCHANGED <<all_eventset_count, rows, now, fault>>

ResetOne ==
  /\ call.op = "reset" /\ fault = "none" /\ IsValid(Head(call.ids))
  /\ all_eventsets' =
       [all_eventsets EXCEPT ![Head(call.ids)] =
          [@ EXCEPT !.data_index = 0, !.taken = 0]]
  /\ NextId
  /\ UNCHANGED <<all_eventset_count, rows, now, fault>>

(***************************************************************************)
(* getResults: pairs the first start with the first end that follows it,   *)
(* and goes on after that end.                                             *)
(***************************************************************************)
Matching(es, from, type) ==
  {i \in from .. es.data_index - 1 : es.data[i].type = type}

LastMatching(es, from, type) ==   \* used by a variant
  CHOOSE i \in Matching(es, from, type) :
    \A j \in Matching(es, from, type) : i >= j

find_first_matching_snapshot_type(es, from, type) ==
  CHOOSE i \in Matching(es, from, type) :
    \A j \in Matching(es, from, type) : i <= j

HasPair(es, from) ==
  /\ Matching(es, from, START) # {}
  /\ Matching(es, find_first_matching_snapshot_type(es, from, START), END) # {}

GetResults_Unchecked(id) ==   \* variant
  /\ CanCall
  /\ call' = [Idle EXCEPT !.op = "results", !.cur = id]
  /\ UNCHANGED <<all_eventsets, all_eventset_count, rows, now, fault>>

GetResults(id) ==
  /\ CanCall
  /\ IsValid(id)
  /\ call' = [Idle EXCEPT !.op = "results", !.cur = id]
  /\ UNCHANGED <<all_eventsets, all_eventset_count, rows, now, fault>>

AddDataRow_LastEnd ==   \* variant
  /\ call.op = "results"
  /\ LET es == all_eventsets[call.cur]
         s == find_first_matching_snapshot_type(es, call.from, START)
         e == LastMatching(es, s, END)
     IN  /\ HasPair(es, call.from)
         /\ rows' = Append(rows, [start |-> es.data[s], end |-> es.data[e]])
         /\ call' = [call EXCEPT !.from = e + 1]
  /\ UNCHANGED <<all_eventsets, all_eventset_count, now, fault>>

(* A row is the pair of snapshots its values are computed from.            *)
AddDataRow ==
  /\ call.op = "results"
  /\ LET es == all_eventsets[call.cur]
         s == find_first_matching_snapshot_type(es, call.from, START)
         e == find_first_matching_snapshot_type(es, s, END)
     IN  /\ HasPair(es, call.from)
         /\ rows' = Append(rows, [start |-> es.data[s], end |-> es.data[e]])
         /\ call' = [call EXCEPT !.from = e + 1]
  /\ UNCHANGED <<all_eventsets, all_eventset_count, now, fault>>

ReturnResults_NoBreak ==   \* variant
  /\ call.op = "results"
  /\ call.from >= all_eventsets[call.cur].data_index
  /\ rows' = <<>>
  /\ call' = Idle
  /\ UNCHANGED <<all_eventsets, all_eventset_count, now, fault>>

ReturnResults ==
  /\ call.op = "results"
  /\ ~HasPair(all_eventsets[call.cur], call.from)
  /\ rows' = <<>>
  /\ call' = Idle
  /\ UNCHANGED <<all_eventsets, all_eventset_count, now, fault>>

getter_papi_NoStartCode(row) ==   \* variant
  IF "PAPI_ERROR" \in {row.start.rc1, row.end.rc1} THEN "PAPI_ERROR" ELSE "value"

(* getter_papi: a return code that is not PAPI_OK takes the place of the value. *)
getter_papi(row) ==
  IF "PAPI_ERROR" \in {row.start.rc1, row.start.rc2, row.end.rc1}
  THEN "PAPI_ERROR" ELSE "value"

getter_raw_papi(cell) ==
  IF "PAPI_ERROR" \in {cell.rc1, cell.rc2} THEN "PAPI_ERROR" ELSE "value"

(* What getRawResults returns for the PAPI events: a value per snapshot.   *)
getRawResults(es) ==
  [i \in 0 .. es.data_index - 1 |-> getter_raw_papi(es.data[i])]

(* The world: time passes, methods get compiled.                           *)
Tick ==
  /\ fault = "none"
  /\ now < MaxTime
  /\ now' = now + 1
  /\ UNCHANGED <<all_eventsets, all_eventset_count, call, rows, fault>>

Create ==
  \E m \in Counts, names \in EventArrays, attach \in Attaching :
    \/ CreateRejected(m, names, attach)
    \/ CreateAllocates(m, names, attach)
    \/ \E what \in {"table", "data", "events"} :
         CreateOutOfMemory(m, names, attach, what)

Iterate ==
  \/ AddEvent
  \/ \E papi \in {"ok", "not created", "failed"} : FinishCreate(papi)
  \/ \E ok \in BOOLEAN : Attach(ok)
  \/ InvalidId
  \/ \E rc1, rc2 \in PapiRc : StartOne(rc1, rc2)
  \/ \E rc \in PapiRc : SampleOne(rc)
  \/ \E rc \in PapiRc : StopOne(rc)
  \/ ResetOne
  \/ AddDataRow
  \/ ReturnResults

Next ==
  \/ Create
  \/ \E id \in Slots : DestroyEventSet(id) \/ GetResults(id)
  \/ \E ids \in IdArrays :
       \/ Start(ids) \/ Stop(ids) \/ Reset(ids)
       \/ \E user \in SampleIds : Sample(ids, user)
  \/ Iterate
  \/ Tick

Spec == Init /\ [][Next]_vars

(* A native method, once called, runs until it returns.                    *)
FairSpec == Spec /\ WF_vars(Iterate)

-----------------------------------------------------------------------------
Cell ==
  [type : Int, time : Nat, rc1 : PapiRc, rc2 : PapiRc, meas : Nat, failed : BOOLEAN]
Used ==
  [name : DOMAIN Info, papi : BOOLEAN, id : Int, component : Int, papi_index : Nat]
Slot ==
  [valid : BOOLEAN, mem : {"none", "live", "freed"}, names : Nat,
   data : [Cells -> Cell], data_index : Nat, data_size : 0 .. MaxIndex,
   used_events : Seq(Used), used_papi_events : Seq(Int), papi_component : Int,
   papi_eventset : {"PAPI_NULL", "created"}, running : BOOLEAN,
   count : Nat, open : BOOLEAN, taken : Nat]

IdOps == {"start", "stop", "sample", "reset"}

(* What the running method may rely on: createEventSet fills a slot that   *)
(* is not valid yet, the methods that read an event set were given the id  *)
(* of a valid one.                                                         *)
Call ==
  [op : IdOps \cup {"idle", "events", "attach", "results"},
   attach : BOOLEAN, names : Seq(DOMAIN Info), ids : Seq(Int),
   cur : -1 .. MaxSets - 1, user : Nat, from : Nat]
CallOK ==
  /\ call \in Call
  /\ call.op = "idle" => call = Idle
  /\ call.op \in IdOps => call.ids # <<>>
  /\ call.op = "events" =>
       call.cur \in 0 .. all_eventset_count - 1 /\ ~all_eventsets[call.cur].valid
  /\ call.op = "attach" => call.cur = -1 \/ IsValid(call.cur)
  /\ call.op = "results" => IsValid(call.cur) /\ fault = "none"

(* The types of the variables; an id beyond the table is not valid, and    *)
(* createEventSet, attach and getResults work on an id that stays good     *)
(* until they return.                                                      *)
TypeOK ==
  /\ all_eventsets \in [Slots -> Slot]
  /\ all_eventset_count \in 0 .. MaxSets
  /\ \A s \in Slots : all_eventsets[s].valid => s < all_eventset_count
  /\ CallOK
  /\ rows \in Seq([start : Cell, end : Cell])
  /\ now \in Nat
  /\ fault \in {"none", "null table", "overrun"}

(* An event set is usable once createEventSet has allocated its blocks.    *)
Usable(s) == all_eventsets[s].valid \/ (call.op = "events" /\ call.cur = s)

(* The blocks of a usable event set are allocated, data has room for the   *)
(* requested number of start and end snapshots, and data_index counts      *)
(* snapshots in it as long as nothing was written outside.                 *)
Blocks(es) ==
  /\ es.mem = "live" /\ es.count > 0 /\ es.data_size = 2 * es.count
  /\ fault = "none" => es.data_index <= es.data_size
BlocksOK == \A s \in Slots : Usable(s) => Blocks(all_eventsets[s])

(* No snapshot is written outside the block createEventSet allocated for   *)
(* it: start and sample make room in a full buffer, stop relies on the     *)
(* parity of data_index.                                                   *)
InBounds ==
  /\ fault # "overrun"
  /\ \A s \in Slots :
       all_eventsets[s].valid => all_eventsets[s].data_index <= all_eventsets[s].data_size

(* A row of getResults is one measurement: its start and its end snapshot  *)
(* were taken by a start and the stop that answers it.                     *)
RowsAreMeasurements == \A k \in DOMAIN rows : rows[k].start.meas = rows[k].end.meas

(* How many measurements a buffer of this history keeps, and which one is  *)
(* the k-th.                                                               *)
Kept(es) ==
  LET n == IF es.taken < es.count THEN es.taken ELSE es.count
  IN  IF es.open THEN n - 1 ELSE n
KeptAt(es, k) == IF k < es.count THEN k ELSE es.taken

(* getResults returns every completed measurement in order while there is  *)
(* room; in a full buffer the last place is that of the latest one.        *)
ResultsComplete ==
  call.op = "results" =>
    LET es == all_eventsets[call.cur]
    IN  /\ Len(rows) <= Kept(es)
        /\ ~HasPair(es, call.from) => Len(rows) = Kept(es)
        /\ \A k \in DOMAIN rows : rows[k].start.meas = KeptAt(es, k)

(* The snapshots in use are in the order they were taken, also when start  *)
(* or sample steps back in a full buffer: a row never ends before it       *)
(* started.                                                                *)
SnapshotsInOrder ==
  /\ \A s \in Slots :
       LET es == all_eventsets[s]
       IN  es.valid /\ fault = "none" =>
             \A i, j \in 0 .. es.data_index - 1 :
               i < j => es.data[i].time <= es.data[j].time
  /\ \A k \in DOMAIN rows : rows[k].start.time <= rows[k].end.time

(* A value of getResults is an error code exactly when a PAPI call made    *)
(* for that row failed.                                                    *)
RowReportsItsCalls ==
  \A k \in DOMAIN rows :
    getter_papi(rows[k]) = "PAPI_ERROR" <=> rows[k].start.failed \/ rows[k].end.failed

RawOK(cell) == getter_raw_papi(cell) = "PAPI_ERROR" <=> cell.failed

(* A value of getRawResults is an error code exactly when a PAPI call made *)
(* for that snapshot failed, and not one that used the cell before it.     *)
RawReportsItsCalls ==
  \A s \in Slots :
    LET es == all_eventsets[s]
    IN  es.valid /\ fault = "none" =>
          \A i \in DOMAIN getRawResults(es) :
            getRawResults(es)[i] = "PAPI_ERROR" <=> es.data[i].failed

(* The snapshot buffer of a client that alternates start and stop: pairs   *)
(* of snapshots of one measurement each, then the start snapshot of the    *)
(* open one.  The cells of the end snapshots never held a PAPI_start code. *)
IsPair(es, k) ==
  LET s == es.data[2 * k]  e == es.data[2 * k + 1]
  IN  /\ s.type = START /\ e.type = END
      /\ s.meas = KeptAt(es, k + 1) /\ e.meas = KeptAt(es, k + 1)
      /\ RawOK(s) /\ RawOK(e)
CleanCodes(es) ==
  /\ \A k \in 0 .. MaxIndex : 2 * k + 1 \in Cells => es.data[2 * k + 1].rc2 = "PAPI_OK"
  /\ \A c \in Cells : UsesPapi(es) \/ (es.data[c].rc1 = "PAPI_OK" /\ es.data[c].rc2 = "PAPI_OK")
Paired(es) ==
  /\ es.open => es.taken > 0
  /\ es.data_index = 2 * Kept(es) + (IF es.open THEN 1 ELSE 0)
  /\ \A k \in 0 .. Kept(es) - 1 : IsPair(es, k)
  /\ es.open => LET s == es.data[2 * Kept(es)]
                IN  s.type = START /\ s.meas = es.taken /\ RawOK(s)
  /\ CleanCodes(es)

(* The inductive invariant of such a client: every buffer is paired, the   *)
(* calls in progress alternate, and getResults has made a row of each pair *)
(* it has passed.                                                          *)
RowsOK ==
  IF call.op = "results"
  THEN LET es == all_eventsets[call.cur]
       IN  /\ Len(rows) <= Kept(es) /\ call.from = 2 * Len(rows)
           /\ \A k \in DOMAIN rows :
                rows[k].start = es.data[2 * k - 2] /\ rows[k].end = es.data[2 * k - 1]
  ELSE rows = <<>>
Alternates ==
  call.op \in IdOps =>
    /\ call.op # "sample"
    /\ \A i, j \in DOMAIN call.ids : call.ids[i] = call.ids[j] => i = j
    /\ \A i \in DOMAIN call.ids :
         IsValid(call.ids[i]) => (all_eventsets[call.ids[i]].open <=> call.op = "stop")
AlternatingInv ==
  /\ fault # "overrun"
  /\ \A s \in Slots : Usable(s) => Paired(all_eventsets[s])
  /\ Alternates
  /\ RowsOK

(* Every PAPI event of an event set belongs to the component the PAPI      *)
(* event set is assigned to.                                               *)
SameComponent ==
  \A s \in Slots :
    LET es == all_eventsets[s]
    IN  es.valid => \A k \in DOMAIN es.used_events :
          es.used_events[k].papi => es.used_events[k].component = es.papi_component

(* papi_index of an event is the column PAPI delivers its counter in.      *)
PapiColumns ==
  \A s \in Slots :
    LET es == all_eventsets[s]
    IN  es.valid => \A k \in DOMAIN es.used_events :
          LET ev == es.used_events[k]
          IN  ev.papi => /\ ev.papi_index + 1 \in DOMAIN es.used_papi_events
                         /\ es.used_papi_events[ev.papi_index + 1] = ev.id

(* The blocks of a valid event set are allocated: whatever path destroyed  *)
(* them also made the id invalid, so nothing is freed or read afterwards.  *)
ValidIsLive == \A s \in Slots : all_eventsets[s].valid => all_eventsets[s].mem = "live"

(* The methods that create leave the valid event sets alone, on every path *)
(* and when memory runs out: the slot createEventSet reuses or adds is     *)
(* nobody's, failing does not touch others, and attaching destroys at most *)
(* the event set just created.                                             *)
CreateDisturbsNothing ==
  [][\A s \in Slots :
       all_eventsets[s].valid /\ all_eventsets'[s] # all_eventsets[s] =>
         ~(Create \/ call.op = "events" \/ (call.op = "attach" /\ call.cur # s))]_vars

(* Every native method returns: the loop over the ids, over the names and  *)
(* over the buffer all end.                                                *)
CallsReturn == call # Idle ~> (call = Idle \/ fault # "none")
=============================================================================
