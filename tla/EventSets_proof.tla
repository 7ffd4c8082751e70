--------------------------- MODULE EventSets_proof ---------------------------
(***************************************************************************)
(* Proofs about EventSets, for every number of event sets, every buffer    *)
(* size and every choice of events.                                        *)
(***************************************************************************)
EXTENDS EventSets, WellFoundedInduction, TLAPS

(***************************************************************************)
(* What the operations on a slot return.                                   *)
(***************************************************************************)
(* Two event sets that may differ in their snapshots and PAPI's state only. *)
SameButData(a, b) ==
  /\ b.valid = a.valid /\ b.mem = a.mem /\ b.count = a.count
  /\ b.data_size = a.data_size /\ b.used_events = a.used_events
  /\ b.papi_component = a.papi_component /\ b.used_papi_events = a.used_papi_events

LEMMA ConstantSlots ==
  /\ ZeroCell \in Cell
  /\ EmptySlot \in Slot
  /\ Idle.op = "idle" /\ Idle.names = <<>> /\ Idle.ids = <<>> /\ Idle.cur = -1
<1>1. ZeroCell \in Cell
  BY DEF ZeroCell, Cell, PapiRc
<1>2. [c \in Cells |-> ZeroCell] \in [Cells -> Cell]
  BY <1>1
<1>3. EmptySlot \in Slot
  BY <1>2, ConstantsAssumption DEF EmptySlot, Slot
<1> QED
  BY <1>1, <1>3 DEF Idle

(* The number of kept measurements is a number.                            *)
LEMMA KeptInt ==
  ASSUME NEW es \in Slot
  PROVE  Kept(es) \in Int
<1>1. es.taken \in Nat /\ es.count \in Nat
  BY DEF Slot
<1> QED
  BY <1>1 DEF Kept

LEMMA FreedType ==
  ASSUME NEW es \in Slot
  PROVE  Freed(es) \in Slot
BY DEF Freed, Slot

LEMMA MakeRoomType ==
  ASSUME NEW es \in Slot, es.data_index >= 2 \/ es.data_index < es.data_size
  PROVE  /\ MakeRoom(es) \in Slot
         /\ SameButData(es, MakeRoom(es))
<1>1. es.data_index \in Nat /\ es.data_size \in Nat
  BY DEF Slot
<1>2. CASE es.data_index >= es.data_size
  <2>1. es.data_index - 2 \in Nat
    BY <1>1, <1>2
  <2>2. /\ [es EXCEPT !.data_index = es.data_index - 2] \in Slot
        /\ SameButData(es, [es EXCEPT !.data_index = es.data_index - 2])
    BY <2>1 DEF Slot, SameButData
  <2> QED
    BY <1>2, <2>2 DEF MakeRoom
<1> QED
  BY <1>1, <1>2 DEF MakeRoom, SameButData

LEMMA WriteCellType ==
  ASSUME NEW es \in Slot, NEW cell \in Cell
  PROVE  /\ WriteCell(es, cell) \in Slot
         /\ SameButData(es, WriteCell(es, cell))
         /\ WriteCell(es, cell).running = es.running
         /\ WriteCell(es, cell).open = es.open
         /\ WriteCell(es, cell).taken = es.taken
         /\ WriteCell(es, cell).data_index = es.data_index + 1
         /\ WriteCell(es, cell).data =
              IF Overruns(es) THEN es.data ELSE [es.data EXCEPT ![es.data_index] = cell]
<1> DEFINE d == IF Overruns(es) THEN es.data ELSE [es.data EXCEPT ![es.data_index] = cell]
<1>1. es.data \in [Cells -> Cell] /\ es.data_index + 1 \in Nat
  BY DEF Slot
<1>2. d \in [Cells -> Cell]
  BY <1>1
<1> HIDE DEF d
<1>3. WriteCell(es, cell) = [es EXCEPT !.data = d, !.data_index = es.data_index + 1]
  BY DEF WriteCell, d
<1>4. /\ WriteCell(es, cell) \in Slot
      /\ SameButData(es, WriteCell(es, cell))
      /\ WriteCell(es, cell).running = es.running
      /\ WriteCell(es, cell).open = es.open
      /\ WriteCell(es, cell).taken = es.taken
      /\ WriteCell(es, cell).data_index = es.data_index + 1
      /\ WriteCell(es, cell).data = d
  BY <1>1, <1>2, <1>3 DEF Slot, SameButData
<1> QED
  BY <1>4 DEF d

LEMMA CellAtType ==
  ASSUME NEW es \in Slot
  PROVE  CellAt(es) \in Cell
<1>1. CASE Overruns(es)
  BY <1>1, ConstantSlots DEF CellAt
<1>2. CASE ~Overruns(es)
  <2>1. es.data_index \in Cells
    BY <1>2, ConstantsAssumption DEF Overruns, Slot, Cells
  <2> QED
    BY <1>2, <2>1 DEF CellAt, Slot
<1> QED
  BY <1>1, <1>2

LEMMA UsedEventType ==
  ASSUME NEW es \in Slot, NEW e \in DOMAIN Info
  PROVE  UsedEvent(es, e) \in Used
<1>1. Info[e] \in EventInfo
  BY ConstantsAssumption
<1>2. es.used_papi_events \in Seq(Int)
  BY DEF Slot
<1>3. PapiIndex(es, Info[e].id) \in Nat
  <2>1. CASE KnownPapi(es, Info[e].id) # {}
    <3>1. PICK k \in KnownPapi(es, Info[e].id) : k = (CHOOSE j \in KnownPapi(es, Info[e].id) : TRUE)
      BY <2>1
    <3>2. k \in 1 .. Len(es.used_papi_events)
      BY <1>2, <3>1 DEF KnownPapi
    <3>3. k - 1 \in Nat
      BY <1>2, <3>2
    <3> QED
      BY <2>1, <3>1, <3>3 DEF PapiIndex
  <2>2. CASE KnownPapi(es, Info[e].id) = {}
    BY <1>2, <2>2 DEF PapiIndex
  <2> QED
    BY <2>1, <2>2
<1> QED
  BY <1>1, <1>3 DEF UsedEvent, Used, EventInfo

LEMMA WithEventType ==
  ASSUME NEW es \in Slot, NEW e \in DOMAIN Info
  PROVE  /\ WithEvent(es, e) \in Slot
         /\ WithEvent(es, e).valid = es.valid
         /\ WithEvent(es, e).mem = es.mem
         /\ WithEvent(es, e).count = es.count
         /\ WithEvent(es, e).data_size = es.data_size
         /\ WithEvent(es, e).data_index = es.data_index
<1>1. Info[e] \in EventInfo
  BY ConstantsAssumption
<1>2. /\ es.used_papi_events \in Seq(Int) /\ es.used_events \in Seq(Used)
      /\ es.names + 1 \in Nat
  BY DEF Slot
<1>3. PapiIdsWith(es, Info[e].id) \in Seq(Int)
  BY <1>1, <1>2 DEF PapiIdsWith, EventInfo
<1> DEFINE p == IF Info[e].papi THEN PapiIdsWith(es, Info[e].id) ELSE es.used_papi_events
           u == Append(es.used_events, UsedEvent(es, e))
<1>4. p \in Seq(Int) /\ u \in Seq(Used)
  BY <1>2, <1>3, UsedEventType
<1>5. WithEvent(es, e) = [es EXCEPT !.names = es.names + 1, !.used_events = u, !.used_papi_events = p]
  BY DEF WithEvent
<1> HIDE DEF p, u
<1> QED
  BY <1>2, <1>4, <1>5 DEF Slot

LEMMA SnapshotType ==
  ASSUME NEW es \in Slot, NEW cell \in Cell, now \in Nat,
         NEW rc1 \in PapiRc, NEW rc2 \in PapiRc, NEW user \in Nat
  PROVE  /\ ubench_measure_start(es, cell, rc1, rc2) \in Cell
         /\ ubench_measure_sample(es, cell, rc1, user) \in Cell
         /\ ubench_measure_stop(es, cell, rc1) \in Cell
<1>1. es.taken \in Nat
  BY DEF Slot
<1>2. es.taken + 1 \in Nat /\ user \in Int /\ START \in Int /\ END \in Int
  BY <1>1 DEF START, END
<1>3. ubench_measure_start(es, cell, rc1, rc2) \in Cell
  <2> DEFINE r == IF UsesPapi(es) THEN rc2 ELSE cell.rc1
             q == IF UsesPapi(es) THEN rc1 ELSE cell.rc2
             f == UsesPapi(es) /\ "PAPI_ERROR" \in {rc1, rc2}
  <2>1. r \in PapiRc /\ q \in PapiRc /\ f \in BOOLEAN
    BY DEF Cell
  <2>2. ubench_measure_start(es, cell, rc1, rc2) =
          [cell EXCEPT !.type = START, !.time = now, !.meas = es.taken + 1,
                       !.rc1 = r, !.rc2 = q, !.failed = f]
    BY DEF ubench_measure_start, Cell
  <2> HIDE DEF r, q, f
  <2> QED
    BY <1>2, <2>1, <2>2 DEF Cell
<1>4. ubench_measure_sample(es, cell, rc1, user) \in Cell
  <2> DEFINE r == IF UsesPapi(es) THEN rc1 ELSE cell.rc1
             q == cell.rc2
             f == UsesPapi(es) /\ rc1 = "PAPI_ERROR"
  <2>1. r \in PapiRc /\ q \in PapiRc /\ f \in BOOLEAN
    BY DEF Cell
  <2>2. ubench_measure_sample(es, cell, rc1, user) =
          [cell EXCEPT !.type = user, !.time = now, !.meas = es.taken,
                       !.rc1 = r, !.rc2 = q, !.failed = f]
    BY DEF ubench_measure_sample, Cell
  <2> HIDE DEF r, q, f
  <2> QED
    BY <1>1, <1>2, <2>1, <2>2 DEF Cell
<1>5. ubench_measure_stop(es, cell, rc1) \in Cell
  <2> DEFINE r == IF UsesPapi(es) THEN rc1 ELSE cell.rc1
             q == cell.rc2
             f == UsesPapi(es) /\ rc1 = "PAPI_ERROR"
  <2>1. r \in PapiRc /\ q \in PapiRc /\ f \in BOOLEAN
    BY DEF Cell
  <2>2. ubench_measure_stop(es, cell, rc1) =
          [cell EXCEPT !.type = END, !.time = now, !.meas = es.taken,
                       !.rc1 = r, !.rc2 = q, !.failed = f]
    BY DEF ubench_measure_stop, Cell
  <2> HIDE DEF r, q, f
  <2> QED
    BY <1>1, <1>2, <2>1, <2>2 DEF Cell
<1> QED
  BY <1>3, <1>4, <1>5

(* The same for the whole of start, sample and stop on one event set.      *)
LEMMA StartedType ==
  ASSUME NEW es \in Slot, now \in Nat, NEW rc1 \in PapiRc, NEW rc2 \in PapiRc
  PROVE  /\ Started(es, rc1, rc2) \in Slot
         /\ SameButData(es, Started(es, rc1, rc2))
         /\ Started(es, rc1, rc2).open = TRUE
         /\ Started(es, rc1, rc2).taken = es.taken + 1
         /\ Started(es, rc1, rc2).data_index = es.data_index + 1
         /\ Started(es, rc1, rc2).data =
              WriteCell(es, ubench_measure_start(es, CellAt(es), rc1, rc2)).data
<1> DEFINE w == WriteCell(es, ubench_measure_start(es, CellAt(es), rc1, rc2))
           r == w.running \/ (UsesPapi(es) /\ rc1 = "PAPI_OK")
<1>1. ubench_measure_start(es, CellAt(es), rc1, rc2) \in Cell
  BY CellAtType, SnapshotType
<1>2. w \in Slot /\ SameButData(es, w) /\ w.taken = es.taken /\ w.data_index = es.data_index + 1
  BY <1>1, WriteCellType
<1>3. r \in BOOLEAN
  OBVIOUS
<1>4. Started(es, rc1, rc2) = [w EXCEPT !.running = r, !.open = TRUE, !.taken = w.taken + 1]
  BY DEF Started
<1> HIDE DEF r, w
<1>5. w.taken + 1 \in Nat
  <2>1. w.taken \in Nat
    BY <1>2 DEF Slot
  <2> QED
    BY <2>1
<1> DEFINE new == [w EXCEPT !.running = r, !.open = TRUE, !.taken = w.taken + 1]
<1>6. new \in Slot
  BY <1>2, <1>3, <1>5 DEF Slot
<1>7. /\ new.open = TRUE /\ new.taken = w.taken + 1
      /\ new.data_index = w.data_index /\ new.data = w.data
  BY <1>2 DEF Slot
<1>8. SameButData(w, new)
  BY <1>2 DEF Slot, SameButData
<1> HIDE DEF new
<1>9. SameButData(es, new)
  BY <1>2, <1>8 DEF SameButData
<1>10. Started(es, rc1, rc2) = new
  BY <1>4 DEF new
<1> QED
  BY <1>2, <1>6, <1>7, <1>9, <1>10 DEF w

LEMMA SampledType ==
  ASSUME NEW es \in Slot, now \in Nat, NEW rc \in PapiRc, NEW user \in Nat
  PROVE  /\ Sampled(es, rc, user) \in Slot
         /\ SameButData(es, Sampled(es, rc, user))
         /\ Sampled(es, rc, user).data_index = es.data_index + 1
BY CellAtType, SnapshotType, WriteCellType DEF Sampled

LEMMA StoppedType ==
  ASSUME NEW es \in Slot, now \in Nat, NEW rc \in PapiRc
  PROVE  /\ Stopped(es, rc) \in Slot
         /\ SameButData(es, Stopped(es, rc))
         /\ Stopped(es, rc).open = FALSE
         /\ Stopped(es, rc).taken = es.taken
         /\ Stopped(es, rc).data_index = es.data_index + 1
         /\ Stopped(es, rc).data =
              WriteCell(es, ubench_measure_stop(es, CellAt(es), rc)).data
<1> DEFINE w == WriteCell(es, ubench_measure_stop(es, CellAt(es), rc))
           r == w.running /\ ~(UsesPapi(es) /\ rc = "PAPI_OK")
<1>1. ubench_measure_stop(es, CellAt(es), rc) \in Cell
  BY CellAtType, SnapshotType
<1>2. w \in Slot /\ SameButData(es, w) /\ w.taken = es.taken /\ w.data_index = es.data_index + 1
  BY <1>1, WriteCellType
<1>3. r \in BOOLEAN
  OBVIOUS
<1>4. Stopped(es, rc) = [w EXCEPT !.running = r, !.open = FALSE]
  BY DEF Stopped
<1> HIDE DEF r, w
<1> DEFINE new == [w EXCEPT !.running = r, !.open = FALSE]
<1>5. new \in Slot
  BY <1>2, <1>3 DEF Slot
<1>6. /\ new.open = FALSE /\ new.taken = w.taken
      /\ new.data_index = w.data_index /\ new.data = w.data
  BY <1>2 DEF Slot
<1>7. SameButData(w, new)
  BY <1>2 DEF Slot, SameButData
<1> HIDE DEF new
<1>8. SameButData(es, new)
  BY <1>2, <1>7 DEF SameButData
<1>9. Stopped(es, rc) = new
  BY <1>4 DEF new
<1> QED
  BY <1>2, <1>5, <1>6, <1>8, <1>9 DEF w

(***************************************************************************)
(* The type invariant and the blocks of usable event sets, whatever the    *)
(* client does.                                                            *)
(***************************************************************************)
TypeInv == TypeOK /\ BlocksOK

(* Replacing the event set in one slot.                                    *)
LEMMA ReplaceSlot ==
  ASSUME all_eventsets \in [Slots -> Slot], NEW i \in Slots, NEW es \in Slot,
         all_eventsets' = [all_eventsets EXCEPT ![i] = es]
  PROVE  /\ all_eventsets' \in [Slots -> Slot]
         /\ \A s \in Slots : all_eventsets'[s] = IF s = i THEN es ELSE all_eventsets[s]
OBVIOUS

(* Every nonempty set of natural numbers has a least element.              *)
LEMMA LeastNat ==
  ASSUME NEW T, T \subseteq Nat, T # {}
  PROVE  \E x \in T : \A y \in T : x <= y
<1>1. PICK x \in T : \A y \in T : ~(<<y, x>> \in OpToRel(<, Nat))
  BY NatLessThanWellFounded, WFMin
<1>2. \A y \in T : ~(y < x)
  BY <1>1 DEF OpToRel
<1> QED
  BY <1>2

LEMMA ValidInSlots ==
  ASSUME TypeOK, NEW id, IsValid(id)
  PROVE  id \in Slots /\ all_eventsets[id] \in Slot /\ all_eventsets[id].valid
<1>1. all_eventsets \in [Slots -> Slot] /\ all_eventset_count \in 0 .. MaxSets
  BY DEF TypeOK
<1>2. id \in Slots
  BY <1>1, ConstantsAssumption DEF IsValid, Slots
<1> QED
  BY <1>1, <1>2 DEF IsValid

(* What createEventSet knows of the slot it picked.                        *)
NewCount == IF FreeSlots = {} THEN all_eventset_count + 1 ELSE all_eventset_count

LEMMA SlotForProperties ==
  ASSUME TypeOK, SlotFor \in Slots
  PROVE  /\ ~all_eventsets[SlotFor].valid
         /\ NewCount \in Nat /\ all_eventset_count <= NewCount
         /\ NewCount \in 0 .. MaxSets
         /\ SlotFor \in 0 .. NewCount - 1
<1>1. /\ all_eventset_count \in 0 .. MaxSets /\ MaxSets \in Nat
      /\ \A s \in Slots : all_eventsets[s].valid => s < all_eventset_count
  BY ConstantsAssumption DEF TypeOK
<1>2. CASE FreeSlots = {}
  BY <1>1, <1>2 DEF SlotFor, Slots, NewCount
<1>3. CASE FreeSlots # {}
  <2>1. FreeSlots \subseteq Nat
    BY <1>1 DEF FreeSlots
  <2>2. SlotFor \in FreeSlots
    BY <1>3, <2>1, LeastNat DEF SlotFor
  <2> QED
    BY <1>1, <1>3, <2>2 DEF FreeSlots, NewCount
<1> QED
  BY <1>2, <1>3

LEMMA InitTypeInv == Init => TypeInv
<1> SUFFICES ASSUME Init PROVE TypeInv
  OBVIOUS
<1>1. /\ all_eventsets = [s \in Slots |-> EmptySlot]
      /\ all_eventset_count = 0 /\ call = Idle /\ rows = <<>> /\ now = 0 /\ fault = "none"
  BY DEF Init
<1>2. \A s \in Slots : all_eventsets[s] = EmptySlot /\ ~all_eventsets[s].valid
  BY <1>1 DEF EmptySlot
<1>3. BlocksOK
  BY <1>1, <1>2 DEF BlocksOK, Usable, Idle
<1>4. all_eventsets \in [Slots -> Slot]
  BY <1>1, ConstantSlots
<1>5. CallOK
  BY <1>1, ConstantsAssumption DEF CallOK, Call, Idle, IdOps
<1>6. TypeOK
  BY <1>1, <1>2, <1>4, <1>5, ConstantsAssumption DEF TypeOK
<1> QED
  BY <1>3, <1>6 DEF TypeInv

LEMMA CreateReturnsCallOK ==
  ASSUME TypeOK, NEW attach \in BOOLEAN, NEW id,
         id = -1 \/ IsValid(id)', all_eventset_count' \in 0 .. MaxSets,
         CreateReturns(attach, id)
  PROVE  CallOK' /\ call'.op \notin {"events", "results"}
<1>1. id \in -1 .. MaxSets - 1
  BY ConstantsAssumption DEF IsValid
<1>2. CASE ~attach
  BY <1>2, ConstantsAssumption DEF CreateReturns, CallOK, Call, Idle, IdOps
<1>3. CASE attach
  <2>1. call' \in Call /\ call'.op = "attach" /\ call'.cur = id
    <3>1. attach = TRUE
      BY <1>3
    <3>2. call' = [Idle EXCEPT !.op = "attach", !.attach = TRUE, !.cur = id]
      BY <3>1 DEF CreateReturns
    <3>3. call' = [op |-> "attach", attach |-> TRUE, names |-> <<>>, ids |-> <<>>,
                   cur |-> id, user |-> 0, from |-> 0]
      BY <3>2 DEF Idle
    <3> QED
      BY <1>1, <3>3 DEF Call
  <2> QED
    BY <2>1 DEF CallOK, IdOps, IsValid
<1> QED
  BY <1>2, <1>3

LEMMA CreateRejectedInv ==
  ASSUME TypeInv, NEW m, NEW names, NEW attach \in BOOLEAN, CreateRejected(m, names, attach)
  PROVE  TypeInv'
<1>1. CreateReturns(attach, -1)
      /\ UNCHANGED <<all_eventsets, all_eventset_count, rows, now, fault>>
  BY DEF CreateRejected
<1>2. CallOK' /\ call'.op # "events"
  BY <1>1, CreateReturnsCallOK DEF TypeInv, TypeOK
<1>3. TypeOK'
  BY <1>1, <1>2 DEF TypeInv, TypeOK
<1>4. BlocksOK'
  BY <1>1, <1>2 DEF TypeInv, BlocksOK, Blocks, Usable
<1> QED
  BY <1>3, <1>4 DEF TypeInv

LEMMA CreateOutOfMemoryInv ==
  ASSUME TypeInv, NEW m \in Counts, NEW names, NEW attach \in BOOLEAN, NEW what,
         CreateOutOfMemory(m, names, attach, what)
  PROVE  TypeInv'
<1>1. /\ CreateReturns(attach, -1) /\ 2 * m > 0 /\ SlotFor \in Slots
      /\ UNCHANGED <<rows, now, fault>>
  BY DEF CreateOutOfMemory
<1>2. 2 * m \in 0 .. MaxIndex
  BY <1>1, ConstantsAssumption
<1>3. all_eventsets \in [Slots -> Slot] /\ all_eventsets[SlotFor] \in Slot
  BY <1>1 DEF TypeInv, TypeOK
<1>4. /\ ~all_eventsets[SlotFor].valid
      /\ NewCount \in Nat /\ all_eventset_count <= NewCount /\ NewCount \in 0 .. MaxSets
  BY <1>1, SlotForProperties DEF TypeInv
<1>5. \/ UNCHANGED <<all_eventsets, all_eventset_count>>
      \/ /\ all_eventset_count' = NewCount
         /\ \E es \in Slot : /\ all_eventsets' = [all_eventsets EXCEPT ![SlotFor] = es]
                             /\ ~es.valid
  <2>1. /\ [all_eventsets[SlotFor] EXCEPT !.mem = "none"] \in Slot
        /\ ~[all_eventsets[SlotFor] EXCEPT !.mem = "none"].valid
    BY <1>3, <1>4 DEF Slot
  <2>2. /\ [all_eventsets[SlotFor] EXCEPT !.mem = "freed", !.data_index = 0, !.data_size = 2 * m] \in Slot
        /\ ~[all_eventsets[SlotFor] EXCEPT !.mem = "freed", !.data_index = 0, !.data_size = 2 * m].valid
    BY <1>2, <1>3, <1>4 DEF Slot
  <2> QED
    BY <1>1, <1>3, <2>1, <2>2 DEF CreateOutOfMemory, NewCount
<1>6. /\ all_eventsets' \in [Slots -> Slot] /\ all_eventset_count' \in 0 .. MaxSets
      /\ all_eventset_count <= all_eventset_count'
      /\ \A s \in Slots : all_eventsets'[s].valid => all_eventsets'[s] = all_eventsets[s]
  <2>1. all_eventset_count \in 0 .. MaxSets
    BY DEF TypeInv, TypeOK
  <2>2. CASE UNCHANGED <<all_eventsets, all_eventset_count>>
    BY <1>3, <2>1, <2>2
  <2>3. ASSUME NEW es \in Slot, all_eventsets' = [all_eventsets EXCEPT ![SlotFor] = es],
               ~es.valid, all_eventset_count' = NewCount
        PROVE  /\ all_eventsets' \in [Slots -> Slot] /\ all_eventset_count' \in 0 .. MaxSets
               /\ all_eventset_count <= all_eventset_count'
               /\ \A s \in Slots : all_eventsets'[s].valid => all_eventsets'[s] = all_eventsets[s]
    BY <1>1, <1>3, <1>4, <2>3
  <2> QED
    BY <1>5, <2>2, <2>3
<1>7. CallOK' /\ call'.op # "events"
  BY <1>1, <1>6, CreateReturnsCallOK DEF TypeInv
<1>8. TypeOK'
  <2>1. \A s \in Slots : all_eventsets'[s].valid => s < all_eventset_count'
    <3>1. /\ \A s \in Slots : all_eventsets[s].valid => s < all_eventset_count
          /\ all_eventset_count \in 0 .. MaxSets
      BY DEF TypeInv, TypeOK
    <3>2. SUFFICES ASSUME NEW s \in Slots, all_eventsets'[s].valid PROVE s < all_eventset_count'
      OBVIOUS
    <3>3. s < all_eventset_count
      BY <1>6, <3>1, <3>2
    <3> QED
      BY <1>6, <3>1, <3>3, ConstantsAssumption DEF Slots
  <2> QED
    BY <1>1, <1>6, <1>7, <2>1 DEF TypeInv, TypeOK
<1>9. BlocksOK'
  BY <1>1, <1>6, <1>7 DEF TypeInv, BlocksOK, Blocks, Usable
<1> QED
  BY <1>8, <1>9 DEF TypeInv

LEMMA IdleType == Idle \in Call /\ Idle.op = "idle" /\ Idle.cur = -1
BY ConstantsAssumption DEF Idle, Call

LEMMA CreateAllocatesInv ==
  ASSUME TypeInv, NEW m \in Counts, NEW names \in Seq(DOMAIN Info), NEW attach \in BOOLEAN,
         CreateAllocates(m, names, attach)
  PROVE  TypeInv'
<1> DEFINE new == [EmptySlot EXCEPT !.mem = "live", !.data_size = 2 * m, !.count = m]
<1>1. /\ 2 * m > 0 /\ SlotFor \in Slots
      /\ all_eventset_count' = NewCount
      /\ all_eventsets' = [all_eventsets EXCEPT ![SlotFor] = new]
      /\ call' = [Idle EXCEPT !.op = "events", !.attach = attach,
                              !.names = names, !.cur = SlotFor]
      /\ UNCHANGED <<rows, now, fault>>
  BY DEF CreateAllocates, NewCount
<1>2. m \in Nat /\ m > 0 /\ 2 * m \in 0 .. MaxIndex
  BY <1>1, ConstantsAssumption
<1>3. /\ new \in Slot /\ ~new.valid /\ new.mem = "live" /\ new.count = m
      /\ new.data_size = 2 * m /\ new.data_index = 0
  <2>1. EmptySlot \in Slot /\ ~EmptySlot.valid /\ EmptySlot.data_index = 0
    BY ConstantSlots DEF EmptySlot
  <2> QED
    BY <1>2, <2>1 DEF Slot
<1> HIDE DEF new
<1>4. all_eventsets \in [Slots -> Slot] /\ all_eventset_count \in 0 .. MaxSets
  BY DEF TypeInv, TypeOK
<1>5. /\ all_eventsets' \in [Slots -> Slot]
      /\ \A s \in Slots : all_eventsets'[s] = IF s = SlotFor THEN new ELSE all_eventsets[s]
  BY <1>1, <1>3, <1>4, ReplaceSlot
<1>6. /\ ~all_eventsets[SlotFor].valid
      /\ NewCount \in Nat /\ all_eventset_count <= NewCount /\ NewCount \in 0 .. MaxSets
      /\ SlotFor \in 0 .. NewCount - 1
  BY <1>1, SlotForProperties DEF TypeInv
<1>7. \A s \in Slots : all_eventsets'[s].valid => s < all_eventset_count'
  <2>1. SUFFICES ASSUME NEW s \in Slots, all_eventsets'[s].valid PROVE s < all_eventset_count'
    OBVIOUS
  <2>2. s < all_eventset_count
    BY <1>3, <1>5, <2>1 DEF TypeInv, TypeOK
  <2> QED
    BY <1>1, <1>4, <1>6, <2>2, ConstantsAssumption DEF Slots
<1>8. /\ call' \in Call /\ call'.op = "events" /\ call'.cur = SlotFor
  <2>1. SlotFor \in -1 .. MaxSets - 1
    BY <1>1, ConstantsAssumption DEF Slots
  <2> QED
    BY <1>1, <2>1, IdleType DEF Call
<1>9. CallOK'
  BY <1>1, <1>3, <1>5, <1>6, <1>8 DEF CallOK, IdOps
<1>10. TypeOK'
  BY <1>1, <1>5, <1>6, <1>7, <1>9 DEF TypeInv, TypeOK
<1>11. BlocksOK'
  <2>1. SUFFICES ASSUME NEW s \in Slots, Usable(s)'
                 PROVE  Blocks(all_eventsets[s])'
    BY DEF BlocksOK
  <2>2. CASE s = SlotFor
    BY <1>2, <1>3, <1>5, <2>2 DEF Blocks
  <2>3. CASE s # SlotFor
    <3>1. all_eventsets'[s] = all_eventsets[s] /\ Usable(s)
      BY <1>5, <1>8, <2>1, <2>3 DEF Usable
    <3> QED
      BY <1>1, <3>1 DEF TypeInv, BlocksOK, Blocks
  <2> QED
    BY <2>2, <2>3
<1> QED
  BY <1>10, <1>11 DEF TypeInv

(* A step that replaces one event set and leaves the table's size alone.   *)
LEMMA OneSlotInv ==
  ASSUME TypeInv, NEW i \in Slots, NEW es \in Slot,
         all_eventsets' = [all_eventsets EXCEPT ![i] = es],
         es.valid => i < all_eventset_count,
         es.valid \/ (call'.op = "events" /\ call'.cur = i) =>
           /\ es.mem = "live" /\ es.count > 0 /\ es.data_size = 2 * es.count
           /\ fault' = "none" => es.data_index <= es.data_size,
         fault' = "none" => fault = "none",
         all_eventset_count' = all_eventset_count,
         call'.op = "events" => call.op = "events" /\ call'.cur = call.cur,
         CallOK', rows' = rows, now' = now, fault' \in {"none", "null table", "overrun"}
  PROVE  TypeInv'
<1>1. /\ all_eventsets \in [Slots -> Slot]
      /\ \A s \in Slots : all_eventsets[s].valid => s < all_eventset_count
  BY DEF TypeInv, TypeOK
<1>2. /\ all_eventsets' \in [Slots -> Slot]
      /\ \A s \in Slots : all_eventsets'[s] = IF s = i THEN es ELSE all_eventsets[s]
  BY <1>1, ReplaceSlot
<1>3. \A s \in Slots : all_eventsets'[s].valid => s < all_eventset_count'
  BY <1>1, <1>2
<1>4. TypeOK'
  BY <1>2, <1>3 DEF TypeInv, TypeOK
<1>5. BlocksOK'
  <2>1. SUFFICES ASSUME NEW s \in Slots, Usable(s)'
                 PROVE  Blocks(all_eventsets[s])'
    BY DEF BlocksOK
  <2>2. CASE s = i
    BY <1>2, <2>1, <2>2 DEF Usable, Blocks
  <2>3. CASE s # i
    <3>1. all_eventsets'[s] = all_eventsets[s] /\ Usable(s)
      BY <1>2, <2>1, <2>3 DEF Usable
    <3> QED
      BY <3>1 DEF TypeInv, BlocksOK, Blocks
  <2> QED
    BY <2>2, <2>3
<1> QED
  BY <1>4, <1>5 DEF TypeInv

(* A step that changes no event set.                                       *)
LEMMA NoSlotInv ==
  ASSUME TypeInv, UNCHANGED <<all_eventsets, all_eventset_count>>,
         CallOK', call'.op # "events" \/ UNCHANGED call,
         rows' \in Seq([start : Cell, end : Cell]), now' \in Nat,
         fault' \in {"none", "null table", "overrun"}, fault' = "none" => fault = "none"
  PROVE  TypeInv'
<1>1. TypeOK'
  BY DEF TypeInv, TypeOK
<1>2. BlocksOK'
  BY DEF TypeInv, BlocksOK, Blocks, Usable
<1> QED
  BY <1>1, <1>2 DEF TypeInv

LEMMA HeadTail ==
  ASSUME NEW S, NEW q \in Seq(S), q # <<>>
  PROVE  Head(q) \in S /\ Tail(q) \in Seq(S)
OBVIOUS

LEMMA TailNonempty ==
  ASSUME NEW S, NEW q \in Seq(S), q # <<>>, Len(q) # 1
  PROVE  /\ Tail(q) # <<>> /\ DOMAIN q = 1 .. Len(q) /\ DOMAIN Tail(q) = 1 .. Len(q) - 1
         /\ \A i \in DOMAIN Tail(q) : Tail(q)[i] = q[i + 1]
<1>1. Len(q) \in Nat /\ Len(q) # 0 /\ DOMAIN q = 1 .. Len(q)
  OBVIOUS
<1>2. Tail(q) \in Seq(S) /\ Len(Tail(q)) = Len(q) - 1
  BY <1>1
<1>3. \A i \in 1 .. Len(q) - 1 : Tail(q)[i] = q[i + 1]
  BY <1>1
<1> QED
  BY <1>1, <1>2, <1>3

LEMMA InTable ==
  ASSUME NEW c, NEW n \in 0 .. MaxSets, c \in 0 .. n - 1
  PROVE  c \in Slots /\ c < n
BY ConstantsAssumption DEF Slots

LEMMA AddEventInv ==
  ASSUME TypeInv, AddEvent
  PROVE  TypeInv'
<1> DEFINE e == Head(call.names)
           es == all_eventsets[call.cur]
           comp == IF Info[e].papi THEN Info[e].component ELSE WithEvent(es, e).papi_component
           added == [WithEvent(es, e) EXCEPT !.papi_component = comp]
<1>1. /\ call.op = "events" /\ call.names # <<>>
      /\ UNCHANGED <<all_eventset_count, rows, now, fault>>
  BY DEF AddEvent
<1>2. /\ call \in Call /\ call.cur \in 0 .. all_eventset_count - 1 /\ ~es.valid
      /\ all_eventset_count \in 0 .. MaxSets /\ all_eventsets \in [Slots -> Slot]
      /\ fault \in {"none", "null table", "overrun"}
  BY <1>1 DEF TypeInv, TypeOK, CallOK
<1>3. call.cur \in Slots /\ call.cur < all_eventset_count
  BY <1>2, InTable
<1>4. es \in Slot /\ call.names \in Seq(DOMAIN Info) /\ call.attach \in BOOLEAN
  BY <1>2, <1>3 DEF Call
<1>5. e \in DOMAIN Info /\ Tail(call.names) \in Seq(DOMAIN Info)
  BY <1>1, <1>4, HeadTail
<1>6. /\ es.mem = "live" /\ es.count > 0 /\ es.data_size = 2 * es.count
      /\ fault = "none" => es.data_index <= es.data_size
  BY <1>1, <1>3 DEF TypeInv, BlocksOK, Blocks, Usable
<1>7. /\ WithEvent(es, e) \in Slot /\ ~WithEvent(es, e).valid
      /\ WithEvent(es, e).mem = "live" /\ WithEvent(es, e).count = es.count
      /\ WithEvent(es, e).data_size = es.data_size /\ WithEvent(es, e).data_index = es.data_index
  <2> HIDE DEF es, e
  <2>1. es \in Slot /\ e \in DOMAIN Info
    BY <1>4, <1>5
  <2>2. /\ WithEvent(es, e) \in Slot /\ WithEvent(es, e).valid = es.valid
        /\ WithEvent(es, e).mem = es.mem /\ WithEvent(es, e).count = es.count
        /\ WithEvent(es, e).data_size = es.data_size /\ WithEvent(es, e).data_index = es.data_index
    BY <2>1, WithEventType
  <2> QED
    BY <1>2, <1>6, <2>2
<1>8. added \in Slot /\ ~added.valid /\ added.mem = "live" /\ added.count = es.count
      /\ added.data_size = es.data_size /\ added.data_index = es.data_index
  <2>1. comp \in Int
    BY <1>5, <1>7, ConstantsAssumption DEF EventInfo, Slot
  <2> HIDE DEF comp
  <2> QED
    BY <1>7, <2>1 DEF Slot
<1>9. Freed(es) \in Slot /\ ~Freed(es).valid
  BY <1>4, FreedType DEF Freed, Slot
<1>10. ASSUME NEW new \in Slot, ~new.valid,
              all_eventsets' = [all_eventsets EXCEPT ![call.cur] = new],
              CreateReturns(call.attach, -1)
       PROVE  TypeInv'
  <2>1. CallOK' /\ call'.op # "events"
    BY <1>1, <1>2, <1>4, <1>10, CreateReturnsCallOK DEF TypeInv
  <2> QED
    BY <1>1, <1>2, <1>3, <1>10, <2>1, OneSlotInv
<1>11. ASSUME all_eventsets' = [all_eventsets EXCEPT ![call.cur] = added],
              call' = [call EXCEPT !.names = Tail(call.names)]
       PROVE  TypeInv'
  <2>1. call' \in Call /\ call'.op = "events" /\ call'.cur = call.cur
    BY <1>1, <1>2, <1>5, <1>11 DEF Call
  <2>2. CallOK'
    BY <1>1, <1>2, <1>3, <1>8, <1>11, <2>1 DEF CallOK, IdOps
  <2> HIDE DEF added, es
  <2> QED
    BY <1>1, <1>2, <1>3, <1>6, <1>8, <1>11, <2>1, <2>2, OneSlotInv
<1>12. \/ all_eventsets' = [all_eventsets EXCEPT ![call.cur] = Freed(es)] /\ CreateReturns(call.attach, -1)
       \/ all_eventsets' = [all_eventsets EXCEPT ![call.cur] = WithEvent(es, e)] /\ CreateReturns(call.attach, -1)
       \/ all_eventsets' = [all_eventsets EXCEPT ![call.cur] = added] /\ call' = [call EXCEPT !.names = Tail(call.names)]
  BY DEF AddEvent
<1> QED
  BY <1>7, <1>9, <1>10, <1>11, <1>12

LEMMA FinishCreateInv ==
  ASSUME TypeInv, NEW papi, FinishCreate(papi)
  PROVE  TypeInv'
<1> DEFINE es == all_eventsets[call.cur]
           pe(b) == IF b THEN "created" ELSE es.papi_eventset
           good == [es EXCEPT !.valid = TRUE, !.papi_eventset = pe(UsesPapi(es))]
           bad == [Freed(es) EXCEPT !.papi_eventset = IF papi = "not created" THEN @ ELSE "created"]
<1>1. /\ call.op = "events" /\ UNCHANGED <<all_eventset_count, rows, now, fault>>
  BY DEF FinishCreate
<1>2. /\ call \in Call /\ call.cur \in 0 .. all_eventset_count - 1 /\ ~es.valid
      /\ all_eventset_count \in 0 .. MaxSets /\ all_eventsets \in [Slots -> Slot]
      /\ fault \in {"none", "null table", "overrun"}
  BY <1>1 DEF TypeInv, TypeOK, CallOK
<1>3. call.cur \in Slots /\ call.cur < all_eventset_count
  BY <1>2, InTable
<1>4. es \in Slot /\ call.attach \in BOOLEAN
  BY <1>2, <1>3 DEF Call
<1>5. /\ es.mem = "live" /\ es.count > 0 /\ es.data_size = 2 * es.count
      /\ fault = "none" => es.data_index <= es.data_size
  BY <1>1, <1>3 DEF TypeInv, BlocksOK, Blocks, Usable
<1>6. good \in Slot /\ good.valid /\ good.mem = "live" /\ good.count = es.count
      /\ good.data_size = es.data_size /\ good.data_index = es.data_index
  <2>1. pe(UsesPapi(es)) \in {"PAPI_NULL", "created"}
    BY <1>4 DEF Slot
  <2> HIDE DEF pe
  <2> QED
    BY <1>4, <1>5, <2>1 DEF Slot
<1>7. bad \in Slot /\ ~bad.valid
  <2>1. Freed(es) \in Slot /\ ~Freed(es).valid
    BY <1>4, FreedType DEF Freed, Slot
  <2> QED
    BY <2>1 DEF Slot
<1>8. \/ all_eventsets' = [all_eventsets EXCEPT ![call.cur] = good] /\ CreateReturns(call.attach, call.cur)
      \/ all_eventsets' = [all_eventsets EXCEPT ![call.cur] = bad] /\ CreateReturns(call.attach, -1)
  BY DEF FinishCreate
<1> HIDE DEF good, bad
<1>9. CASE all_eventsets' = [all_eventsets EXCEPT ![call.cur] = good] /\ CreateReturns(call.attach, call.cur)
  <2>1. PICK c \in Slots : c = call.cur
    BY <1>3
  <2>2. IsValid(c)'
    BY <1>1, <1>2, <1>6, <1>9, <2>1 DEF IsValid
  <2>3. CallOK' /\ call'.op # "events"
    BY <1>1, <1>2, <1>4, <1>9, <2>1, <2>2, CreateReturnsCallOK DEF TypeInv
  <2> HIDE DEF es
  <2> QED
    BY <1>1, <1>2, <1>3, <1>5, <1>6, <1>9, <2>3, OneSlotInv
<1>10. CASE all_eventsets' = [all_eventsets EXCEPT ![call.cur] = bad] /\ CreateReturns(call.attach, -1)
  <2>1. CallOK' /\ call'.op # "events"
    BY <1>1, <1>2, <1>4, <1>10, CreateReturnsCallOK DEF TypeInv
  <2> QED
    BY <1>1, <1>2, <1>3, <1>7, <1>10, <2>1, OneSlotInv
<1> QED
  BY <1>8, <1>9, <1>10

LEMMA IdleCallOK ==
  ASSUME call' = Idle
  PROVE  CallOK' /\ call'.op # "events"
BY IdleType DEF CallOK, IdOps

LEMMA FreedInv ==
  ASSUME TypeInv, NEW id, IsValid(id), all_eventsets' = [all_eventsets EXCEPT ![id] = Freed(@)],
         call' = Idle, UNCHANGED <<all_eventset_count, rows, now, fault>>
  PROVE  TypeInv'
<1>1. id \in Slots /\ all_eventsets[id] \in Slot
  BY ValidInSlots DEF TypeInv
<1>2. Freed(all_eventsets[id]) \in Slot /\ ~Freed(all_eventsets[id]).valid
  BY <1>1, FreedType DEF Freed, Slot
<1>3. fault \in {"none", "null table", "overrun"}
  BY DEF TypeInv, TypeOK
<1> QED
  BY <1>1, <1>2, <1>3, IdleCallOK, OneSlotInv

LEMMA AttachInv ==
  ASSUME TypeInv, NEW ok, Attach(ok)
  PROVE  TypeInv'
<1>1. call.op = "attach" /\ call' = Idle /\ UNCHANGED <<all_eventset_count, rows, now>>
  BY DEF Attach
<1>2. call.cur # -1 => IsValid(call.cur)
  BY <1>1 DEF TypeInv, TypeOK, CallOK
<1>3. CASE /\ UNCHANGED all_eventsets /\ fault' \in {"none", "null table", "overrun"}
           /\ fault' = "none" => fault = "none"
  BY <1>1, <1>3, IdleCallOK, NoSlotInv DEF TypeInv, TypeOK
<1>4. CASE /\ call.cur # -1 /\ UNCHANGED fault
           /\ all_eventsets' = [all_eventsets EXCEPT ![call.cur] = Freed(@)]
  BY <1>1, <1>2, <1>4, FreedInv
<1>5. fault \in {"none", "null table", "overrun"}
  BY DEF TypeInv, TypeOK
<1> QED
  BY <1>3, <1>4, <1>5 DEF Attach

LEMMA DestroyEventSetInv ==
  ASSUME TypeInv, NEW id, DestroyEventSet(id)
  PROVE  TypeInv'
BY FreedInv DEF DestroyEventSet, CanCall

LEMMA BeginLoopInv ==
  ASSUME TypeInv, NEW op \in IdOps, NEW ids \in IdArrays, NEW user \in Nat, BeginLoop(op, ids, user)
  PROVE  TypeInv'
<1>1. /\ call' = [Idle EXCEPT !.op = op, !.ids = ids, !.user = user] /\ ids # <<>>
      /\ UNCHANGED <<all_eventsets, all_eventset_count, rows, now, fault>>
  BY DEF BeginLoop
<1>2. ids \in Seq(Int)
  BY ConstantsAssumption
<1>3. call' \in Call /\ call'.op = op /\ call'.ids = ids
  BY <1>1, <1>2, IdleType DEF Call
<1>4. CallOK' /\ call'.op # "events"
  BY <1>1, <1>3 DEF CallOK, IdOps
<1> QED
  BY <1>1, <1>4, NoSlotInv DEF TypeInv, TypeOK

LEMMA InvalidIdInv ==
  ASSUME TypeInv, InvalidId
  PROVE  TypeInv'
BY IdleCallOK, NoSlotInv DEF InvalidId, TypeInv, TypeOK

LEMMA NextIdCallOK ==
  ASSUME TypeInv, call.op \in IdOps, NextId
  PROVE  CallOK' /\ call'.op # "events"
<1>1. call \in Call /\ call.ids # <<>>
  BY DEF TypeInv, TypeOK, CallOK
<1>2. call.ids \in Seq(Int)
  BY <1>1 DEF Call
<1>3. CASE Len(call.ids) = 1
  BY <1>3, IdleCallOK DEF NextId
<1>4. CASE Len(call.ids) # 1
  <2>1. Tail(call.ids) \in Seq(Int) /\ Tail(call.ids) # <<>>
    BY <1>1, <1>2, <1>4, HeadTail, TailNonempty
  <2>2. call' \in Call /\ call'.op = call.op /\ call'.ids = Tail(call.ids)
    BY <1>1, <1>4, <2>1 DEF NextId, Call
  <2> QED
    BY <2>1, <2>2 DEF CallOK, IdOps
<1> QED
  BY <1>3, <1>4

LEMMA Positive ==
  ASSUME NEW es \in Slot, es.count > 0, es.data_size = 2 * es.count
  PROVE  es.data_index >= 2 \/ es.data_index < es.data_size
<1>1. es.count \in Nat /\ es.data_index \in Nat
  BY DEF Slot
<1> QED
  BY <1>1

(* Writing one snapshot either is a fault or stays in the block.           *)
LEMMA WriteStaysIn ==
  ASSUME NEW es \in Slot, NEW new \in Slot, SameButData(es, new),
         new.data_index = es.data_index + 1,
         fault' = IF Overruns(es) THEN "overrun" ELSE fault
  PROVE  fault' = "none" => fault = "none" /\ new.data_index <= new.data_size
<1>1. es.data_index \in Nat /\ es.data_size \in Nat
  BY DEF Slot
<1> QED
  BY <1>1 DEF Overruns, SameButData

LEMMA StartOneInv ==
  ASSUME TypeInv, NEW rc1 \in PapiRc, NEW rc2 \in PapiRc, StartOne(rc1, rc2)
  PROVE  TypeInv'
<1> DEFINE id == Head(call.ids)
           es == MakeRoom(all_eventsets[id])
           new == Started(es, rc1, rc2)
<1>1. /\ call.op = "start" /\ IsValid(id) /\ NextId
      /\ all_eventsets' = [all_eventsets EXCEPT ![id] = new]
      /\ fault' = IF Overruns(es) THEN "overrun" ELSE fault
      /\ UNCHANGED <<all_eventset_count, rows, now>>
  BY DEF StartOne
<1>2. id \in Slots /\ all_eventsets[id] \in Slot /\ all_eventsets[id].valid
  BY <1>1, ValidInSlots DEF TypeInv
<1>3. /\ all_eventsets[id].mem = "live" /\ all_eventsets[id].count > 0
      /\ all_eventsets[id].data_size = 2 * all_eventsets[id].count
      /\ id < all_eventset_count /\ now \in Nat /\ fault \in {"none", "null table", "overrun"}
  BY <1>2 DEF TypeInv, TypeOK, BlocksOK, Blocks, Usable
<1>4. es \in Slot /\ SameButData(all_eventsets[id], es)
  <2>1. all_eventsets[id].data_index >= 2 \/ all_eventsets[id].data_index < all_eventsets[id].data_size
    BY <1>2, <1>3, Positive
  <2> QED
    BY <1>2, <2>1, MakeRoomType
<1>5. new \in Slot /\ SameButData(es, new) /\ new.data_index = es.data_index + 1
  BY <1>3, <1>4, StartedType
<1>6. CallOK' /\ call'.op # "events"
  BY <1>1, NextIdCallOK DEF IdOps
<1> HIDE DEF es, new, id
<1>7. new.valid /\ new.mem = "live" /\ new.count > 0 /\ new.data_size = 2 * new.count
  BY <1>2, <1>3, <1>4, <1>5 DEF SameButData
<1>8. fault' = "none" => fault = "none" /\ new.data_index <= new.data_size
  BY <1>1, <1>4, <1>5, WriteStaysIn
<1> QED
  BY <1>1, <1>2, <1>3, <1>5, <1>6, <1>7, <1>8, OneSlotInv

LEMMA SampleOneInv ==
  ASSUME TypeInv, NEW rc \in PapiRc, SampleOne(rc)
  PROVE  TypeInv'
<1> DEFINE id == Head(call.ids)
           es == MakeRoom(all_eventsets[id])
           new == Sampled(es, rc, call.user)
<1>1. /\ call.op = "sample" /\ IsValid(id) /\ NextId
      /\ all_eventsets' = [all_eventsets EXCEPT ![id] = new]
      /\ fault' = IF Overruns(es) THEN "overrun" ELSE fault
      /\ UNCHANGED <<all_eventset_count, rows, now>>
  BY DEF SampleOne
<1>2. id \in Slots /\ all_eventsets[id] \in Slot /\ all_eventsets[id].valid
  BY <1>1, ValidInSlots DEF TypeInv
<1>3. /\ all_eventsets[id].mem = "live" /\ all_eventsets[id].count > 0
      /\ all_eventsets[id].data_size = 2 * all_eventsets[id].count
      /\ id < all_eventset_count /\ now \in Nat /\ fault \in {"none", "null table", "overrun"}
  BY <1>2 DEF TypeInv, TypeOK, BlocksOK, Blocks, Usable
<1>4. es \in Slot /\ SameButData(all_eventsets[id], es)
  <2>1. all_eventsets[id].data_index >= 2 \/ all_eventsets[id].data_index < all_eventsets[id].data_size
    BY <1>2, <1>3, Positive
  <2> QED
    BY <1>2, <2>1, MakeRoomType
<1>5. call.user \in Nat
  BY DEF TypeInv, TypeOK, CallOK, Call
<1>6. new \in Slot /\ SameButData(es, new) /\ new.data_index = es.data_index + 1
  BY <1>3, <1>4, <1>5, SampledType
<1>7. CallOK' /\ call'.op # "events"
  BY <1>1, NextIdCallOK DEF IdOps
<1> HIDE DEF es, new, id
<1>8. new.valid /\ new.mem = "live" /\ new.count > 0 /\ new.data_size = 2 * new.count
  BY <1>2, <1>3, <1>4, <1>6 DEF SameButData
<1>9. fault' = "none" => fault = "none" /\ new.data_index <= new.data_size
  BY <1>1, <1>4, <1>6, WriteStaysIn
<1> QED
  BY <1>1, <1>2, <1>3, <1>6, <1>7, <1>8, <1>9, OneSlotInv

LEMMA StopOneInv ==
  ASSUME TypeInv, NEW rc \in PapiRc, StopOne(rc)
  PROVE  TypeInv'
<1> DEFINE id == Head(call.ids)
           es == all_eventsets[id]
           new == Stopped(es, rc)
<1>1. /\ call.op = "stop" /\ IsValid(id) /\ NextId
      /\ all_eventsets' = [all_eventsets EXCEPT ![id] = new]
      /\ fault' = IF Overruns(es) THEN "overrun" ELSE fault
      /\ UNCHANGED <<all_eventset_count, rows, now>>
  BY DEF StopOne
<1>2. id \in Slots /\ es \in Slot /\ es.valid
  BY <1>1, ValidInSlots DEF TypeInv
<1>3. /\ es.mem = "live" /\ es.count > 0 /\ es.data_size = 2 * es.count
      /\ id < all_eventset_count /\ now \in Nat /\ fault \in {"none", "null table", "overrun"}
  BY <1>2 DEF TypeInv, TypeOK, BlocksOK, Blocks, Usable
<1>4. new \in Slot /\ SameButData(es, new) /\ new.data_index = es.data_index + 1
  BY <1>2, <1>3, StoppedType
<1>5. CallOK' /\ call'.op # "events"
  BY <1>1, NextIdCallOK DEF IdOps
<1> HIDE DEF es, new, id
<1>6. new.valid /\ new.mem = "live" /\ new.count > 0 /\ new.data_size = 2 * new.count
  BY <1>2, <1>3, <1>4 DEF SameButData
<1>7. fault' = "none" => fault = "none" /\ new.data_index <= new.data_size
  BY <1>1, <1>2, <1>4, WriteStaysIn
<1> QED
  BY <1>1, <1>2, <1>3, <1>4, <1>5, <1>6, <1>7, OneSlotInv

LEMMA ResetOneInv ==
  ASSUME TypeInv, ResetOne
  PROVE  TypeInv'
<1> DEFINE id == Head(call.ids)
           es == all_eventsets[id]
           new == [es EXCEPT !.data_index = 0, !.taken = 0]
<1>1. /\ call.op = "reset" /\ IsValid(id) /\ NextId
      /\ all_eventsets' = [all_eventsets EXCEPT ![id] = new]
      /\ UNCHANGED <<all_eventset_count, rows, now, fault>>
  BY DEF ResetOne
<1>2. id \in Slots /\ es \in Slot /\ es.valid
  BY <1>1, ValidInSlots DEF TypeInv
<1>3. /\ es.mem = "live" /\ es.count > 0 /\ es.data_size = 2 * es.count
      /\ id < all_eventset_count /\ fault \in {"none", "null table", "overrun"}
  BY <1>2 DEF TypeInv, TypeOK, BlocksOK, Blocks, Usable
<1>4. CallOK' /\ call'.op # "events"
  BY <1>1, NextIdCallOK DEF IdOps
<1>5. /\ new \in Slot /\ new.valid /\ new.mem = "live" /\ new.count > 0
      /\ new.data_size = 2 * new.count /\ new.data_index <= new.data_size
  <2>1. /\ new \in Slot /\ new.valid /\ new.mem = es.mem /\ new.count = es.count
        /\ new.data_size = es.data_size /\ new.data_index = 0
    BY <1>2 DEF Slot
  <2>2. es.count \in Nat
    BY <1>2 DEF Slot
  <2> HIDE DEF new
  <2>3. 0 <= 2 * es.count
    BY <2>2
  <2> QED
    BY <1>3, <2>1, <2>3
<1> HIDE DEF es, new, id
<1> QED
  BY <1>1, <1>2, <1>3, <1>4, <1>5, OneSlotInv

LEMMA GetResultsInv ==
  ASSUME TypeInv, NEW id, GetResults(id)
  PROVE  TypeInv'
<1>1. /\ IsValid(id) /\ call' = [Idle EXCEPT !.op = "results", !.cur = id] /\ fault = "none"
      /\ UNCHANGED <<all_eventsets, all_eventset_count, rows, now, fault>>
  BY DEF GetResults, CanCall
<1>2. id \in -1 .. MaxSets - 1
  BY <1>1, ValidInSlots, ConstantsAssumption DEF TypeInv, Slots
<1>3. call' \in Call /\ call'.op = "results" /\ call'.cur = id
  BY <1>1, <1>2, IdleType DEF Call
<1>4. CallOK'
  BY <1>1, <1>3 DEF CallOK, IdOps, IsValid
<1> QED
  BY <1>1, <1>3, <1>4, NoSlotInv DEF TypeInv, TypeOK

(* The pair of snapshots AddDataRow works on lies below data_index.        *)
LEMMA FirstMatching ==
  ASSUME NEW es \in Slot, NEW from \in Nat, NEW type, Matching(es, from, type) # {}
  PROVE  LET i == find_first_matching_snapshot_type(es, from, type)
         IN  /\ i \in Nat /\ from <= i /\ i < es.data_index /\ es.data[i].type = type
             /\ \A j \in Matching(es, from, type) : i <= j
<1> DEFINE i == find_first_matching_snapshot_type(es, from, type)
<1>1. es.data_index \in Nat
  BY DEF Slot
<1>2. Matching(es, from, type) \subseteq Nat
  BY <1>1 DEF Matching
<1>3. i \in Matching(es, from, type) /\ \A j \in Matching(es, from, type) : i <= j
  BY <1>2, LeastNat DEF find_first_matching_snapshot_type
<1> QED
  BY <1>1, <1>3 DEF Matching

(* Without a fault every snapshot in use is a cell of the block.           *)
LEMMA UsedCell ==
  ASSUME NEW es \in Slot, es.data_index <= es.data_size, NEW i \in Nat, i < es.data_index
  PROVE  i \in Cells /\ es.data[i] \in Cell
<1>1. es.data_index \in Nat /\ es.data_size \in 0 .. MaxIndex /\ es.data \in [Cells -> Cell]
  BY DEF Slot
<1>2. i \in Cells
  BY <1>1, ConstantsAssumption DEF Cells
<1> QED
  BY <1>1, <1>2

(* The snapshots AddDataRow pairs.                                         *)
LEMMA PairProperties ==
  ASSUME NEW es \in Slot, es.data_index <= es.data_size, NEW from \in Nat, HasPair(es, from)
  PROVE  LET s == find_first_matching_snapshot_type(es, from, START)
             e == find_first_matching_snapshot_type(es, s, END)
         IN  /\ s \in Nat /\ e \in Nat /\ from <= s /\ s < e /\ e < es.data_index
             /\ es.data[s] \in Cell /\ es.data[e] \in Cell
             /\ es.data[s].type = START /\ es.data[e].type = END
<1> DEFINE s == find_first_matching_snapshot_type(es, from, START)
           e == find_first_matching_snapshot_type(es, s, END)
<1>1. s \in Nat /\ from <= s /\ s < es.data_index /\ es.data[s].type = START
  BY FirstMatching DEF HasPair
<1>2. e \in Nat /\ s <= e /\ e < es.data_index /\ es.data[e].type = END
  <2>1. Matching(es, s, END) # {}
    BY DEF HasPair
  <2> HIDE DEF s
  <2> QED
    BY <1>1, <2>1, FirstMatching
<1>3. es.data[s] \in Cell /\ es.data[e] \in Cell
  <2> HIDE DEF s, e
  <2> QED
    BY <1>1, <1>2, UsedCell
<1>4. s # e
  BY <1>1, <1>2 DEF START, END
<1> HIDE DEF s, e
<1>5. s < e
  BY <1>1, <1>2, <1>4
<1> QED
  BY <1>1, <1>2, <1>3, <1>5 DEF s, e

LEMMA AddDataRowInv ==
  ASSUME TypeInv, AddDataRow
  PROVE  TypeInv'
<1> DEFINE es == all_eventsets[call.cur]
           s == find_first_matching_snapshot_type(es, call.from, START)
           e == find_first_matching_snapshot_type(es, s, END)
           row == [start |-> es.data[s], end |-> es.data[e]]
<1>1. /\ call.op = "results" /\ HasPair(es, call.from)
      /\ rows' = Append(rows, row) /\ call' = [call EXCEPT !.from = e + 1]
      /\ UNCHANGED <<all_eventsets, all_eventset_count, now, fault>>
  BY DEF AddDataRow
<1>2. /\ call \in Call /\ IsValid(call.cur) /\ fault = "none"
      /\ rows \in Seq([start : Cell, end : Cell])
  BY <1>1 DEF TypeInv, TypeOK, CallOK
<1>3. call.cur \in Slots /\ es \in Slot /\ es.valid /\ call.from \in Nat
  BY <1>2, ValidInSlots DEF TypeInv, Call
<1>4. es.data_index <= es.data_size
  BY <1>2, <1>3 DEF TypeInv, BlocksOK, Blocks, Usable
<1>5. e \in Nat /\ es.data[s] \in Cell /\ es.data[e] \in Cell
  <2> HIDE DEF es
  <2> QED
    BY <1>1, <1>3, <1>4, PairProperties
<1> HIDE DEF s, e
<1>6. rows' \in Seq([start : Cell, end : Cell])
  <2>1. row \in [start : Cell, end : Cell]
    BY <1>5
  <2> HIDE DEF row
  <2> QED
    BY <1>1, <1>2, <2>1
<1>7. call' \in Call /\ call'.op = "results" /\ call'.cur = call.cur
  <2>1. e + 1 \in Nat
    BY <1>5
  <2> QED
    BY <1>1, <1>2, <2>1 DEF Call
<1>8. CallOK'
  BY <1>1, <1>2, <1>7 DEF CallOK, IdOps, IsValid
<1> QED
  BY <1>1, <1>2, <1>6, <1>7, <1>8, NoSlotInv DEF TypeInv, TypeOK

LEMMA ReturnResultsInv ==
  ASSUME TypeInv, ReturnResults
  PROVE  TypeInv'
<1>1. rows' \in Seq([start : Cell, end : Cell])
  BY DEF ReturnResults
<1> QED
  BY <1>1, IdleCallOK, NoSlotInv DEF ReturnResults, TypeInv, TypeOK

LEMMA TickInv ==
  ASSUME TypeInv, Tick
  PROVE  TypeInv'
<1>1. CallOK' /\ now' \in Nat
  BY DEF Tick, TypeInv, TypeOK, CallOK, IsValid
<1> QED
  BY <1>1, NoSlotInv DEF Tick, TypeInv, TypeOK

LEMMA NextTypeInv ==
  ASSUME TypeInv, [Next]_vars
  PROVE  TypeInv'
<1>1. CASE Create
  <2>1. PICK m \in Counts, names \in EventArrays, attach \in Attaching :
          \/ CreateRejected(m, names, attach)
          \/ CreateAllocates(m, names, attach)
          \/ \E what \in {"table", "data", "events"} : CreateOutOfMemory(m, names, attach, what)
    BY <1>1 DEF Create
  <2>2. names \in Seq(DOMAIN Info) /\ attach \in BOOLEAN
    BY ConstantsAssumption
  <2> QED
    BY <2>1, <2>2, CreateRejectedInv, CreateAllocatesInv, CreateOutOfMemoryInv
<1>2. CASE \E id \in Slots : DestroyEventSet(id) \/ GetResults(id)
  BY <1>2, DestroyEventSetInv, GetResultsInv
<1>3. ASSUME NEW ids \in IdArrays,
             \/ Start(ids) \/ Stop(ids) \/ Reset(ids)
             \/ \E user \in SampleIds : Sample(ids, user)
      PROVE  TypeInv'
  <2>1. SampleIds \subseteq Nat
    BY ConstantsAssumption
  <2>2. PICK op \in IdOps, user \in Nat : BeginLoop(op, ids, user)
    BY <1>3, <2>1 DEF Start, Stop, Sample, Reset, IdOps
  <2> QED
    BY <2>2, BeginLoopInv
<1>4. CASE Iterate
  BY <1>4, AddEventInv, FinishCreateInv, AttachInv, InvalidIdInv, StartOneInv, SampleOneInv,
     StopOneInv, ResetOneInv, AddDataRowInv, ReturnResultsInv DEF Iterate
<1>5. CASE Tick
  BY <1>5, TickInv
<1>6. CASE UNCHANGED vars
  BY <1>6 DEF vars, TypeInv, TypeOK, CallOK, IsValid, BlocksOK, Blocks, Usable
<1> QED
  BY <1>1, <1>2, <1>3, <1>4, <1>5, <1>6 DEF Next

(* The types hold in every reachable state, whatever the client does; in   *)
(* particular createEventSet, attach and getResults keep working on an id  *)
(* that is good (measurement.c).                                           *)
THEOREM TypeCorrect == Spec => []TypeOK
<1>1. Spec => []TypeInv
  BY InitTypeInv, NextTypeInv, PTL DEF Spec
<1>2. TypeInv => TypeOK
  BY DEF TypeInv
<1> QED
  BY <1>1, <1>2, PTL

(* A valid id always has its blocks: no path of create, attach or destroy  *)
(* frees them and leaves the id valid, so no block is freed twice.         *)
THEOREM NoUseAfterFree == Spec => []ValidIsLive
<1>1. Spec => []TypeInv
  BY InitTypeInv, NextTypeInv, PTL DEF Spec
<1>2. TypeInv => ValidIsLive
  BY DEF TypeInv, BlocksOK, Blocks, Usable, ValidIsLive
<1> QED
  BY <1>1, <1>2, PTL

(***************************************************************************)
(* A client that alternates start and stop.                                *)
(***************************************************************************)

(* The snapshots start and stop take, when the cell has no stale           *)
(* PAPI_start code, report the failures of their own calls.                *)
LEMMA SnapshotRaw ==
  ASSUME NEW es, NEW cell \in Cell, NEW rc1 \in PapiRc, NEW rc2 \in PapiRc,
         UsesPapi(es) \/ (cell.rc1 = "PAPI_OK" /\ cell.rc2 = "PAPI_OK")
  PROVE  /\ RawOK(ubench_measure_start(es, cell, rc1, rc2))
         /\ cell.rc2 = "PAPI_OK" => RawOK(ubench_measure_stop(es, cell, rc1))
<1> DEFINE a == ubench_measure_start(es, cell, rc1, rc2)
           b == ubench_measure_stop(es, cell, rc1)
<1>1. CASE UsesPapi(es)
  <2>1. a.rc1 = rc2 /\ a.rc2 = rc1 /\ (a.failed <=> rc1 = "PAPI_ERROR" \/ rc2 = "PAPI_ERROR")
    BY <1>1 DEF ubench_measure_start, Cell
  <2>2. b.rc1 = rc1 /\ b.rc2 = cell.rc2 /\ (b.failed <=> rc1 = "PAPI_ERROR")
    BY <1>1 DEF ubench_measure_stop, Cell
  <2> HIDE DEF a, b
  <2> QED
    BY <2>1, <2>2 DEF RawOK, getter_raw_papi, PapiRc, a, b
<1>2. CASE ~UsesPapi(es)
  <2>1. a.rc1 = cell.rc1 /\ a.rc2 = cell.rc2 /\ a.failed = FALSE
    BY <1>2 DEF ubench_measure_start, Cell
  <2>2. b.rc1 = cell.rc1 /\ b.rc2 = cell.rc2 /\ b.failed = FALSE
    BY <1>2 DEF ubench_measure_stop, Cell
  <2> QED
    BY <1>2, <2>1, <2>2 DEF RawOK, getter_raw_papi
<1> QED
  BY <1>1, <1>2

LEMMA CellAtIn ==
  ASSUME NEW es \in Slot, es.data_index < es.data_size
  PROVE  /\ ~Overruns(es) /\ es.data_index \in Cells
         /\ CellAt(es) = es.data[es.data_index] /\ es.data[es.data_index] \in Cell
<1>1. /\ es.data_index \in Nat /\ es.data_size \in 0 .. MaxIndex /\ MaxIndex \in Nat
      /\ es.data \in [Cells -> Cell]
  BY ConstantsAssumption DEF Slot
<1>2. ~Overruns(es) /\ es.data_index \in Cells
  BY <1>1 DEF Overruns, Cells
<1> QED
  BY <1>1, <1>2 DEF CellAt

(* MakeRoom leaves an even index within the block, and a free place for    *)
(* the pair of snapshots of the next measurement.                          *)
LEMMA RoomForStart ==
  ASSUME NEW es \in Slot, es.count > 0, es.data_size = 2 * es.count, Paired(es), ~es.open
  PROVE  LET m == MakeRoom(es)
             K == IF es.taken < es.count THEN es.taken ELSE es.count - 1
         IN  /\ K \in Nat /\ m.data_index = 2 * K /\ 2 * K + 2 <= es.data_size
             /\ m \in Slot /\ SameButData(es, m) /\ m.data = es.data
             /\ m.taken = es.taken /\ m.open = es.open
<1>1. /\ es.count \in Nat /\ es.taken \in Nat /\ es.data_index \in Nat
  BY DEF Slot
<1>2. es.data_index = 2 * (IF es.taken < es.count THEN es.taken ELSE es.count)
  BY <1>1 DEF Paired, Kept
<1>3. CASE es.taken < es.count
  <2>1. MakeRoom(es) = es
    BY <1>1, <1>2, <1>3 DEF MakeRoom
  <2> QED
    BY <1>1, <1>2, <1>3, <2>1 DEF SameButData
<1>4. CASE ~(es.taken < es.count)
  <2>1. es.data_index >= es.data_size /\ es.data_index - 2 = 2 * (es.count - 1)
    BY <1>1, <1>2, <1>4
  <2>2. MakeRoom(es) = [es EXCEPT !.data_index = es.data_index - 2]
    BY <2>1 DEF MakeRoom
  <2>3. MakeRoom(es) \in Slot /\ SameButData(es, MakeRoom(es))
    BY Positive, MakeRoomType
  <2>4. /\ MakeRoom(es).data_index = es.data_index - 2 /\ MakeRoom(es).data = es.data
        /\ MakeRoom(es).taken = es.taken /\ MakeRoom(es).open = es.open
    BY <2>2 DEF Slot
  <2> QED
    BY <1>1, <1>4, <2>1, <2>3, <2>4
<1> QED
  BY <1>3, <1>4

LEMMA SnapshotFields ==
  ASSUME NEW es \in Slot, NEW cell \in Cell, NEW rc1 \in PapiRc, NEW rc2 \in PapiRc
  PROVE  LET a == ubench_measure_start(es, cell, rc1, rc2)
             b == ubench_measure_stop(es, cell, rc1)
         IN  /\ a.type = START /\ a.meas = es.taken + 1
             /\ b.type = END /\ b.meas = es.taken /\ b.rc2 = cell.rc2
             /\ UsesPapi(es) \/ (a.rc1 = cell.rc1 /\ a.rc2 = cell.rc2 /\ b.rc1 = cell.rc1)
BY DEF ubench_measure_start, ubench_measure_stop, Cell

LEMMA PairCells ==
  ASSUME NEW k \in Nat, NEW K \in Nat, k < K, NEW n \in 0 .. MaxIndex, 2 * K <= n
  PROVE  2 * k \in Cells /\ 2 * k + 1 \in Cells /\ 2 * k # 2 * K /\ 2 * k + 1 # 2 * K
         /\ 2 * k # 2 * K + 1 /\ 2 * k + 1 # 2 * K + 1
<1>1. MaxIndex \in Nat
  BY ConstantsAssumption
<1> QED
  BY <1>1 DEF Cells

LEMMA StartPaired ==
  ASSUME NEW es \in Slot, es.count > 0, es.data_size = 2 * es.count, Paired(es), ~es.open,
         now \in Nat, NEW rc1 \in PapiRc, NEW rc2 \in PapiRc
  PROVE  /\ ~Overruns(MakeRoom(es))
         /\ Paired(Started(MakeRoom(es), rc1, rc2))
<1> DEFINE m == MakeRoom(es)
           K == IF es.taken < es.count THEN es.taken ELSE es.count - 1
           cell == m.data[m.data_index]
           snap == ubench_measure_start(m, cell, rc1, rc2)
           new == Started(m, rc1, rc2)
<1>1. /\ K \in Nat /\ m.data_index = 2 * K /\ 2 * K + 2 <= es.data_size
      /\ m \in Slot /\ SameButData(es, m) /\ m.data = es.data
      /\ m.taken = es.taken /\ m.open = es.open
  BY RoomForStart
<1>2. es.count \in Nat /\ es.taken \in Nat /\ es.data_size \in 0 .. MaxIndex /\ MaxIndex \in Nat
      /\ es.data \in [Cells -> Cell]
  BY ConstantsAssumption DEF Slot
<1> HIDE DEF m, K
<1>3. m.data_index < m.data_size
  BY <1>1, <1>2 DEF SameButData
<1>4. ~Overruns(m) /\ 2 * K \in Cells /\ CellAt(m) = cell /\ cell \in Cell
  BY <1>1, <1>3, CellAtIn
<1>5. snap \in Cell
  BY <1>1, <1>4, SnapshotType
<1>6. /\ new \in Slot /\ SameButData(m, new) /\ new.open = TRUE
      /\ new.taken = es.taken + 1 /\ new.data_index = 2 * K + 1
      /\ new.data = [es.data EXCEPT ![2 * K] = snap]
  <2>1. WriteCell(m, snap).data = [m.data EXCEPT ![m.data_index] = snap]
    BY <1>1, <1>4, <1>5, WriteCellType
  <2>2. /\ new \in Slot /\ SameButData(m, new) /\ new.open = TRUE
        /\ new.taken = m.taken + 1 /\ new.data_index = m.data_index + 1
        /\ new.data = WriteCell(m, ubench_measure_start(m, CellAt(m), rc1, rc2)).data
    <3>1. m \in Slot
      BY <1>1
    <3> QED
      BY <3>1, StartedType
  <2>3. new.data = WriteCell(m, snap).data
    BY <1>4, <2>2
  <2> HIDE DEF new, snap, cell
  <2> QED
    BY <1>1, <2>1, <2>2, <2>3
<1>7. /\ snap.type = START /\ snap.meas = es.taken + 1
      /\ UsesPapi(m) \/ (snap.rc1 = cell.rc1 /\ snap.rc2 = cell.rc2)
  BY <1>1, <1>4, SnapshotFields
<1>8. RawOK(snap)
  <2>1. UsesPapi(m) \/ (cell.rc1 = "PAPI_OK" /\ cell.rc2 = "PAPI_OK")
    BY <1>1, <1>4 DEF Paired, CleanCodes, UsesPapi, SameButData
  <2> QED
    BY <1>4, <2>1, SnapshotRaw
<1>9. /\ new.count = es.count /\ new.used_events = es.used_events
      /\ (UsesPapi(new) <=> UsesPapi(es)) /\ (UsesPapi(m) <=> UsesPapi(es))
  BY <1>1, <1>6 DEF SameButData, UsesPapi
<1>10. Kept(new) = K
  BY <1>2, <1>6, <1>9 DEF Kept, K
<1> HIDE DEF snap, new, cell
<1>11. \A k \in 0 .. K - 1 : IsPair(new, k)
  <2>1. SUFFICES ASSUME NEW k \in 0 .. K - 1 PROVE IsPair(new, k)
    OBVIOUS
  <2>2. k \in Nat /\ k < K /\ k \in 0 .. Kept(es) - 1 /\ k + 1 < es.count
    BY <1>1, <1>2, <2>1 DEF K, Kept
  <2>3. IsPair(es, k)
    BY <2>2 DEF Paired
  <2>4. new.data[2 * k] = es.data[2 * k] /\ new.data[2 * k + 1] = es.data[2 * k + 1]
    <3>1. K \in Nat /\ 2 * K <= es.data_size
      BY <1>1, <1>2
    <3>2. 2 * k \in Cells /\ 2 * k + 1 \in Cells /\ 2 * k # 2 * K /\ 2 * k + 1 # 2 * K
      BY <1>2, <2>2, <3>1, PairCells
    <3> QED
      BY <1>2, <1>6, <3>2
  <2>5. KeptAt(new, k + 1) = KeptAt(es, k + 1)
    BY <1>9, <2>2 DEF KeptAt
  <2> QED
    BY <2>3, <2>4, <2>5 DEF IsPair
<1>12. new.data[2 * K] = snap
  BY <1>2, <1>4, <1>6
<1>13. CleanCodes(new)
  <2>1. ASSUME NEW k \in 0 .. MaxIndex, 2 * k + 1 \in Cells
        PROVE  new.data[2 * k + 1].rc2 = "PAPI_OK"
    <3>1. 2 * k + 1 # 2 * K
      BY <1>1, <2>1
    <3>2. new.data[2 * k + 1] = es.data[2 * k + 1]
      BY <1>2, <1>6, <2>1, <3>1
    <3> QED
      BY <2>1, <3>2 DEF Paired, CleanCodes
  <2>2. ASSUME NEW c \in Cells
        PROVE  UsesPapi(new) \/ (new.data[c].rc1 = "PAPI_OK" /\ new.data[c].rc2 = "PAPI_OK")
    <3>1. CASE c = 2 * K
      BY <1>1, <1>4, <1>7, <1>9, <1>12, <3>1 DEF Paired, CleanCodes, cell
    <3>2. CASE c # 2 * K
      <4>1. new.data[c] = es.data[c]
        BY <1>2, <1>6, <2>2, <3>2
      <4> QED
        BY <1>9, <2>2, <4>1 DEF Paired, CleanCodes
    <3> QED
      BY <3>1, <3>2
  <2> QED
    BY <2>1, <2>2 DEF CleanCodes
<1>14. Paired(new)
  BY <1>2, <1>6, <1>7, <1>8, <1>10, <1>11, <1>12, <1>13 DEF Paired
<1> QED
  BY <1>4, <1>14 DEF m, new

LEMMA StopPaired ==
  ASSUME NEW es \in Slot, es.count > 0, es.data_size = 2 * es.count, Paired(es), es.open,
         now \in Nat, NEW rc \in PapiRc
  PROVE  ~Overruns(es) /\ Paired(Stopped(es, rc))
<1> DEFINE K == (IF es.taken < es.count THEN es.taken ELSE es.count) - 1
           cell == es.data[es.data_index]
           snap == ubench_measure_stop(es, cell, rc)
           new == Stopped(es, rc)
<1>1. /\ es.count \in Nat /\ es.taken \in Nat /\ es.data_size \in 0 .. MaxIndex /\ MaxIndex \in Nat
      /\ es.data \in [Cells -> Cell]
  BY ConstantsAssumption DEF Slot
<1>2. es.taken > 0 /\ es.data_index = 2 * Kept(es) + 1 /\ Kept(es) = K
  BY DEF Paired, Kept
<1>3. K \in Nat /\ es.data_index = 2 * K + 1 /\ 2 * K + 2 <= es.data_size
  BY <1>1, <1>2
<1>4. K + 1 = IF es.taken < es.count THEN es.taken ELSE es.count
  BY <1>1
<1> HIDE DEF K
<1>5. es.data_index < es.data_size
  BY <1>1, <1>3
<1>6. ~Overruns(es) /\ 2 * K + 1 \in Cells /\ CellAt(es) = cell /\ cell \in Cell
  BY <1>3, <1>5, CellAtIn
<1>7. snap \in Cell
  BY <1>6, SnapshotType
<1>8. /\ new \in Slot /\ SameButData(es, new) /\ new.open = FALSE
      /\ new.taken = es.taken /\ new.data_index = 2 * K + 2
      /\ new.data = [es.data EXCEPT ![2 * K + 1] = snap]
  <2>1. WriteCell(es, snap).data = [es.data EXCEPT ![es.data_index] = snap]
    BY <1>6, <1>7, WriteCellType
  <2>2. /\ new \in Slot /\ SameButData(es, new) /\ new.open = FALSE
        /\ new.taken = es.taken /\ new.data_index = es.data_index + 1
        /\ new.data = WriteCell(es, ubench_measure_stop(es, CellAt(es), rc)).data
    BY StoppedType
  <2>3. new.data = WriteCell(es, snap).data
    BY <1>6, <2>2
  <2> HIDE DEF new, snap, cell
  <2> QED
    BY <1>3, <2>1, <2>2, <2>3
<1>9. /\ snap.type = END /\ snap.meas = es.taken /\ snap.rc2 = cell.rc2
      /\ UsesPapi(es) \/ snap.rc1 = cell.rc1
  BY <1>6, SnapshotFields
<1>10. cell.rc2 = "PAPI_OK" /\ (UsesPapi(es) \/ cell.rc1 = "PAPI_OK")
  <2>1. K \in 0 .. MaxIndex
    BY <1>1, <1>3
  <2> QED
    BY <1>3, <1>6, <2>1 DEF Paired, CleanCodes
<1>11. RawOK(snap)
  BY <1>6, <1>10, SnapshotRaw
<1>12. /\ new.count = es.count /\ (UsesPapi(new) <=> UsesPapi(es))
  BY <1>8 DEF SameButData, UsesPapi
<1> HIDE DEF snap, new, cell
<1>13. Kept(new) = K + 1
  BY <1>1, <1>4, <1>8, <1>12 DEF Kept
<1>14. new.data[2 * K + 1] = snap /\ new.data[2 * K] = es.data[2 * K]
  <2>1. 2 * K \in Cells /\ 2 * K # 2 * K + 1
    BY <1>1, <1>3 DEF Cells
  <2> QED
    BY <1>1, <1>6, <1>8, <2>1
<1>15. \A k \in 0 .. K : IsPair(new, k)
  <2>1. SUFFICES ASSUME NEW k \in 0 .. K PROVE IsPair(new, k)
    OBVIOUS
  <2>2. CASE k = K
    <3>1. KeptAt(new, k + 1) = es.taken
      BY <1>1, <1>4, <1>8, <1>12, <2>2 DEF KeptAt
    <3>2. es.data[2 * K].type = START /\ es.data[2 * K].meas = es.taken /\ RawOK(es.data[2 * K])
      BY <1>2 DEF Paired
    <3> QED
      BY <1>9, <1>11, <1>14, <2>2, <3>1, <3>2 DEF IsPair
  <2>3. CASE k # K
    <3>1. k \in Nat /\ k < K /\ k \in 0 .. Kept(es) - 1 /\ 2 * K <= es.data_size
      BY <1>1, <1>2, <1>3, <2>1, <2>3
    <3>2. IsPair(es, k)
      BY <3>1 DEF Paired
    <3>3. 2 * k \in Cells /\ 2 * k + 1 \in Cells /\ 2 * k # 2 * K + 1 /\ 2 * k + 1 # 2 * K + 1
      BY <1>1, <1>3, <3>1, PairCells
    <3>4. new.data[2 * k] = es.data[2 * k] /\ new.data[2 * k + 1] = es.data[2 * k + 1]
      BY <1>1, <1>8, <3>3
    <3>5. KeptAt(new, k + 1) = KeptAt(es, k + 1)
      BY <1>8, <1>12 DEF KeptAt
    <3> QED
      BY <3>2, <3>4, <3>5 DEF IsPair
  <2> QED
    BY <2>2, <2>3
<1>16. CleanCodes(new)
  <2>1. \A c \in Cells : new.data[c] = IF c = 2 * K + 1 THEN snap ELSE es.data[c]
    BY <1>1, <1>8
  <2>2. /\ snap.rc2 = "PAPI_OK" /\ (UsesPapi(es) \/ snap.rc1 = "PAPI_OK")
    BY <1>9, <1>10
  <2>3. CleanCodes(es)
    BY DEF Paired
  <2> QED
    BY <1>12, <2>1, <2>2, <2>3 DEF CleanCodes
<1>17. Paired(new)
  BY <1>3, <1>8, <1>13, <1>15, <1>16 DEF Paired
<1> QED
  BY <1>6, <1>17 DEF new

(* Paired looks at the snapshots and their history only.                   *)
LEMMA PairedSame ==
  ASSUME NEW a \in Slot, NEW b \in Slot, Paired(a),
         b.data = a.data, b.data_index = a.data_index, b.count = a.count,
         b.open = a.open, b.taken = a.taken, UsesPapi(a) => UsesPapi(b)
  PROVE  Paired(b)
<1>1. Kept(b) = Kept(a) /\ \A k \in 0 .. Kept(a) - 1 : KeptAt(b, k + 1) = KeptAt(a, k + 1)
  BY DEF Kept, KeptAt
<1>2. \A k \in 0 .. Kept(b) - 1 : IsPair(b, k)
  BY <1>1 DEF Paired, IsPair
<1>3. CleanCodes(b)
  BY DEF Paired, CleanCodes
<1> QED
  BY <1>1, <1>2, <1>3 DEF Paired

(* A buffer with nothing in it.                                            *)
LEMMA PairedEmpty ==
  ASSUME NEW es \in Slot, es.count > 0, es.data_index = 0, es.taken = 0, ~es.open, CleanCodes(es)
  PROVE  Paired(es)
<1>1. es.count \in Nat
  BY DEF Slot
<1>2. Kept(es) = 0
  BY <1>1 DEF Kept
<1> QED
  BY <1>2 DEF Paired

(* The pair getResults finds after it has passed L pairs is the next one.  *)
LEMMA NextPair ==
  ASSUME NEW es \in Slot, Paired(es), NEW L \in Nat, L <= Kept(es)
  PROVE  /\ HasPair(es, 2 * L) <=> L < Kept(es)
         /\ L < Kept(es) =>
              /\ find_first_matching_snapshot_type(es, 2 * L, START) = 2 * L
              /\ find_first_matching_snapshot_type(es, 2 * L, END) = 2 * L + 1
<1> DEFINE K == Kept(es)
<1>1. es.data_index \in Nat /\ K \in Int
  BY DEF Slot, Kept
<1>2. es.data_index = 2 * K + (IF es.open THEN 1 ELSE 0)
  BY DEF Paired
<1>3. ASSUME L < K
      PROVE  /\ find_first_matching_snapshot_type(es, 2 * L, START) = 2 * L
             /\ find_first_matching_snapshot_type(es, 2 * L, END) = 2 * L + 1
             /\ HasPair(es, 2 * L)
  <2>1. es.data[2 * L].type = START /\ es.data[2 * L + 1].type = END
    <3>1. L \in 0 .. K - 1
      BY <1>1, <1>3
    <3> QED
      BY <3>1 DEF Paired, IsPair
  <2> HIDE DEF K
  <2>2. 2 * L \in Matching(es, 2 * L, START)
    BY <1>1, <1>2, <1>3, <2>1 DEF Matching
  <2>3. 2 * L + 1 \in Matching(es, 2 * L, END)
    BY <1>1, <1>2, <1>3, <2>1 DEF Matching
  <2>4. find_first_matching_snapshot_type(es, 2 * L, START) = 2 * L
    <3> DEFINE f == find_first_matching_snapshot_type(es, 2 * L, START)
    <3>1. f \in Nat /\ 2 * L <= f /\ f <= 2 * L
      BY <2>2, FirstMatching
    <3> HIDE DEF f
    <3>2. f = 2 * L
      BY <3>1
    <3> QED
      BY <3>2 DEF f
  <2>5. find_first_matching_snapshot_type(es, 2 * L, END) = 2 * L + 1
    <3> DEFINE f == find_first_matching_snapshot_type(es, 2 * L, END)
    <3>1. f \in Nat /\ 2 * L <= f /\ f <= 2 * L + 1 /\ es.data[f].type = END
      BY <2>3, FirstMatching
    <3>2. f # 2 * L
      BY <2>1, <3>1 DEF START, END
    <3> HIDE DEF f
    <3>3. f = 2 * L + 1
      BY <3>1, <3>2
    <3> QED
      BY <3>3 DEF f
  <2> QED
    BY <2>2, <2>3, <2>4, <2>5 DEF HasPair
<1>4. ASSUME HasPair(es, 2 * L), ~(L < K)
      PROVE  FALSE
  <2>1. L = K
    BY <1>1, <1>4
  <2> DEFINE f == find_first_matching_snapshot_type(es, 2 * L, START)
             g == find_first_matching_snapshot_type(es, f, END)
  <2>2. f \in Nat /\ 2 * L <= f /\ f < es.data_index /\ es.data[f].type = START
    BY <1>4, FirstMatching DEF HasPair
  <2>3. g \in Nat /\ f <= g /\ g < es.data_index /\ es.data[g].type = END
    <3>1. Matching(es, f, END) # {}
      BY <1>4 DEF HasPair
    <3> HIDE DEF f
    <3> QED
      BY <2>2, <3>1, FirstMatching
  <2>4. f # g
    BY <2>2, <2>3 DEF START, END
  <2> HIDE DEF f, g, K
  <2> QED
    BY <1>1, <1>2, <2>1, <2>2, <2>3, <2>4
<1> QED
  BY <1>3, <1>4

(* A step that replaces at most one event set and is no step of getResults. *)
LEMMA OneSlotPaired ==
  ASSUME TypeInv, AlternatingInv, NEW i \in Slots, NEW es \in Slot,
         all_eventsets' = [all_eventsets EXCEPT ![i] = es],
         es.valid \/ (call'.op = "events" /\ call'.cur = i) => Paired(es),
         call'.op = "events" => call'.cur = i \/ (call.op = "events" /\ call'.cur = call.cur),
         call.op # "results", call'.op # "results", rows' = rows,
         fault' # "overrun", Alternates'
  PROVE  AlternatingInv'
<1>1. /\ all_eventsets \in [Slots -> Slot] /\ rows = <<>>
      /\ \A s \in Slots : Usable(s) => Paired(all_eventsets[s])
  BY DEF TypeInv, TypeOK, AlternatingInv, RowsOK
<1>2. \A s \in Slots : all_eventsets'[s] = IF s = i THEN es ELSE all_eventsets[s]
  BY <1>1, ReplaceSlot
<1>3. ASSUME NEW s \in Slots, Usable(s)'
      PROVE  Paired(all_eventsets'[s])
  <2>1. CASE s = i
    BY <1>2, <1>3, <2>1 DEF Usable
  <2>2. CASE s # i
    BY <1>1, <1>2, <1>3, <2>2 DEF Usable
  <2> QED
    BY <2>1, <2>2
<1>4. \A s \in Slots : Usable(s)' => Paired(all_eventsets[s])'
  BY <1>3
<1>5. RowsOK'
  BY <1>1 DEF RowsOK
<1> QED
  BY <1>4, <1>5 DEF AlternatingInv

(* A step that changes no event set.                                       *)
LEMMA NoSlotPaired ==
  ASSUME AlternatingInv, UNCHANGED all_eventsets,
         call'.op # "events" \/ UNCHANGED call,
         Alternates', RowsOK', fault' # "overrun"
  PROVE  AlternatingInv'
<1>1. \A s \in Slots : Usable(s)' => Paired(all_eventsets[s])'
  <2>1. SUFFICES ASSUME NEW s \in Slots, Usable(s)' PROVE Paired(all_eventsets'[s])
    OBVIOUS
  <2>2. Usable(s)
    BY <2>1 DEF Usable
  <2> QED
    BY <2>2 DEF AlternatingInv
<1> QED
  BY <1>1 DEF AlternatingInv

LEMMA CreateReturnsOp ==
  ASSUME NEW attach \in BOOLEAN, NEW id, CreateReturns(attach, id)
  PROVE  call'.op \in {"idle", "attach"} /\ Alternates'
<1>1. call'.op \in {"idle", "attach"}
  BY IdleType DEF CreateReturns, Call
<1> QED
  BY <1>1 DEF Alternates, IdOps

LEMMA CreatePaired ==
  ASSUME TypeInv, AlternatingInv, Create
  PROVE  AlternatingInv'
<1>1. PICK m \in Counts, names \in EventArrays, attach \in Attaching :
          \/ CreateRejected(m, names, attach)
          \/ CreateAllocates(m, names, attach)
          \/ \E what \in {"table", "data", "events"} : CreateOutOfMemory(m, names, attach, what)
  BY DEF Create
<1>2. attach \in BOOLEAN
  BY ConstantsAssumption
<1>3. call = Idle /\ call.op = "idle" /\ UNCHANGED <<rows, fault>>
  BY <1>1, IdleType DEF CreateRejected, CreateAllocates, CreateOutOfMemory, CanCall
<1>4. fault # "overrun" /\ rows = <<>>
  BY <1>3 DEF AlternatingInv, RowsOK
<1>5. CASE CreateRejected(m, names, attach)
  <2>1. UNCHANGED all_eventsets /\ call'.op \in {"idle", "attach"} /\ Alternates'
    BY <1>2, <1>5, CreateReturnsOp DEF CreateRejected
  <2>2. RowsOK'
    BY <1>3, <1>4, <2>1 DEF RowsOK
  <2> QED
    BY <1>3, <1>4, <2>1, <2>2, NoSlotPaired
<1>6. ASSUME NEW what \in {"table", "data", "events"}, CreateOutOfMemory(m, names, attach, what)
      PROVE  AlternatingInv'
  <2>1. call'.op \in {"idle", "attach"} /\ Alternates' /\ SlotFor \in Slots /\ 2 * m > 0
    BY <1>2, <1>6, CreateReturnsOp DEF CreateOutOfMemory
  <2>2. RowsOK'
    BY <1>3, <1>4, <2>1 DEF RowsOK
  <2>3. CASE UNCHANGED all_eventsets
    BY <1>3, <1>4, <2>1, <2>2, <2>3, NoSlotPaired
  <2>4. CASE all_eventsets' = [all_eventsets EXCEPT ![SlotFor] =
                IF what = "data" THEN [@ EXCEPT !.mem = "none"]
                ELSE [@ EXCEPT !.mem = "freed", !.data_index = 0, !.data_size = 2 * m]]
    <3> DEFINE old == all_eventsets[SlotFor]
               new == IF what = "data" THEN [old EXCEPT !.mem = "none"]
                      ELSE [old EXCEPT !.mem = "freed", !.data_index = 0, !.data_size = 2 * m]
    <3>1. old \in Slot /\ ~old.valid
      BY <2>1, SlotForProperties DEF TypeInv, TypeOK
    <3>2. 2 * m \in 0 .. MaxIndex
      BY <2>1, ConstantsAssumption
    <3>3. new \in Slot /\ ~new.valid
      BY <3>1, <3>2 DEF Slot
    <3>4. all_eventsets' = [all_eventsets EXCEPT ![SlotFor] = new]
      BY <2>4
    <3> HIDE DEF new
    <3> QED
      BY <1>3, <1>4, <2>1, <3>3, <3>4, OneSlotPaired
  <2> QED
    BY <1>6, <2>3, <2>4 DEF CreateOutOfMemory
<1>7. CASE CreateAllocates(m, names, attach)
  <2> DEFINE new == [EmptySlot EXCEPT !.mem = "live", !.data_size = 2 * m, !.count = m]
  <2>1. /\ 2 * m > 0 /\ SlotFor \in Slots
        /\ all_eventsets' = [all_eventsets EXCEPT ![SlotFor] = new]
        /\ call' = [Idle EXCEPT !.op = "events", !.attach = attach,
                                !.names = names, !.cur = SlotFor]
    BY <1>7 DEF CreateAllocates
  <2>2. m \in Nat /\ m > 0 /\ 2 * m \in 0 .. MaxIndex
    BY <2>1, ConstantsAssumption
  <2>3. call'.op = "events" /\ call'.cur = SlotFor
    BY <2>1, IdleType DEF Call
  <2>4. /\ new \in Slot /\ new.count = m /\ new.data_index = 0 /\ new.taken = 0
        /\ new.open = FALSE /\ new.data = [c \in Cells |-> ZeroCell]
    <3>1. /\ EmptySlot \in Slot /\ EmptySlot.data_index = 0 /\ EmptySlot.taken = 0
          /\ EmptySlot.open = FALSE /\ EmptySlot.data = [c \in Cells |-> ZeroCell]
      BY ConstantSlots DEF EmptySlot
    <3> QED
      BY <2>2, <3>1 DEF Slot
  <2> HIDE DEF new
  <2>5. CleanCodes(new)
    BY <2>4 DEF CleanCodes, ZeroCell
  <2>6. Paired(new)
    BY <2>2, <2>4, <2>5, PairedEmpty
  <2>7. Alternates'
    BY <2>3 DEF Alternates, IdOps
  <2> QED
    BY <1>3, <1>4, <2>1, <2>3, <2>4, <2>6, <2>7, OneSlotPaired
<1> QED
  BY <1>1, <1>5, <1>6, <1>7

LEMMA AddEventPaired ==
  ASSUME TypeInv, AlternatingInv, AddEvent
  PROVE  AlternatingInv'
<1> DEFINE e == Head(call.names)
           es == all_eventsets[call.cur]
           comp == IF Info[e].papi THEN Info[e].component ELSE WithEvent(es, e).papi_component
           added == [WithEvent(es, e) EXCEPT !.papi_component = comp]
<1>1. /\ call.op = "events" /\ call.names # <<>> /\ UNCHANGED <<rows, fault>>
  BY DEF AddEvent
<1>2. /\ call \in Call /\ call.cur \in 0 .. all_eventset_count - 1 /\ ~es.valid
      /\ all_eventset_count \in 0 .. MaxSets /\ all_eventsets \in [Slots -> Slot]
  BY <1>1 DEF TypeInv, TypeOK, CallOK
<1>3. call.cur \in Slots
  BY <1>2, InTable
<1>4. es \in Slot /\ call.names \in Seq(DOMAIN Info) /\ call.attach \in BOOLEAN
  BY <1>2, <1>3 DEF Call
<1>5. e \in DOMAIN Info
  BY <1>1, <1>4, HeadTail
<1>6. WithEvent(es, e) \in Slot /\ ~WithEvent(es, e).valid
  BY <1>2, <1>4, <1>5, WithEventType
<1>7. Freed(es) \in Slot /\ ~Freed(es).valid
  BY <1>4, FreedType DEF Freed, Slot
<1>8. fault' # "overrun"
  BY <1>1 DEF AlternatingInv
<1>9. ASSUME NEW new \in Slot, ~new.valid,
              all_eventsets' = [all_eventsets EXCEPT ![call.cur] = new],
              CreateReturns(call.attach, -1)
      PROVE  AlternatingInv'
  <2>1. call'.op \in {"idle", "attach"} /\ Alternates'
    BY <1>4, <1>9, CreateReturnsOp
  <2> HIDE DEF es
  <2> QED
    BY <1>1, <1>3, <1>8, <1>9, <2>1, OneSlotPaired
<1>10. ASSUME all_eventsets' = [all_eventsets EXCEPT ![call.cur] = added],
              call' = [call EXCEPT !.names = Tail(call.names)]
       PROVE  AlternatingInv'
  <2>1. call'.op = "events" /\ call'.cur = call.cur
    BY <1>1, <1>2, <1>10 DEF Call
  <2>2. Alternates'
    BY <2>1 DEF Alternates, IdOps
  <2>3. /\ added \in Slot /\ added.data = es.data /\ added.data_index = es.data_index
        /\ added.count = es.count /\ added.open = es.open /\ added.taken = es.taken
        /\ added.used_events = Append(es.used_events, UsedEvent(es, e))
    <3>1. comp \in Int
      BY <1>5, <1>6, ConstantsAssumption DEF EventInfo, Slot
    <3> DEFINE w == WithEvent(es, e)
    <3>2. /\ w.data = es.data /\ w.data_index = es.data_index /\ w.count = es.count
          /\ w.open = es.open /\ w.taken = es.taken
          /\ w.used_events = Append(es.used_events, UsedEvent(es, e))
      BY <1>4 DEF WithEvent, Slot
    <3> HIDE DEF comp, w, es
    <3> QED
      BY <1>6, <3>1, <3>2 DEF Slot, w
  <2>4. UsesPapi(es) => UsesPapi(added)
    <3>1. es.used_events \in Seq(Used)
      BY <1>4 DEF Slot
    <3>2. \A k \in DOMAIN es.used_events :
            k \in DOMAIN added.used_events /\ added.used_events[k] = es.used_events[k]
      <4> DEFINE u == UsedEvent(es, e)
                 a == added.used_events
                 b == es.used_events
      <4>1. a = Append(b, u) /\ b \in Seq(Used)
        BY <2>3, <3>1
      <4> HIDE DEF a, b, u
      <4>2. \A k \in DOMAIN b : k \in DOMAIN a /\ a[k] = b[k]
        BY <4>1
      <4> QED
        BY <4>2 DEF a, b
    <3> HIDE DEF added, es
    <3> QED
      BY <3>2 DEF UsesPapi
  <2>5. Paired(es)
    BY <1>1, <1>3 DEF AlternatingInv, Usable
  <2> HIDE DEF added, es
  <2>6. Paired(added)
    BY <1>4, <2>3, <2>4, <2>5, PairedSame
  <2> QED
    BY <1>1, <1>3, <1>8, <1>10, <2>1, <2>2, <2>3, <2>6, OneSlotPaired
<1>11. \/ all_eventsets' = [all_eventsets EXCEPT ![call.cur] = Freed(es)] /\ CreateReturns(call.attach, -1)
       \/ all_eventsets' = [all_eventsets EXCEPT ![call.cur] = WithEvent(es, e)] /\ CreateReturns(call.attach, -1)
       \/ all_eventsets' = [all_eventsets EXCEPT ![call.cur] = added] /\ call' = [call EXCEPT !.names = Tail(call.names)]
  BY DEF AddEvent
<1> QED
  BY <1>6, <1>7, <1>9, <1>10, <1>11

LEMMA FinishCreatePaired ==
  ASSUME TypeInv, AlternatingInv, NEW papi, FinishCreate(papi)
  PROVE  AlternatingInv'
<1> DEFINE es == all_eventsets[call.cur]
           pe(b) == IF b THEN "created" ELSE es.papi_eventset
           good == [es EXCEPT !.valid = TRUE, !.papi_eventset = pe(UsesPapi(es))]
           bad == [Freed(es) EXCEPT !.papi_eventset = IF papi = "not created" THEN @ ELSE "created"]
<1>1. /\ call.op = "events" /\ UNCHANGED <<rows, fault>>
  BY DEF FinishCreate
<1>2. /\ call \in Call /\ call.cur \in 0 .. all_eventset_count - 1
      /\ all_eventset_count \in 0 .. MaxSets /\ all_eventsets \in [Slots -> Slot]
  BY <1>1 DEF TypeInv, TypeOK, CallOK
<1>3. call.cur \in Slots
  BY <1>2, InTable
<1>4. es \in Slot /\ call.attach \in BOOLEAN
  BY <1>2, <1>3 DEF Call
<1>5. Paired(es) /\ fault' # "overrun"
  BY <1>1, <1>3 DEF AlternatingInv, Usable
<1>6. /\ good \in Slot /\ good.data = es.data /\ good.data_index = es.data_index
      /\ good.count = es.count /\ good.open = es.open /\ good.taken = es.taken
      /\ good.used_events = es.used_events
  <2>1. pe(UsesPapi(es)) \in {"PAPI_NULL", "created"}
    BY <1>4 DEF Slot
  <2> HIDE DEF pe
  <2> QED
    BY <1>4, <2>1 DEF Slot
<1>7. bad \in Slot /\ ~bad.valid
  <2>1. Freed(es) \in Slot /\ ~Freed(es).valid
    BY <1>4, FreedType DEF Freed, Slot
  <2> QED
    BY <2>1 DEF Slot
<1>8. \/ all_eventsets' = [all_eventsets EXCEPT ![call.cur] = good] /\ CreateReturns(call.attach, call.cur)
      \/ all_eventsets' = [all_eventsets EXCEPT ![call.cur] = bad] /\ CreateReturns(call.attach, -1)
  BY DEF FinishCreate
<1> HIDE DEF good, bad, es
<1>9. call'.op \in {"idle", "attach"} /\ Alternates'
  BY <1>4, <1>8, CreateReturnsOp
<1>10. Paired(good)
  BY <1>4, <1>5, <1>6, PairedSame DEF UsesPapi
<1> QED
  BY <1>1, <1>3, <1>5, <1>6, <1>7, <1>8, <1>9, <1>10, OneSlotPaired

LEMMA IdleAlternates ==
  ASSUME call' = Idle
  PROVE  Alternates' /\ call'.op = "idle" /\ (rows' = <<>> => RowsOK')
BY IdleType DEF Alternates, IdOps, RowsOK

LEMMA FreedPaired ==
  ASSUME TypeInv, AlternatingInv, NEW id, IsValid(id), call.op # "results",
         all_eventsets' = [all_eventsets EXCEPT ![id] = Freed(@)],
         call' = Idle, UNCHANGED <<rows, fault>>
  PROVE  AlternatingInv'
<1>1. id \in Slots /\ all_eventsets[id] \in Slot
  BY ValidInSlots DEF TypeInv
<1>2. Freed(all_eventsets[id]) \in Slot /\ ~Freed(all_eventsets[id]).valid
  BY <1>1, FreedType DEF Freed, Slot
<1>3. fault' # "overrun"
  BY DEF AlternatingInv
<1> QED
  BY <1>1, <1>2, <1>3, IdleAlternates, OneSlotPaired

LEMMA AttachPaired ==
  ASSUME TypeInv, AlternatingInv, NEW ok, Attach(ok)
  PROVE  AlternatingInv'
<1>1. call.op = "attach" /\ call' = Idle /\ UNCHANGED rows
  BY DEF Attach
<1>2. /\ call.cur # -1 => IsValid(call.cur)
      /\ fault # "overrun" /\ rows = <<>>
  BY <1>1 DEF TypeInv, TypeOK, CallOK, AlternatingInv, RowsOK
<1>3. CASE UNCHANGED all_eventsets /\ fault' # "overrun"
  BY <1>1, <1>2, <1>3, IdleAlternates, NoSlotPaired
<1>4. CASE /\ call.cur # -1 /\ UNCHANGED fault
           /\ all_eventsets' = [all_eventsets EXCEPT ![call.cur] = Freed(@)]
  BY <1>1, <1>2, <1>4, FreedPaired
<1> QED
  BY <1>2, <1>3, <1>4 DEF Attach

LEMMA BeginLoopPaired ==
  ASSUME TypeInv, AlternatingInv, Client = "alternating",
         NEW op \in IdOps, NEW ids \in IdArrays, NEW user, BeginLoop(op, ids, user)
  PROVE  AlternatingInv'
<1>1. /\ call' = [Idle EXCEPT !.op = op, !.ids = ids, !.user = user] /\ call = Idle
      /\ Allowed(op, ids) /\ UNCHANGED <<all_eventsets, all_eventset_count, rows, fault>>
  BY DEF BeginLoop, CanCall
<1>2. call'.op = op /\ call'.ids = ids /\ call.op = "idle"
  BY <1>1, IdleType DEF Call
<1>3. op # "sample"
  BY <1>1 DEF Allowed
<1>4. Alternates'
  BY <1>1, <1>2, <1>3 DEF Alternates, Allowed, IdOps, IsValid
<1>5. RowsOK' /\ fault' # "overrun"
  BY <1>1, <1>2 DEF AlternatingInv, RowsOK, IdOps
<1> QED
  BY <1>1, <1>2, <1>4, <1>5, NoSlotPaired DEF IdOps

LEMMA InvalidIdPaired ==
  ASSUME AlternatingInv, InvalidId
  PROVE  AlternatingInv'
<1>1. rows = <<>> /\ fault # "overrun"
  BY DEF AlternatingInv, RowsOK, InvalidId
<1> QED
  BY <1>1, IdleAlternates, NoSlotPaired DEF InvalidId

(* The ids that remain are not the one the iteration has dealt with.       *)
LEMMA NextIdAlternates ==
  ASSUME TypeInv, AlternatingInv, call.op \in IdOps, NextId, NEW es,
         all_eventsets' = [all_eventsets EXCEPT ![Head(call.ids)] = es],
         all_eventset_count' = all_eventset_count
  PROVE  /\ Alternates' /\ call'.op \notin {"events", "results"}
         /\ IsValid(Head(call.ids)) => (all_eventsets[Head(call.ids)].open <=> call.op = "stop")
<1>1. call \in Call /\ call.ids # <<>> /\ all_eventsets \in [Slots -> Slot]
      /\ all_eventset_count \in 0 .. MaxSets
  BY DEF TypeInv, TypeOK, CallOK
<1>2. call.ids \in Seq(Int)
  BY <1>1 DEF Call
<1>3. Alternates
  BY DEF AlternatingInv
<1>4. 1 \in DOMAIN call.ids /\ Head(call.ids) = call.ids[1]
  BY <1>1, <1>2
<1>5. CASE Len(call.ids) = 1
  BY <1>3, <1>4, <1>5, IdleAlternates DEF NextId, Alternates
<1>6. CASE Len(call.ids) # 1
  <2> DEFINE q == call.ids
  <2>1. /\ DOMAIN q = 1 .. Len(q) /\ DOMAIN Tail(q) = 1 .. Len(q) - 1 /\ Len(q) \in Nat
        /\ \A i \in DOMAIN Tail(q) : Tail(q)[i] = q[i + 1]
    BY <1>1, <1>2, <1>6, TailNonempty
  <2>2. call'.op = call.op /\ call'.ids = Tail(q)
    BY <1>1, <1>6 DEF NextId, Call
  <2>3. \A i \in DOMAIN Tail(q) : i + 1 \in DOMAIN q /\ i + 1 # 1
    BY <2>1
  <2> HIDE DEF q
  <2>4. \A i \in DOMAIN Tail(q) : Tail(q)[i] = q[i + 1] /\ Tail(q)[i] # q[1]
    BY <1>3, <1>4, <2>1, <2>3 DEF Alternates, q
  <2>5. \A i, j \in DOMAIN Tail(q) : Tail(q)[i] = Tail(q)[j] => i = j
    <3>1. SUFFICES ASSUME NEW i \in DOMAIN Tail(q), NEW j \in DOMAIN Tail(q), Tail(q)[i] = Tail(q)[j]
                   PROVE  i = j
      OBVIOUS
    <3>2. i + 1 = j + 1
      BY <1>3, <2>3, <2>4, <3>1 DEF Alternates, q
    <3> QED
      BY <2>1, <3>1, <3>2
  <2>6. ASSUME NEW i \in DOMAIN Tail(q), NEW x, x = Tail(q)[i],
               x \in 0 .. all_eventset_count' - 1, all_eventsets'[x].valid
        PROVE  all_eventsets'[x].open <=> call.op = "stop"
    <3>1. x = q[i + 1] /\ x # Head(call.ids) /\ i + 1 \in DOMAIN q
      BY <1>4, <2>3, <2>4, <2>6 DEF q
    <3>2. x \in Slots
      BY <1>1, <2>6, InTable
    <3>3. all_eventsets'[x] = all_eventsets[x]
      BY <1>1, <3>1, <3>2
    <3>4. IsValid(x)
      BY <2>6, <3>3 DEF IsValid
    <3> QED
      BY <1>3, <3>1, <3>3, <3>4 DEF Alternates, q
  <2>7. Alternates'
    <3>1. ASSUME NEW i \in DOMAIN call'.ids, IsValid(call.ids[i])'
          PROVE  all_eventsets'[call'.ids[i]].open <=> call'.op = "stop"
      <4>1. i \in DOMAIN Tail(q) /\ call'.ids[i] = Tail(q)[i]
        BY <2>2, <3>1
      <4>2. call'.ids[i] \in 0 .. all_eventset_count' - 1 /\ all_eventsets'[call'.ids[i]].valid
        BY <3>1 DEF IsValid
      <4> QED
        BY <2>2, <2>6, <4>1, <4>2
    <3>2. \A i, j \in DOMAIN call'.ids : call'.ids[i] = call'.ids[j] => i = j
      BY <2>2, <2>5
    <3>3. call'.op # "sample"
      BY <1>3, <2>2 DEF Alternates
    <3> QED
      BY <3>1, <3>2, <3>3 DEF Alternates
  <2> QED
    BY <1>3, <1>4, <2>2, <2>7 DEF Alternates, IdOps
<1> QED
  BY <1>5, <1>6

LEMMA StartOnePaired ==
  ASSUME TypeInv, AlternatingInv, NEW rc1 \in PapiRc, NEW rc2 \in PapiRc, StartOne(rc1, rc2)
  PROVE  AlternatingInv'
<1> DEFINE id == Head(call.ids)
           es == MakeRoom(all_eventsets[id])
           new == Started(es, rc1, rc2)
<1>1. /\ call.op = "start" /\ IsValid(id) /\ NextId
      /\ all_eventsets' = [all_eventsets EXCEPT ![id] = new]
      /\ fault' = IF Overruns(es) THEN "overrun" ELSE fault
      /\ UNCHANGED <<all_eventset_count, rows>>
  BY DEF StartOne
<1>2. id \in Slots /\ all_eventsets[id] \in Slot /\ all_eventsets[id].valid
  BY <1>1, ValidInSlots DEF TypeInv
<1>3. /\ all_eventsets[id].count > 0 /\ now \in Nat
      /\ all_eventsets[id].data_size = 2 * all_eventsets[id].count
      /\ Paired(all_eventsets[id]) /\ fault # "overrun"
  BY <1>2 DEF TypeInv, TypeOK, BlocksOK, Blocks, Usable, AlternatingInv
<1>4. Alternates' /\ call'.op \notin {"events", "results"} /\ ~all_eventsets[id].open
  BY <1>1, NextIdAlternates DEF IdOps
<1>5. ~Overruns(es) /\ Paired(new)
  BY <1>2, <1>3, <1>4, StartPaired
<1>6. new \in Slot
  BY <1>2, <1>3, Positive, MakeRoomType, StartedType
<1> HIDE DEF es, new, id
<1> QED
  BY <1>1, <1>2, <1>3, <1>4, <1>5, <1>6, OneSlotPaired

LEMMA StopOnePaired ==
  ASSUME TypeInv, AlternatingInv, NEW rc \in PapiRc, StopOne(rc)
  PROVE  AlternatingInv'
<1> DEFINE id == Head(call.ids)
           es == all_eventsets[id]
           new == Stopped(es, rc)
<1>1. /\ call.op = "stop" /\ IsValid(id) /\ NextId
      /\ all_eventsets' = [all_eventsets EXCEPT ![id] = new]
      /\ fault' = IF Overruns(es) THEN "overrun" ELSE fault
      /\ UNCHANGED <<all_eventset_count, rows>>
  BY DEF StopOne
<1>2. id \in Slots /\ es \in Slot /\ es.valid
  BY <1>1, ValidInSlots DEF TypeInv
<1>3. /\ es.count > 0 /\ now \in Nat /\ es.data_size = 2 * es.count
      /\ Paired(es) /\ fault # "overrun"
  BY <1>2 DEF TypeInv, TypeOK, BlocksOK, Blocks, Usable, AlternatingInv
<1>4. Alternates' /\ call'.op \notin {"events", "results"} /\ es.open
  BY <1>1, NextIdAlternates DEF IdOps
<1>5. ~Overruns(es) /\ Paired(new)
  BY <1>2, <1>3, <1>4, StopPaired
<1>6. new \in Slot
  BY <1>2, <1>3, StoppedType
<1> HIDE DEF es, new, id
<1> QED
  BY <1>1, <1>2, <1>3, <1>4, <1>5, <1>6, OneSlotPaired

LEMMA ResetOnePaired ==
  ASSUME TypeInv, AlternatingInv, ResetOne
  PROVE  AlternatingInv'
<1> DEFINE id == Head(call.ids)
           es == all_eventsets[id]
           new == [es EXCEPT !.data_index = 0, !.taken = 0]
<1>1. /\ call.op = "reset" /\ IsValid(id) /\ NextId
      /\ all_eventsets' = [all_eventsets EXCEPT ![id] = new]
      /\ UNCHANGED <<all_eventset_count, rows, fault>>
  BY DEF ResetOne
<1>2. id \in Slots /\ es \in Slot /\ es.valid
  BY <1>1, ValidInSlots DEF TypeInv
<1>3. es.count > 0 /\ Paired(es) /\ fault # "overrun"
  BY <1>2 DEF TypeInv, BlocksOK, Blocks, Usable, AlternatingInv
<1>4. Alternates' /\ call'.op \notin {"events", "results"} /\ ~es.open
  BY <1>1, NextIdAlternates DEF IdOps
<1>5. /\ new \in Slot /\ new.count = es.count /\ new.data_index = 0 /\ new.taken = 0
      /\ new.open = es.open /\ new.data = es.data /\ new.used_events = es.used_events
  BY <1>2 DEF Slot
<1> HIDE DEF es, new, id
<1>6. CleanCodes(new)
  BY <1>3, <1>5 DEF Paired, CleanCodes, UsesPapi
<1>7. Paired(new)
  BY <1>3, <1>4, <1>5, <1>6, PairedEmpty
<1> QED
  BY <1>1, <1>2, <1>3, <1>4, <1>5, <1>7, OneSlotPaired

LEMMA SampleOnePaired ==
  ASSUME AlternatingInv, NEW rc, SampleOne(rc)
  PROVE  FALSE
BY DEF SampleOne, AlternatingInv, Alternates, IdOps

(* What getResults knows when it looks for the next pair.                  *)
LEMMA InResults ==
  ASSUME TypeInv, AlternatingInv, call.op = "results"
  PROVE  LET es == all_eventsets[call.cur]
         IN  /\ es \in Slot /\ Paired(es) /\ Len(rows) \in Nat /\ Len(rows) <= Kept(es)
             /\ call.from = 2 * Len(rows) /\ rows \in Seq([start : Cell, end : Cell])
             /\ es.data_index <= es.data_size
<1>1. IsValid(call.cur) /\ rows \in Seq([start : Cell, end : Cell]) /\ fault = "none"
  BY DEF TypeInv, TypeOK, CallOK
<1>2. /\ call.cur \in Slots /\ all_eventsets[call.cur] \in Slot /\ all_eventsets[call.cur].valid
  BY <1>1, ValidInSlots DEF TypeInv
<1>3. Paired(all_eventsets[call.cur]) /\ all_eventsets[call.cur].data_index <= all_eventsets[call.cur].data_size
  BY <1>1, <1>2 DEF AlternatingInv, Usable, TypeInv, BlocksOK, Blocks
<1> QED
  BY <1>1, <1>2, <1>3 DEF AlternatingInv, RowsOK

LEMMA AddDataRowPaired ==
  ASSUME TypeInv, AlternatingInv, AddDataRow
  PROVE  AlternatingInv'
<1> DEFINE es == all_eventsets[call.cur]
           L == Len(rows)
           row == [start |-> es.data[2 * L], end |-> es.data[2 * L + 1]]
<1>1. /\ call.op = "results" /\ HasPair(es, call.from) /\ UNCHANGED <<all_eventsets, fault>>
  BY DEF AddDataRow
<1>2. /\ es \in Slot /\ Paired(es) /\ L \in Nat /\ L <= Kept(es) /\ call.from = 2 * L
      /\ rows \in Seq([start : Cell, end : Cell])
  BY <1>1, InResults
<1>3. /\ L < Kept(es)
      /\ find_first_matching_snapshot_type(es, 2 * L, START) = 2 * L
      /\ find_first_matching_snapshot_type(es, 2 * L, END) = 2 * L + 1
  <2> HIDE DEF es, L
  <2> QED
    BY <1>1, <1>2, NextPair
<1>4. rows' = Append(rows, row) /\ call' = [call EXCEPT !.from = 2 * L + 2]
  BY <1>2, <1>3 DEF AddDataRow
<1>5. call'.op = "results" /\ call'.cur = call.cur /\ call'.from = 2 * L + 2
  BY <1>1, <1>4 DEF TypeInv, TypeOK, CallOK, Call
<1>6. /\ Len(rows') = L + 1 /\ DOMAIN rows' = 1 .. L + 1 /\ rows'[L + 1] = row
      /\ \A k \in 1 .. L : rows'[k] = rows[k] /\ k \in DOMAIN rows
  <2> HIDE DEF row
  <2> QED
    BY <1>2, <1>4
<1>7. \A k \in DOMAIN rows : rows[k].start = es.data[2 * k - 2] /\ rows[k].end = es.data[2 * k - 1]
  BY <1>1 DEF AlternatingInv, RowsOK
<1> HIDE DEF L
<1>8. ASSUME NEW k \in DOMAIN rows'
      PROVE  rows'[k].start = es.data[2 * k - 2] /\ rows'[k].end = es.data[2 * k - 1]
  <2>1. CASE k = L + 1
    <3>1. 2 * k - 2 = 2 * L /\ 2 * k - 1 = 2 * L + 1
      BY <1>2, <2>1
    <3> QED
      BY <1>6, <2>1, <3>1
  <2>2. CASE k # L + 1
    <3>1. k \in 1 .. L
      BY <1>2, <1>6, <1>8, <2>2
    <3> QED
      BY <1>6, <1>7, <3>1
  <2> QED
    BY <2>1, <2>2
<1>9. Len(rows') <= Kept(es) /\ call'.from = 2 * Len(rows')
  <2> HIDE DEF es, L, row
  <2>1. es \in Slot
    BY <1>2
  <2>2. Kept(es) \in Int
    BY <2>1, KeptInt
  <2> QED
    BY <1>2, <1>3, <1>5, <1>6, <2>2
<1>10. RowsOK'
  BY <1>1, <1>5, <1>8, <1>9 DEF RowsOK
<1>11. Alternates' /\ fault' # "overrun"
  BY <1>1, <1>5 DEF Alternates, IdOps, AlternatingInv
<1> QED
  BY <1>1, <1>5, <1>10, <1>11, NoSlotPaired

LEMMA DestroyEventSetPaired ==
  ASSUME TypeInv, AlternatingInv, NEW id, DestroyEventSet(id)
  PROVE  AlternatingInv'
<1>1. call = Idle /\ call' = Idle /\ call.op # "results"
  BY IdleType DEF DestroyEventSet, CanCall
<1> QED
  BY <1>1, FreedPaired DEF DestroyEventSet

LEMMA GetResultsPaired ==
  ASSUME TypeInv, AlternatingInv, NEW id \in Slots, GetResults(id)
  PROVE  AlternatingInv'
<1> DEFINE es == all_eventsets[id]
<1>1. /\ call = Idle /\ IsValid(id) /\ call' = [Idle EXCEPT !.op = "results", !.cur = id]
      /\ UNCHANGED <<all_eventsets, rows, fault>>
  BY DEF GetResults, CanCall
<1>2. call'.op = "results" /\ call'.cur = id /\ call'.from = 0
  <2>1. Idle.from = 0
    BY DEF Idle
  <2> QED
    BY <1>1, <2>1, IdleType DEF Call
<1>3. rows = <<>> /\ fault # "overrun"
  BY <1>1, IdleType DEF AlternatingInv, RowsOK
<1>4. es \in Slot /\ Paired(es)
  BY <1>1, ValidInSlots DEF TypeInv, AlternatingInv, Usable, IsValid
<1>5. 0 <= Kept(es)
  <2>1. es.data_index \in Nat /\ Kept(es) \in Int
    <3>1. es.data_index \in Nat
      BY <1>4 DEF Slot
    <3> QED
      BY <1>4, <3>1, KeptInt
  <2>2. es.data_index = 2 * Kept(es) + (IF es.open THEN 1 ELSE 0)
    BY <1>4 DEF Paired
  <2> HIDE DEF es
  <2> QED
    BY <2>1, <2>2
<1>6. RowsOK'
  <2>1. rows' = <<>> /\ Len(rows') = 0 /\ DOMAIN rows' = {}
    BY <1>1, <1>3
  <2> QED
    BY <1>1, <1>2, <1>5, <2>1 DEF RowsOK
<1>7. Alternates'
  BY <1>2 DEF Alternates, IdOps
<1> QED
  BY <1>1, <1>2, <1>3, <1>6, <1>7, NoSlotPaired

LEMMA ReturnResultsPaired ==
  ASSUME TypeInv, AlternatingInv, ReturnResults
  PROVE  AlternatingInv'
<1>1. call' = Idle /\ rows' = <<>> /\ UNCHANGED <<all_eventsets, fault>>
  BY DEF ReturnResults
<1> QED
  BY <1>1, IdleAlternates, NoSlotPaired DEF AlternatingInv

LEMMA SamePaired ==
  ASSUME AlternatingInv, UNCHANGED <<all_eventsets, all_eventset_count, call, rows, fault>>
  PROVE  AlternatingInv'
<1>1. Alternates' /\ RowsOK'
  BY DEF AlternatingInv, Alternates, RowsOK, IsValid
<1> QED
  BY <1>1, NoSlotPaired DEF AlternatingInv

LEMMA InitAlternating == Init => AlternatingInv
<1>1. SUFFICES ASSUME Init PROVE AlternatingInv
  OBVIOUS
<1>2. call.op = "idle" /\ rows = <<>> /\ fault # "overrun"
  BY <1>1, IdleType DEF Init
<1>3. \A s \in Slots : ~all_eventsets[s].valid
  BY <1>1 DEF Init, EmptySlot
<1> QED
  BY <1>2, <1>3 DEF AlternatingInv, Usable, Alternates, IdOps, RowsOK

LEMMA NextAlternating ==
  ASSUME TypeInv, AlternatingInv, Client = "alternating", [Next]_vars
  PROVE  AlternatingInv'
<1>1. CASE Create
  BY <1>1, CreatePaired
<1>2. CASE \E id \in Slots : DestroyEventSet(id) \/ GetResults(id)
  BY <1>2, DestroyEventSetPaired, GetResultsPaired
<1>3. ASSUME NEW ids \in IdArrays,
             \/ Start(ids) \/ Stop(ids) \/ Reset(ids)
             \/ \E user \in SampleIds : Sample(ids, user)
      PROVE  AlternatingInv'
  <2>1. \E op \in IdOps : \E user : BeginLoop(op, ids, user)
    BY <1>3 DEF Start, Stop, Sample, Reset, IdOps
  <2> QED
    BY <2>1, BeginLoopPaired
<1>4. CASE Iterate
  BY <1>4, AddEventPaired, FinishCreatePaired, AttachPaired, InvalidIdPaired, StartOnePaired,
     SampleOnePaired, StopOnePaired, ResetOnePaired, AddDataRowPaired, ReturnResultsPaired DEF Iterate
<1>5. CASE Tick
  BY <1>5, SamePaired DEF Tick
<1>6. CASE UNCHANGED vars
  BY <1>6, SamePaired DEF vars
<1> QED
  BY <1>1, <1>2, <1>3, <1>4, <1>5, <1>6 DEF Next

(* A client that alternates start and stop keeps every buffer a sequence   *)
(* of pairs, however often the buffer fills up and is reset                *)
(* (measurement.c, the wrap of start and the unchecked index of stop).     *)
THEOREM Alternating ==
  ASSUME Client = "alternating"
  PROVE  Spec => []AlternatingInv
<1>1. Init => TypeInv /\ AlternatingInv
  BY InitTypeInv, InitAlternating
<1>2. TypeInv /\ AlternatingInv /\ [Next]_vars => (TypeInv /\ AlternatingInv)'
  BY NextTypeInv, NextAlternating
<1> QED
  BY <1>1, <1>2, PTL DEF Spec

(* What the two invariants say of one valid event set.                     *)
LEMMA ValidPaired ==
  ASSUME TypeInv, AlternatingInv, NEW s \in Slots, all_eventsets[s].valid
  PROVE  LET es == all_eventsets[s]
         IN  /\ es \in Slot /\ es.count \in Nat /\ es.taken \in Nat /\ es.count > 0
             /\ es.data_size = 2 * es.count /\ Paired(es)
             /\ Kept(es) \in Int /\ es.data_index = 2 * Kept(es) + (IF es.open THEN 1 ELSE 0)
<1> DEFINE es == all_eventsets[s]
<1>1. es \in Slot
  BY DEF TypeInv, TypeOK
<1>2. es.count > 0 /\ es.data_size = 2 * es.count /\ Paired(es)
  BY DEF TypeInv, BlocksOK, Blocks, Usable, AlternatingInv
<1>3. es.count \in Nat /\ es.taken \in Nat
  BY <1>1 DEF Slot
<1>4. Kept(es) \in Int
  BY <1>3 DEF Kept
<1> QED
  BY <1>1, <1>2, <1>3, <1>4 DEF Paired

LEMMA PairedInBounds ==
  ASSUME TypeInv, AlternatingInv
  PROVE  InBounds
<1>1. ASSUME NEW s \in Slots, all_eventsets[s].valid
      PROVE  all_eventsets[s].data_index <= all_eventsets[s].data_size
  <2> DEFINE es == all_eventsets[s]
  <2>1. /\ es.count \in Nat /\ es.taken \in Nat /\ es.data_size = 2 * es.count
        /\ es.data_index = 2 * Kept(es) + (IF es.open THEN 1 ELSE 0)
    BY <1>1, ValidPaired
  <2> HIDE DEF es
  <2>2. es.data_index <= es.data_size
    BY <2>1 DEF Kept
  <2> QED
    BY <2>2 DEF es
<1> QED
  BY <1>1 DEF AlternatingInv, InBounds

(* Row k of getResults is the pair of cells 2k-2 and 2k-1.                 *)
LEMMA RowsOfPairs ==
  ASSUME TypeInv, AlternatingInv, NEW k \in DOMAIN rows
  PROVE  LET es == all_eventsets[call.cur]
         IN  /\ call.op = "results" /\ k \in Nat /\ k - 1 \in 0 .. Kept(es) - 1
             /\ rows[k].start.meas = KeptAt(es, k) /\ rows[k].end.meas = KeptAt(es, k)
<1> DEFINE es == all_eventsets[call.cur]
<1>1. call.op = "results"
  BY DEF AlternatingInv, RowsOK
<1>2. /\ es \in Slot /\ Paired(es) /\ Len(rows) \in Nat /\ Len(rows) <= Kept(es)
      /\ rows \in Seq([start : Cell, end : Cell])
  BY <1>1, InResults
<1>3. Kept(es) \in Int
  BY <1>2, KeptInt
<1>4. rows[k].start = es.data[2 * k - 2] /\ rows[k].end = es.data[2 * k - 1]
  BY <1>1 DEF AlternatingInv, RowsOK
<1>5. k \in 1 .. Len(rows)
  BY <1>2
<1> HIDE DEF es
<1>6. /\ k \in Nat /\ k - 1 \in 0 .. Kept(es) - 1 /\ (k - 1) + 1 = k
      /\ 2 * (k - 1) = 2 * k - 2 /\ 2 * (k - 1) + 1 = 2 * k - 1
  BY <1>2, <1>3, <1>5
<1>7. IsPair(es, k - 1)
  BY <1>2, <1>6 DEF Paired
<1>8. rows[k].start.meas = KeptAt(es, k) /\ rows[k].end.meas = KeptAt(es, k)
  BY <1>4, <1>6, <1>7 DEF IsPair
<1> QED
  BY <1>1, <1>6, <1>8 DEF es

LEMMA PairedComplete ==
  ASSUME TypeInv, AlternatingInv
  PROVE  ResultsComplete
<1>1. SUFFICES ASSUME call.op = "results" PROVE ResultsComplete
  BY DEF ResultsComplete
<1> DEFINE es == all_eventsets[call.cur]
<1>2. /\ es \in Slot /\ Paired(es) /\ Len(rows) \in Nat /\ Len(rows) <= Kept(es)
      /\ call.from = 2 * Len(rows)
  BY <1>1, InResults
<1>3. Kept(es) \in Int
  BY <1>2, KeptInt
<1>4. HasPair(es, call.from) <=> Len(rows) < Kept(es)
  <2> HIDE DEF es
  <2> QED
    BY <1>2, NextPair
<1>5. ~HasPair(es, call.from) => Len(rows) = Kept(es)
  BY <1>2, <1>3, <1>4
<1>6. \A k \in DOMAIN rows : rows[k].start.meas = KeptAt(es, k)
  BY RowsOfPairs
<1> QED
  BY <1>2, <1>5, <1>6 DEF ResultsComplete

LEMMA PairedRaw ==
  ASSUME TypeInv, AlternatingInv
  PROVE  RawReportsItsCalls
<1>1. ASSUME NEW s \in Slots, all_eventsets[s].valid,
             NEW i \in 0 .. all_eventsets[s].data_index - 1
      PROVE  RawOK(all_eventsets[s].data[i])
  <2> DEFINE es == all_eventsets[s]
             k == i \div 2
  <2>1. /\ Paired(es) /\ Kept(es) \in Int
        /\ es.data_index = 2 * Kept(es) + (IF es.open THEN 1 ELSE 0)
    BY <1>1, ValidPaired
  <2>2. i \in 0 .. es.data_index - 1
    BY <1>1
  <2> HIDE DEF es
  <2>3. k \in Nat /\ (i = 2 * k \/ i = 2 * k + 1)
    BY <2>1, <2>2
  <2> HIDE DEF k
  <2>4. CASE k < Kept(es)
    <3>1. k \in 0 .. Kept(es) - 1
      BY <2>1, <2>3, <2>4
    <3>2. IsPair(es, k)
      BY <2>1, <3>1 DEF Paired
    <3> QED
      BY <2>3, <3>2 DEF IsPair, es
  <2>5. CASE ~(k < Kept(es))
    <3>1. es.open /\ i = 2 * Kept(es)
      BY <2>1, <2>2, <2>3, <2>5
    <3> QED
      BY <2>1, <3>1 DEF Paired, es
  <2> QED
    BY <2>4, <2>5
<1> QED
  BY <1>1 DEF RawReportsItsCalls, getRawResults, RawOK

(* A client that alternates start and stop never writes outside the        *)
(* snapshot buffer, although stop does not look at data_size               *)
(* (measurement.c, ubench_measure_stop called with data_index unchecked).  *)
THEOREM AlternatingInBounds ==
  ASSUME Client = "alternating"
  PROVE  Spec => []InBounds
<1>1. Spec => []TypeInv
  BY InitTypeInv, NextTypeInv, PTL DEF Spec
<1>2. Spec => []AlternatingInv
  BY Alternating
<1> QED
  BY <1>1, <1>2, PairedInBounds, PTL

(* Every row such a client gets is one measurement, not the start of one   *)
(* and the end of another (find_first_matching_snapshot_type).             *)
THEOREM AlternatingRows ==
  ASSUME Client = "alternating"
  PROVE  Spec => []RowsAreMeasurements
<1>1. Spec => []TypeInv
  BY InitTypeInv, NextTypeInv, PTL DEF Spec
<1>2. Spec => []AlternatingInv
  BY Alternating
<1>3. TypeInv /\ AlternatingInv => RowsAreMeasurements
  BY RowsOfPairs DEF RowsAreMeasurements
<1> QED
  BY <1>1, <1>2, <1>3, PTL

(* Such a client gets all its completed measurements, in order, while the  *)
(* buffer has room, and the latest one in the last place afterwards        *)
(* (getResults together with the wrap of start).                           *)
THEOREM AlternatingComplete ==
  ASSUME Client = "alternating"
  PROVE  Spec => []ResultsComplete
<1>1. Spec => []TypeInv
  BY InitTypeInv, NextTypeInv, PTL DEF Spec
<1>2. Spec => []AlternatingInv
  BY Alternating
<1> QED
  BY <1>1, <1>2, PairedComplete, PTL

(* For such a client a raw value is an error code only when a PAPI call of *)
(* that snapshot failed: an end cell never inherits PAPI_start's code      *)
(* (papi_rc2 in measure.c).                                                *)
THEOREM AlternatingRaw ==
  ASSUME Client = "alternating"
  PROVE  Spec => []RawReportsItsCalls
<1>1. Spec => []TypeInv
  BY InitTypeInv, NextTypeInv, PTL DEF Spec
<1>2. Spec => []AlternatingInv
  BY Alternating
<1> QED
  BY <1>1, <1>2, PairedRaw, PTL
=============================================================================
