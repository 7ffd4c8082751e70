--------------------------- MODULE ConcurrentSets ---------------------------
(***************************************************************************)
(* measurement.c called by several Java threads, together with the thread  *)
(* registry, which the create-attached methods ask for a native id while   *)
(* threads start and end.  The registry is the atomic one, ThreadRegistry, *)
(* which ThreadMap implements.                                             *)
(*                                                                         *)
(* measurement.c has no lock: createEventSet says "FIXME: locking" before  *)
(* it looks for a free slot, so any call may come at any moment.  MayCreate,*)
(* MayDestroy and MayMeasure are what callers could see to themselves; no  *)
(* action needs them, raced counts the calls that were made without, and   *)
(* the properties say what holds as long as there was none.                *)
(*                                                                         *)
(* An access through a pointer into memory that was freed, or beyond a     *)
(* buffer, may do anything: the model stops there.                         *)
(*                                                                         *)
(* A slot keeps what threads can spoil for each other: the buffer, who     *)
(* wrote its snapshots and by which call.  EventSets has the rest of it.   *)
(***************************************************************************)
EXTENDS ThreadRegistry, Integers, Sequences, FiniteSets

CONSTANTS
  NativeIds,    \* ids the operating system hands out
  Counts,       \* measurement counts createEventSet is called with
  IntMax,       \* the largest jint, 2^31 - 1
  MaxSets,      \* bound on the table
  MaxCalls,     \* bound on the starts and stops of an event set
  MaxRaces      \* bound on the calls from the first careless one on

ASSUME ConcurrentAssumption ==
  /\ Natives = NativeIds \cup {Invalid} /\ Invalid \notin NativeIds
  /\ IntMax \in Nat /\ IntMax % 2 = 1
  /\ Counts \subseteq -(IntMax + 1) .. IntMax
  /\ MaxSets \in Nat /\ MaxCalls \in Nat /\ MaxRaces \in Nat
  /\ "none" \notin Threads

VARIABLES
  life, tid,   \* the life of each thread and its native id
  table,       \* all_eventsets
  block,       \* the heap block it points to, a new number for every one
  at,          \* where each thread is in measurement.c
  loc,         \* its local variables there
  snap,        \* what the buffer it writes a snapshot to has become
  exited,      \* the process is gone: exit(1), or a stray access
  stray,       \* memory was accessed that the program does not have
  owns,        \* the event sets each thread has been given
  made,        \* for whom, and how often it called start or stop with them
  raced        \* how many calls there were from the first careless one on

sets == <<table, block, at, loc, snap>>
threads == <<life, tid>>
process == <<exited, stray>>
history == <<owns, made, raced>>
allVars == <<vars, threads, sets, process, history>>

NoSet == [valid |-> FALSE, data |-> <<>>, data_size |-> 0, data_index |-> 0, papi |-> FALSE,
          attached |-> Invalid]
NotMade == [target |-> "none", calls |-> 0]
NoLocals == [id |-> 0, block |-> 0, cell |-> 0, count |-> 0, target |-> "none",
             native |-> Invalid]

SystemInit ==
  /\ Init
  /\ life = [t \in Threads |-> "new"]
  /\ tid = [t \in Threads |-> Invalid]
  /\ table = <<>> /\ block = 0
  /\ at = [t \in Threads |-> "java"]
  /\ loc = [t \in Threads |-> NoLocals]
  /\ snap = [t \in Threads |-> "none"]
  /\ exited = FALSE /\ stray = FALSE
  /\ owns = [t \in Threads |-> {}]
  /\ made = [t \in Threads |-> [id \in 1 .. MaxSets |-> NotMade]]
  /\ raced = 0

Alive(t) == life[t] \in {"starting", "running", "ending"}
InJava(t) == ~exited /\ life[t] = "running" /\ at[t] = "java"
Goes(t, to) == at' = [at EXCEPT ![t] = to]
Leaves(t) == Goes(t, "java") /\ loc' = [loc EXCEPT ![t] = NoLocals]

-----------------------------------------------------------------------------
(* A thread starts and ends; the callbacks register and unregister it.     *)
ThreadStart(t, n) ==
  /\ ~exited /\ life[t] = "new"
  /\ \A u \in Threads : Alive(u) => tid[u] # n
  /\ life' = [life EXCEPT ![t] = "starting"]
  /\ tid' = [tid EXCEPT ![t] = n]
  /\ Ask(t, [op |-> "register", java |-> t, native |-> n])
  /\ UNCHANGED <<sets, process, history>>

ThreadEnd(t) ==
  /\ InJava(t)
  /\ life' = [life EXCEPT ![t] = "ending"]
  /\ Ask(t, [op |-> "unregister", java |-> t, native |-> tid[t]])
  /\ UNCHANGED <<tid, sets, process, history>>

RegistryActs(t) ==
  /\ ~exited
  /\ Register(t) \/ Unregister(t) \/ GetNativeId(t)
  /\ UNCHANGED <<threads, sets, process, history>>

CallbackReturns(t) ==
  /\ ~exited /\ at[t] = "java"
  /\ Return(t)
  /\ \/ outcome[t].rc = "ENOMEM" /\ exited' = TRUE /\ UNCHANGED life
     \/ /\ outcome[t].rc # "ENOMEM"
        /\ life' = [life EXCEPT ![t] = IF @ = "starting" THEN "running" ELSE "dead"]
        /\ UNCHANGED exited
  /\ UNCHANGED <<tid, sets, stray, history>>

-----------------------------------------------------------------------------
(* createEventSet and createAttachedEventSetWithJavaThread.                *)
Wrap(i) == LET m == 2 * (IntMax + 1)
               r == i % m
           IN  IF r > IntMax THEN r - m ELSE r

Doubled_Missing(count) == count   \* variant

(* jmeasurements *= 2, a signed integer that wraps around.                 *)
Doubled(count) == Wrap(2 * count)

(* The test for a positive number.  An overflow is undefined, so the       *)
(* compiled code may as well test the number before it was doubled.        *)
TestedPositive(count) == Doubled(count) > 0 \/ count > 0

FreeSlots_NotTested == DOMAIN table   \* variant

FreeSlots == {i \in DOMAIN table : ~table[i].valid}

FirstOf(S) == CHOOSE i \in S : \A k \in S : i <= k

Measuring(t) == at[t] \in {"write", "advance"}
SettingUp(t) == at[t] # "java" /\ ~Measuring(t)
Others(t) == Threads \ {t}

(* One event set is created or destroyed at a time, and while the table    *)
(* has no free slot nobody measures meanwhile.                             *)
MayCreate(t) ==
  /\ \A u \in Others(t) : ~SettingUp(u)
  /\ FreeSlots # {} \/ \A u \in Others(t) : ~Measuring(u)
MayDestroy(t) == \A u \in Others(t) : ~SettingUp(u)
MayMeasure(t) ==
  \A u \in Others(t) : at[u] \in {"scan", "grow", "publish"} => FreeSlots # {}

CountsRace(careful) ==
  /\ raced' = IF raced = 0 /\ careful THEN 0 ELSE raced + 1
  /\ raced' <= MaxRaces

(* The table was moved, all_eventsets still points to where it was.        *)
Moving == \E u \in Threads : at[u] = "publish"

(* Of two threads that grow the table at once the second one gives realloc *)
(* a pointer that was freed or, if there was no table, ends up with an     *)
(* entry beyond the block.                                                 *)
GrowsToo(t) == \E u \in Others(t) : at[u] = "publish"

(* The next access of t is to memory that the program does not have: the   *)
(* table, by all_eventsets or by a pointer kept from before, or a buffer.  *)
Astray(t) ==
  \/ at[t] = "scan" /\ Moving /\ table # <<>>
  \/ at[t] = "grow" /\ GrowsToo(t)
  \/ at[t] \in {"fill", "finish", "write"} /\ (Moving \/ loc[t].block # block)
  \/ at[t] \in {"lookup", "asked", "attach", "advance"} /\ Moving
  \/ at[t] = "write" /\ snap[t] = "freed"
  \/ at[t] = "write" /\ snap[t] = "current" /\ loc[t].cell \notin DOMAIN table[loc[t].id].data

Runs(t, place) == ~exited /\ at[t] = place /\ ~Astray(t)

(* target is the thread to attach to, "none" for createEventSet itself.    *)
(* A count that fails the test changes nothing.                            *)
Create(t, count, target) ==
  /\ InJava(t) /\ CountsRace(MayCreate(t))
  /\ TestedPositive(count)
  /\ Goes(t, "scan")
  /\ loc' = [loc EXCEPT ![t] = [NoLocals EXCEPT !.count = count, !.target = target]]
  /\ UNCHANGED <<vars, threads, table, block, snap, process, owns, made>>

(* The pointer to the slot is kept from here on.                           *)
Scan(t) ==
  /\ Runs(t, "scan")
  /\ IF FreeSlots = {} THEN Goes(t, "grow") /\ UNCHANGED loc
     ELSE /\ Goes(t, "fill")
          /\ loc' = [loc EXCEPT ![t].id = FirstOf(FreeSlots), ![t].block = block]
  /\ UNCHANGED <<vars, threads, table, block, snap, process, history>>

(* realloc has moved the table and returns.  When it leaves the table      *)
(* where it is, nothing happens that cannot happen here, too.              *)
Grow(t) ==
  /\ Runs(t, "grow") /\ Len(table) < MaxSets
  /\ Goes(t, "publish")
  /\ loc' = [loc EXCEPT ![t].block = block + 1]
  /\ UNCHANGED <<vars, threads, table, block, snap, process, history>>

Publish(t) ==
  /\ Runs(t, "publish")
  /\ table' = Append(table, NoSet)
  /\ block' = loc[t].block
  /\ Goes(t, "fill")
  /\ loc' = [loc EXCEPT ![t].id = Len(table) + 1]
  /\ UNCHANGED <<vars, threads, snap, process, history>>

(* The buffer of a slot is no longer what some snapshot pointers point to. *)
Elsewhere(id, what) ==
  snap' = [u \in Threads |-> IF snap[u] = "current" /\ loc[u].id = id THEN what ELSE snap[u]]

HasBuffer(id) == table[id].data # <<>>

(* The buffer is freed.  data_index and the PAPI event set are left in the *)
(* slot but not used until they are set anew.                              *)
Free(id, valid) ==
  /\ HasBuffer(id)
  /\ table' = [table EXCEPT ![id].valid = valid, ![id].data = <<>>,
                            ![id].data_index = 0, ![id].attached = Invalid]
  /\ Elsewhere(id, "freed")

(* destroyEventSet.                                                        *)
Destroys(id) ==
  IF table[id].valid THEN Free(id, FALSE) ELSE UNCHANGED <<table, snap>>

(* An allocation fails, or the components differ: an exception, and        *)
(* nothing is freed.                                                       *)
CreateFails(t) ==
  /\ \E place \in {"grow", "fill", "finish"} : Runs(t, place)
  /\ Leaves(t)
  /\ UNCHANGED <<vars, threads, table, block, snap, process, history>>

(* A later allocation fails, an event is not known or PAPI refuses: the    *)
(* buffer is freed.  EventSets has what the create-attached methods do     *)
(* with the id -1 next.                                                    *)
CreateFailsFreeing(t) ==
  LET id == loc[t].id
  IN  /\ Runs(t, "finish")
      /\ Free(id, table[id].valid)
      /\ Leaves(t)
      /\ UNCHANGED <<vars, threads, block, process, history>>

Zero == [by |-> "none", call |-> 0]

(* The buffers and, per event, the description; papi says whether one of   *)
(* the events is of PAPI.  A negative number is a huge size to calloc.  A  *)
(* buffer that the slot still had is lost.                                 *)
Fill(t, papi) ==
  LET id == loc[t].id
      size == Doubled(loc[t].count)
  IN  /\ Runs(t, "fill") /\ size > 0
      /\ table' = [table EXCEPT ![id] =
           [NoSet EXCEPT !.valid = table[id].valid,
                         !.data = [i \in 1 .. size |-> Zero], !.data_size = size,
                         !.papi = papi]]
      /\ Elsewhere(id, "leaked")
      /\ Goes(t, "finish")
      /\ UNCHANGED <<vars, threads, block, loc, process, history>>

Given(t, id) ==
  /\ owns' = [owns EXCEPT ![t] = @ \cup {id}]
  /\ made' = [made EXCEPT ![t][id] =
                [NotMade EXCEPT !.target = IF table[id].papi THEN loc[t].target ELSE "none"]]

(* The PAPI event set is made and the slot becomes valid.                  *)
Finish(t) ==
  LET id == loc[t].id
  IN  /\ Runs(t, "finish")
      /\ table' = [table EXCEPT ![id].valid = TRUE]
      /\ IF table[id].papi /\ loc[t].target # "none"
         THEN Goes(t, "lookup") /\ UNCHANGED <<loc, owns, made>>
         ELSE Leaves(t) /\ Given(t, id)
      /\ UNCHANGED <<vars, threads, block, snap, process, raced>>

LookUp_OfCaller(t) ==   \* variant
  /\ Runs(t, "lookup")
  /\ Ask(t, [op |-> "get", java |-> t, native |-> Invalid])
  /\ Goes(t, "asked")
  /\ UNCHANGED <<threads, table, block, loc, snap, process, history>>

(* ubench_threads_get_native_id: the lock of the registry is taken and     *)
(* released, the thread asked about may end afterwards.                    *)
LookUp(t) ==
  /\ Runs(t, "lookup")
  /\ Ask(t, [op |-> "get", java |-> loc[t].target, native |-> Invalid])
  /\ Goes(t, "asked")
  /\ UNCHANGED <<threads, table, block, loc, snap, process, history>>

NotRegistered == [rc |-> "ok", native |-> Invalid]

LookedUp(t) ==
  /\ Runs(t, "asked") /\ Return(t)
  /\ IF outcome[t] = NotRegistered
     THEN Leaves(t) /\ Destroys(loc[t].id)
     ELSE /\ Goes(t, "attach")
          /\ loc' = [loc EXCEPT ![t].native = outcome[t].native]
          /\ UNCHANGED <<table, snap>>
  /\ UNCHANGED <<threads, block, process, history>>

(* PAPI_attach, which needs a thread with that id.                         *)
PapiAttaches(t) ==
  LET id == loc[t].id
  IN  /\ Runs(t, "attach")
      /\ \E u \in Threads : Alive(u) /\ tid[u] = loc[t].native
      /\ table' = [table EXCEPT ![id].attached = loc[t].native]
      /\ Leaves(t) /\ Given(t, id)
      /\ UNCHANGED <<vars, threads, block, snap, process, raced>>

PapiRefuses_Kept(t) ==   \* variant
  /\ Runs(t, "attach")
  /\ Destroys(loc[t].id)
  /\ Leaves(t) /\ Given(t, loc[t].id)
  /\ UNCHANGED <<vars, threads, block, process, raced>>

PapiRefuses(t) ==
  /\ Runs(t, "attach")
  /\ Destroys(loc[t].id)
  /\ Leaves(t)
  /\ UNCHANGED <<vars, threads, block, process, history>>

(* With an id that is no longer valid an exception and no effect.          *)
DestroyEventSet(t, id) ==
  /\ InJava(t) /\ CountsRace(MayDestroy(t)) /\ id \in owns[t] /\ ~Moving
  /\ table[id].valid /\ Destroys(id)
  /\ owns' = [owns EXCEPT ![t] = @ \ {id}]
  /\ made' = [made EXCEPT ![t][id] = NotMade]
  /\ UNCHANGED <<vars, threads, block, at, loc, process>>

-----------------------------------------------------------------------------
(* start and stop of one event set, by turns.                              *)
Starts(t, id) == made[t][id].calls % 2 = 0

MakeRoom(s) == IF s.data_index >= s.data_size THEN s.data_index - 2 ELSE s.data_index

(* The configuration, a pointer into the table, and the place of the       *)
(* snapshot in the buffer are passed to ubench_measure_start and _stop.    *)
Measure(t, id) ==
  LET index == IF Starts(t, id) THEN MakeRoom(table[id]) ELSE table[id].data_index
  IN  /\ InJava(t) /\ CountsRace(MayMeasure(t)) /\ id \in owns[t] /\ ~Moving
      /\ table[id].valid   \* otherwise an exception and no effect
      /\ made[t][id].calls < MaxCalls
      /\ table' = [table EXCEPT ![id].data_index = index]
      /\ Goes(t, "write")
      /\ loc' = [loc EXCEPT ![t] = [NoLocals EXCEPT !.id = id, !.block = block, !.cell = index + 1]]
      /\ snap' = [snap EXCEPT ![t] = IF HasBuffer(id) THEN "current" ELSE "freed"]
      /\ UNCHANGED <<vars, threads, block, process, owns, made>>

Write(t) ==
  LET id == loc[t].id
  IN  /\ Runs(t, "write")
      /\ table' = IF snap[t] = "leaked" THEN table
                  ELSE [table EXCEPT ![id].data[loc[t].cell] =
                          [by |-> t, call |-> made[t][id].calls + 1]]
      /\ snap' = [snap EXCEPT ![t] = "none"]
      /\ Goes(t, "advance")
      /\ UNCHANGED <<vars, threads, block, loc, process, history>>

Advance(t) ==
  LET id == loc[t].id
  IN  /\ Runs(t, "advance")
      /\ table' = [table EXCEPT ![id].data_index = @ + 1]
      /\ made' = [made EXCEPT ![t][id].calls = @ + 1]
      /\ Leaves(t)
      /\ UNCHANGED <<vars, threads, block, snap, process, owns, raced>>

-----------------------------------------------------------------------------
Strays == exited' = TRUE /\ stray' = TRUE /\ UNCHANGED <<vars, threads, sets, owns, made>>

StrayAccess(t) == ~exited /\ Astray(t) /\ Strays /\ UNCHANGED raced

(* A creation fails, or destroys what it made, and frees a second time.    *)
FreesTwice(t) ==
  /\ ~exited
  /\ \/ at[t] = "finish"
     \/ at[t] = "asked" /\ outcome[t] = NotRegistered /\ table[loc[t].id].valid
     \/ at[t] = "attach" /\ table[loc[t].id].valid
  /\ ~HasBuffer(loc[t].id)
  /\ Strays /\ UNCHANGED raced

(* start, stop or destroyEventSet read the table while it moves.           *)
StrayCall(t) ==
  /\ InJava(t) /\ owns[t] # {} /\ Moving
  /\ CountsRace(MayMeasure(t) \/ MayDestroy(t))
  /\ Strays

StrayDestroy(t, id) ==
  /\ InJava(t) /\ id \in owns[t] /\ table[id].valid /\ ~HasBuffer(id)
  /\ CountsRace(MayDestroy(t))
  /\ Strays

ThreadLife(t) ==
  \/ \E n \in NativeIds : ThreadStart(t, n)
  \/ ThreadEnd(t) \/ CallbackReturns(t) \/ RegistryActs(t)

Creating(t) ==
  \/ \E count \in Counts, target \in Threads \cup {"none"} : Create(t, count, target)
  \/ Scan(t) \/ Grow(t) \/ Publish(t)
  \/ CreateFails(t) \/ CreateFailsFreeing(t)
  \/ (\E papi \in BOOLEAN : Fill(t, papi)) \/ Finish(t)
  \/ LookUp(t) \/ LookedUp(t) \/ PapiAttaches(t) \/ PapiRefuses(t)

Using(t) ==
  \/ \E id \in DOMAIN table : DestroyEventSet(t, id) \/ Measure(t, id)
  \/ Write(t) \/ Advance(t)

Straying(t) ==
  \/ StrayAccess(t) \/ FreesTwice(t) \/ StrayCall(t)
  \/ \E id \in DOMAIN table : StrayDestroy(t, id)

SystemNext == \E t \in Threads : ThreadLife(t) \/ Creating(t) \/ Using(t) \/ Straying(t)

SystemSpec == SystemInit /\ [][SystemNext]_allVars

-----------------------------------------------------------------------------
Cell == [by : Threads \cup {"none"}, call : Nat]
Slot == [valid : BOOLEAN, data : Seq(Cell), data_size : Nat, data_index : Nat, papi : BOOLEAN,
         attached : Natives]
Record == [target : Threads \cup {"none"}, calls : Nat]
Locals == [id : Nat, block : Nat, cell : Nat, count : Int, target : Threads \cup {"none"},
           native : Natives]

(* The types of the variables; ids that threads work with or own exist.    *)
ConcurrentTypeOK ==
  /\ life \in [Threads -> {"new", "starting", "running", "ending", "dead"}]
  /\ tid \in [Threads -> Natives]
  /\ table \in Seq(Slot) /\ Len(table) <= MaxSets /\ block \in Nat
  /\ at \in [Threads -> {"java", "scan", "grow", "publish", "fill", "finish", "lookup", "asked",
                         "attach", "write", "advance"}]
  /\ loc \in [Threads -> Locals]
  /\ snap \in [Threads -> {"none", "current", "leaked", "freed"}]
  /\ exited \in BOOLEAN /\ stray \in BOOLEAN
  /\ owns \in [Threads -> SUBSET (DOMAIN table)]
  /\ made \in [Threads -> [1 .. MaxSets -> Record]]
  /\ raced \in Nat
  /\ \A t \in Threads :
       at[t] \notin {"java", "scan", "grow", "publish"} => loc[t].id \in DOMAIN table

(* As long as callers see to it that one event set is created or destroyed *)
(* at a time, and that nobody measures while the table grows, no thread    *)
(* uses memory that another one has freed or moved.                        *)
PointersAreGood ==
  raced = 0 =>
    /\ ~stray
    /\ \A t \in Threads : ~Astray(t)

(* As long as they do, no event set is given to two threads, and none that *)
(* somebody owns or is being given is freed or filled anew.                *)
OwnersAreRight ==
  raced = 0 =>
    /\ \A t, u \in Threads : owns[t] \cap owns[u] # {} => t = u
    /\ \A t \in Threads : \A id \in owns[t] : table[id].valid /\ HasBuffer(id)
    /\ \A t \in Threads : SettingUp(t) /\ loc[t].id # 0 =>
         /\ \A u \in Threads : loc[t].id \notin owns[u]
         /\ table[loc[t].id].valid <=> at[t] \in {"lookup", "asked", "attach"}

(* What createEventSet means by a free id: no two threads are given the    *)
(* same one.                                                               *)
IdsAreTakenOnce == \A t, u \in Threads : owns[t] \cap owns[u] # {} => t = u

(* As long as they do, no snapshot is lost or mixed up: an event set holds *)
(* as many as its owner made calls, but for the wrap of a full buffer, the *)
(* owner wrote all of them and the last one by its last call.              *)
NothingLost ==
  raced = 0 => \A t \in Threads : \A id \in owns[t] :
    LET s == table[id]
        n == made[t][id].calls
    IN  /\ \A i \in 1 .. s.data_index : s.data[i].by = t
        /\ ~Measuring(t) \/ loc[t].id # id =>
             /\ s.data_index = IF n <= s.data_size THEN n ELSE s.data_size - (n % 2)
             /\ s.data_index > 0 => s.data[s.data_index].call = n

(* As long as they do, an event set created for a Java thread is never     *)
(* returned unattached, and what it is attached to is the native id of     *)
(* that thread, also when the thread has ended since it was looked up.     *)
(* (PAPI then counts on the thread that has the id by now, if one does.)   *)
AttachedToItsThread ==
  raced = 0 => \A t \in Threads : \A id \in owns[t] :
    made[t][id].target # "none" =>
      table[id].attached \in NativeIds /\ table[id].attached = tid[made[t][id].target]

(* As long as they do, the event set a thread is about to be given has a   *)
(* buffer for exactly twice the count it asked for.  The count has to be   *)
(* positive, but a negative one in the lower half of its range wraps       *)
(* around when it is doubled, is accepted against the message "Number of   *)
(* measurements has to be positive.", and gives the size stated here.      *)
SizesAreWhole ==
  raced = 0 => \A t \in Threads :
    LET n == loc[t].count
    IN  at[t] \in {"finish", "lookup", "asked", "attach"} =>
          table[loc[t].id].data_size = IF n > 0 THEN 2 * n ELSE 2 * n + 2 * (IntMax + 1)
=============================================================================
