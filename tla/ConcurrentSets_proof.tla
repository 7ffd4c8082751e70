------------------------ MODULE ConcurrentSets_proof ------------------------
(***************************************************************************)
(* Proofs about ConcurrentSets, for any threads, native ids, counts and    *)
(* event sets: as long as every call was made as MayCreate, MayDestroy and *)
(* MayMeasure say, the threads do not spoil each other's event sets,       *)
(* although measurement.c has no lock and looks the native id up before it *)
(* uses it.  raced, once it is not 0, never is again.                      *)
(***************************************************************************)
EXTENDS ConcurrentSets, WellFoundedInduction, TLAPS

(* What the registry knows is true, and stays true: a thread is given its  *)
(* native id once, before it registers.                                    *)
RequestType == [op : {"none", "register", "unregister", "get"},
                java : Threads \cup {"none"}, native : Natives]
ResultType == [rc : {"none", "ok", "EEXIST", "ENOMEM", "ENOENT"}, native : Natives]

RegistryInv ==
  /\ registered \subseteq [java_id : Threads, native_id : Natives]
  /\ request \in [Threads -> RequestType]
  /\ outcome \in [Threads -> ResultType]
  /\ \A t \in Threads : life[t] # "new" => tid[t] \in NativeIds
  /\ \A e \in registered : life[e.java_id] # "new" /\ e.native_id = tid[e.java_id]
  /\ \A t \in Threads : request[t].op = "register" =>
       request[t].java = t /\ life[t] # "new" /\ request[t].native = tid[t]
  /\ \A t \in Threads : request[t] = NoCall => outcome[t] = NoResult
  /\ \A t \in Threads : request[t] # NoCall => life[t] # "new"
  /\ \A t \in Threads : request[t].op = "get" /\ outcome[t] # NoResult => outcome[t].rc = "ok"
  /\ \A t \in Threads : request[t].op = "get" /\ outcome[t].native # Invalid =>
       /\ request[t].java \in Threads /\ life[request[t].java] # "new"
       /\ outcome[t].native = tid[request[t].java]

(* The size of the buffer for a count, and how much of it n calls of start *)
(* and stop have filled.                                                   *)
Wanted(c) == IF c > 0 THEN 2 * c ELSE 2 * c + 2 * (IntMax + 1)
Held(n, size) == IF n <= size THEN n ELSE size - (n % 2)

(* What is true of a slot.                                                 *)
Whole(s) == s.data_size > 0 /\ s.data_size % 2 = 0 /\ Len(s.data) = s.data_size
Written(s, t) == \A i \in 1 .. s.data_index : i \in DOMAIN s.data /\ s.data[i].by = t
Complete(s, n) ==
  /\ s.data_index = Held(n, s.data_size)
  /\ s.data_index > 0 => s.data[s.data_index].call = n
Attached(s, g) == g # "none" => life[g] # "new" /\ s.attached = tid[g]

Busy(t, id) == Measuring(t) /\ loc[t].id = id

(* An event set that t owns.                                               *)
OwnedOK(t, id) ==
  /\ table[id].valid /\ Whole(table[id]) /\ Written(table[id], t)
  /\ Attached(table[id], made[t][id].target)
  /\ ~Busy(t, id) => Complete(table[id], made[t][id].calls)

(* The slot that t creates, by the count and the thread it was asked for.  *)
CreatedOK(t, s) ==
  /\ at[t] \notin {"java", "write", "advance"} => loc[t].count \in Counts
  /\ at[t] \in {"scan", "grow", "publish"} => loc[t].id = 0
  /\ at[t] \in {"fill", "finish"} => ~s.valid /\ loc[t].block = block
  /\ at[t] \in {"finish", "lookup", "asked", "attach"} =>
       Whole(s) /\ s.data_index = 0 /\ s.data_size = Wanted(loc[t].count)
  /\ at[t] \in {"lookup", "asked", "attach"} => s.valid /\ s.papi /\ loc[t].target # "none"
  /\ at[t] = "asked" => request[t].op = "get" /\ request[t].java = loc[t].target
  /\ at[t] = "attach" => life[loc[t].target] # "new" /\ loc[t].native = tid[loc[t].target]

(* The event set that t measures with, n calls before.                     *)
MeasuredOK(t, s, n) ==
  /\ at[t] = "write" => loc[t].block = block /\ loc[t].cell = s.data_index + 1
  /\ Measuring(t) =>
       /\ loc[t].id \in owns[t]
       /\ s.data_index + 1 = Held(n + 1, s.data_size) /\ s.data_index + 1 \in DOMAIN s.data
  /\ at[t] = "advance" => s.data[s.data_index + 1] = [by |-> t, call |-> n + 1]

(* Where t is in measurement.c.                                            *)
PlaceOK(t) ==
  /\ at[t] # "java" => life[t] # "new"
  /\ snap[t] = IF at[t] = "write" THEN "current" ELSE "none"
  /\ CreatedOK(t, table[loc[t].id])
  /\ MeasuredOK(t, table[loc[t].id], made[t][loc[t].id].calls)

ThreadOK(t) == PlaceOK(t) /\ \A id \in owns[t] : OwnedOK(t, id)

(* One thread sets up at a time, and nobody measures while the table is    *)
(* about to move.                                                          *)
OneSetsUp == \A t, u \in Threads : SettingUp(t) /\ SettingUp(u) => t = u
TableMayMove ==
  \A t \in Threads :
    /\ at[t] \in {"scan", "grow", "publish"} =>
         FreeSlots # {} \/ \A u \in Others(t) : ~Measuring(u)
    /\ at[t] \in {"grow", "publish"} => FreeSlots = {}
    /\ at[t] = "publish" => Len(table) < MaxSets

(* Nobody's event set is anybody else's.                                   *)
Apart ==
  /\ \A t, u \in Threads : t # u => owns[t] \cap owns[u] = {}
  /\ \A t, u \in Threads : SettingUp(t) => loc[t].id \notin owns[u]

Core ==
  /\ ConcurrentTypeOK /\ RegistryInv /\ ~stray
  /\ OneSetsUp /\ TableMayMove /\ Apart
  /\ \A t \in Threads : ThreadOK(t)

SystemInv == raced \in Nat /\ (raced = 0 => Core)

-----------------------------------------------------------------------------
(* The doubled count.                                                      *)
LEMMA Division ==
  ASSUME NEW x \in Int, NEW m \in Nat \ {0}
  PROVE  /\ x % m \in 0 .. m - 1 /\ x \div m \in Int
         /\ x = m * (x \div m) + (x % m)
OBVIOUS

LEMMA Multiples ==
  ASSUME NEW m \in Nat, NEW q \in Int
  PROVE  /\ q >= 1 => m * q >= m
         /\ q <= -2 => m * q <= -(2 * m)
         /\ q = 0 => m * q = 0
         /\ q = -1 => m * q = -m
OBVIOUS

LEMMA DoubledWanted ==
  ASSUME NEW c \in Counts, Doubled(c) > 0
  PROVE  Doubled(c) = Wanted(c) /\ Doubled(c) \in Nat /\ Doubled(c) % 2 = 0
<1> DEFINE m == 2 * (IntMax + 1)
           x == 2 * c
           r == x % m
           q == x \div m
<1>1. IntMax \in Nat /\ c \in Int /\ -(IntMax + 1) <= c /\ c <= IntMax
  BY ConcurrentAssumption
<1>2. m \in Nat \ {0} /\ x \in Int /\ x = 2 * c /\ m = 2 * (IntMax + 1)
  BY <1>1
<1>3. Doubled(c) = IF r > IntMax THEN r - m ELSE r
  BY DEF Doubled, Wrap
<1> HIDE DEF m, x
<1>4. r \in 0 .. m - 1 /\ q \in Int /\ x = m * q + r
  BY <1>2, Division
<1> HIDE DEF r, q
<1>5. PICK p \in Int : p = m * q
  BY <1>2, <1>4
<1>6. (q >= 1 => p >= m) /\ (q <= -2 => p <= -(2 * m)) /\ (q = 0 => p = 0) /\ (q = -1 => p = -m)
  BY <1>2, <1>4, <1>5, Multiples
<1>7. Doubled(c) = r /\ r \in Nat /\ r > 0
  BY <1>1, <1>2, <1>3, <1>4
<1>8. r = Wanted(c)
  <2>1. x = p + r /\ 0 <= r /\ r <= m - 1
    BY <1>2, <1>4, <1>5
  <2>2. CASE c > 0
    <3>1. q = 0
      BY <1>1, <1>2, <1>4, <1>6, <2>1, <2>2
    <3> QED
      BY <1>1, <1>2, <1>6, <1>7, <2>1, <2>2, <3>1 DEF Wanted
  <2>3. CASE c <= 0
    <3>1. q = -1
      BY <1>1, <1>2, <1>4, <1>6, <1>7, <2>1, <2>3
    <3> QED
      <4>1. ~(c > 0) /\ r = 2 * c + 2 * (IntMax + 1)
        BY <1>1, <1>2, <1>6, <1>7, <2>1, <2>3, <3>1
      <4> QED
        BY <4>1 DEF Wanted
  <2> QED
    BY <1>1, <2>2, <2>3
<1>9. r % 2 = 0
  <2>1. r = 2 * c \/ r = 2 * (c + IntMax + 1)
    BY <1>1, <1>8 DEF Wanted
  <2> QED
    BY <1>1, <2>1
<1> QED
  BY <1>7, <1>8, <1>9

(* How far the calls fill the buffer: start makes room for two snapshots   *)
(* in a full one, stop just adds one.                                      *)
LEMMA HeldNext ==
  ASSUME NEW n \in Nat, NEW size \in Nat, size > 0, size % 2 = 0, NEW i \in Nat,
         i = Held(n, size),
         NEW j \in Int, j = IF n % 2 = 0 /\ i >= size THEN i - 2 ELSE i
  PROVE  j \in Nat /\ j <= i /\ j + 1 \in 1 .. size /\ j + 1 = Held(n + 1, size)
<1>1. size >= 2 /\ (n % 2 = 0 \/ n % 2 = 1)
  OBVIOUS
<1>2. (n % 2 = 0 => (n + 1) % 2 = 1) /\ (n % 2 = 1 => (n + 1) % 2 = 0)
  OBVIOUS
<1>3. CASE n <= size
  BY <1>1, <1>2, <1>3 DEF Held
<1>4. CASE ~(n <= size)
  BY <1>1, <1>2, <1>4 DEF Held
<1> QED
  BY <1>3, <1>4

-----------------------------------------------------------------------------
LEMMA ConstantTypes ==
  /\ NoSet \in Slot /\ NoLocals \in Locals /\ NoCall \in RequestType /\ NoResult \in ResultType
  /\ NotMade \in Record /\ NotMade.target = "none" /\ NotMade.calls = 0
  /\ NoLocals.id = 0 /\ NoCall.op = "none" /\ NoResult.native = Invalid
  /\ Invalid \in Natives /\ Invalid \notin NativeIds /\ NativeIds \subseteq Natives
<1>1. Invalid \in Natives /\ Invalid \notin NativeIds /\ NativeIds \subseteq Natives
  BY ConcurrentAssumption
<1>2. NoLocals \in Locals /\ NoLocals.id = 0
  BY <1>1 DEF NoLocals, Locals
<1>3. NoCall \in RequestType /\ NoResult \in ResultType /\ NoCall.op = "none" /\ NoResult.native = Invalid
  BY <1>1 DEF NoCall, NoResult, RequestType, ResultType
<1>4. <<>> \in Seq(Cell)
  OBVIOUS
<1>5. NoSet \in Slot
  BY <1>1, <1>4 DEF NoSet, Slot
<1>6. NotMade \in Record /\ NotMade.target = "none" /\ NotMade.calls = 0
  BY DEF NotMade, Record
<1> QED
  BY <1>1, <1>2, <1>3, <1>5, <1>6

Places == {"java", "scan", "grow", "publish", "fill", "finish", "lookup", "asked", "attach",
           "write", "advance"}

LEMMA InitCore == SystemInit => Core
<1>1. SUFFICES ASSUME SystemInit PROVE Core
  OBVIOUS
<1>2. /\ table = <<>> /\ table \in Seq(Slot) /\ DOMAIN table = {} /\ block = 0 /\ Len(table) = 0
      /\ \A t \in Threads : /\ at[t] = "java" /\ loc[t] = NoLocals /\ owns[t] = {}
                            /\ life[t] = "new" /\ tid[t] = Invalid /\ snap[t] = "none"
                            /\ request[t] = NoCall /\ outcome[t] = NoResult
      /\ registered = {} /\ raced = 0
  BY <1>1 DEF SystemInit, Init
<1>3. ConcurrentTypeOK
  <2>1. /\ life \in [Threads -> {"new", "starting", "running", "ending", "dead"}]
        /\ tid \in [Threads -> Natives] /\ loc \in [Threads -> Locals]
        /\ at \in [Threads -> Places]
        /\ snap \in [Threads -> {"none", "current", "leaked", "freed"}]
        /\ owns \in [Threads -> SUBSET {}]
    BY <1>1, ConstantTypes DEF SystemInit, Places
  <2>2. exited \in BOOLEAN /\ stray \in BOOLEAN
    BY <1>1, Zenon DEF SystemInit
  <2>3. made \in [Threads -> [1 .. MaxSets -> Record]]
    BY <1>1, ConstantTypes DEF SystemInit
  <2> QED
    BY <1>2, <2>1, <2>2, <2>3, ConcurrentAssumption DEF ConcurrentTypeOK, Places
<1>4. RegistryInv
  <2>1. request \in [Threads -> RequestType] /\ outcome \in [Threads -> ResultType]
    BY <1>1, ConstantTypes DEF SystemInit, Init
  <2> QED
    BY <1>2, <2>1, ConstantTypes DEF RegistryInv
<1>5. OneSetsUp /\ TableMayMove /\ Apart
  BY <1>2 DEF OneSetsUp, TableMayMove, Apart, SettingUp
<1>6. \A t \in Threads : ThreadOK(t)
  BY <1>2 DEF ThreadOK, PlaceOK, CreatedOK, MeasuredOK, Measuring
<1>7. ~stray
  BY <1>1, Zenon DEF SystemInit
<1> QED
  BY <1>3, <1>4, <1>5, <1>6, <1>7 DEF Core

-----------------------------------------------------------------------------
(* Threads start, and keep their native id.                                *)
LifeGoesOn ==
  /\ \A u \in Threads : life[u] # "new" => life'[u] # "new" /\ tid'[u] = tid[u]
  /\ \A u \in Threads : life'[u] # "new" => tid'[u] \in NativeIds

LEMMA AskInv ==
  ASSUME RegistryInv, LifeGoesOn, NEW t \in Threads, NEW r \in RequestType, Ask(t, r),
         r.op # "none", life'[t] # "new",
         r.op = "register" => r.java = t /\ r.native = tid'[t]
  PROVE  RegistryInv'
<1>1. /\ request[t] = NoCall /\ request' = [request EXCEPT ![t] = r]
      /\ registered' = registered /\ outcome' = outcome
  BY DEF Ask
<1>2. request' \in [Threads -> RequestType] /\ request'[t] = r
      /\ \A u \in Threads : u # t => request'[u] = request[u]
  BY <1>1 DEF RegistryInv
<1>3. \A e \in registered : e.java_id \in Threads
  BY DEF RegistryInv
<1>4. outcome[t] = NoResult /\ NoResult.native = Invalid /\ r # NoCall
  BY <1>1, ConstantTypes DEF RegistryInv
<1>5. \A u \in Threads : request'[u].op = "register" =>
        request'[u].java = u /\ life'[u] # "new" /\ request'[u].native = tid'[u]
  BY <1>2 DEF RegistryInv, LifeGoesOn
<1>6. \A u \in Threads : request'[u].op = "get" /\ outcome'[u].native # Invalid =>
        /\ request'[u].java \in Threads /\ life'[request'[u].java] # "new"
        /\ outcome'[u].native = tid'[request'[u].java]
  BY <1>1, <1>2, <1>4 DEF RegistryInv, LifeGoesOn
<1>7. \A e \in registered' : life'[e.java_id] # "new" /\ e.native_id = tid'[e.java_id]
  BY <1>1, <1>3 DEF RegistryInv, LifeGoesOn
<1> QED
  BY <1>1, <1>2, <1>4, <1>5, <1>6, <1>7 DEF RegistryInv, LifeGoesOn, NoCall, NoResult

LEMMA ReturnInv ==
  ASSUME RegistryInv, LifeGoesOn, NEW t \in Threads, Return(t)
  PROVE  RegistryInv'
<1>1. /\ request' = [request EXCEPT ![t] = NoCall] /\ outcome' = [outcome EXCEPT ![t] = NoResult]
      /\ registered' = registered
  BY DEF Return
<1>2. /\ request' \in [Threads -> RequestType] /\ request'[t] = NoCall
      /\ outcome' \in [Threads -> ResultType] /\ outcome'[t] = NoResult
      /\ \A u \in Threads : u # t => request'[u] = request[u] /\ outcome'[u] = outcome[u]
  BY <1>1, ConstantTypes DEF RegistryInv
<1>3. \A e \in registered : e.java_id \in Threads
  BY DEF RegistryInv
<1>4. \A u \in Threads : request'[u].op = "register" =>
        request'[u].java = u /\ life'[u] # "new" /\ request'[u].native = tid'[u]
  BY <1>2, ConstantTypes DEF RegistryInv, LifeGoesOn
<1>5. \A u \in Threads : request'[u].op = "get" /\ outcome'[u].native # Invalid =>
        /\ request'[u].java \in Threads /\ life'[request'[u].java] # "new"
        /\ outcome'[u].native = tid'[request'[u].java]
  BY <1>2, ConstantTypes DEF RegistryInv, LifeGoesOn
<1>6. \A e \in registered' : life'[e.java_id] # "new" /\ e.native_id = tid'[e.java_id]
  BY <1>1, <1>3 DEF RegistryInv, LifeGoesOn
<1> QED
  BY <1>1, <1>2, <1>4, <1>5, <1>6 DEF RegistryInv, LifeGoesOn, NoCall, NoResult

(* The instant at which an operation of the registry happens.              *)
LEMMA RegistryActsInv ==
  ASSUME RegistryInv, NEW t \in Threads, Register(t) \/ Unregister(t) \/ GetNativeId(t),
         UNCHANGED threads
  PROVE  RegistryInv'
<1>1. PICK rc \in {"ok", "EEXIST", "ENOMEM", "ENOENT"}, n \in Natives :
        /\ Answer(t, rc, n) /\ request[t].op \in {"register", "unregister", "get"}
        /\ request[t].op = "get" => rc = "ok"
        /\ request[t].op = "get" /\ n # Invalid => \E e \in OfJava(request[t].java) : n = e.native_id
        /\ \/ registered' \subseteq registered
           \/ /\ request[t].op = "register"
              /\ registered' = registered \cup
                   {[java_id |-> request[t].java, native_id |-> request[t].native]}
  <2>1. CASE Register(t)
    BY <2>1, ConstantTypes DEF Register, Pending
  <2>2. CASE Unregister(t)
    BY <2>2, ConstantTypes DEF Unregister, Pending
  <2>3. CASE GetNativeId(t)
    <3>1. \A e \in OfJava(request[t].java) : e.native_id \in Natives
      BY DEF RegistryInv, OfJava
    <3> QED
      BY <2>3, <3>1, ConstantTypes DEF GetNativeId, Pending
  <2> QED
    BY <2>1, <2>2, <2>3
<1> DEFINE o == [rc |-> rc, native |-> n]
<1>2. o \in ResultType /\ o.native = n
  BY DEF ResultType
<1>3. /\ outcome' = [outcome EXCEPT ![t] = o] /\ request' = request
      /\ life' = life /\ tid' = tid
  BY <1>1 DEF Answer, threads
<1> HIDE DEF o
<1>4. /\ outcome' \in [Threads -> ResultType] /\ outcome'[t] = o
      /\ \A u \in Threads : u # t => outcome'[u] = outcome[u]
  BY <1>2, <1>3 DEF RegistryInv
<1>5. /\ registered' \subseteq [java_id : Threads, native_id : Natives]
      /\ \A e \in registered' : life[e.java_id] # "new" /\ e.native_id = tid[e.java_id]
  <2>1. CASE registered' \subseteq registered
    BY <2>1 DEF RegistryInv
  <2>2. CASE /\ request[t].op = "register"
             /\ registered' = registered \cup
                  {[java_id |-> request[t].java, native_id |-> request[t].native]}
    <3> DEFINE e == [java_id |-> request[t].java, native_id |-> request[t].native]
    <3>1. /\ request[t].java = t /\ life[t] # "new" /\ request[t].native = tid[t]
          /\ request[t].native \in Natives
      BY <2>2 DEF RegistryInv, RequestType
    <3>2. /\ e \in [java_id : Threads, native_id : Natives]
          /\ e.java_id = t /\ e.native_id = tid[t]
      BY <3>1
    <3> HIDE DEF e
    <3>3. registered' = registered \cup {e}
      BY <2>2 DEF e
    <3> QED
      BY <3>1, <3>2, <3>3 DEF RegistryInv
  <2> QED
    BY <1>1, <2>1, <2>2
<1>6. \A u \in Threads : request'[u].op = "get" /\ outcome'[u].native # Invalid =>
        /\ request'[u].java \in Threads /\ life'[request'[u].java] # "new"
        /\ outcome'[u].native = tid'[request'[u].java]
  <2>1. SUFFICES ASSUME NEW u \in Threads, request[u].op = "get", outcome'[u].native # Invalid
                 PROVE  /\ request[u].java \in Threads /\ life[request[u].java] # "new"
                        /\ outcome'[u].native = tid[request[u].java]
    BY <1>3
  <2>2. CASE u # t
    BY <1>4, <2>1, <2>2 DEF RegistryInv
  <2>3. CASE u = t
    <3>1. PICK e \in OfJava(request[t].java) : n = e.native_id
      BY <1>1, <1>2, <1>4, <2>1, <2>3
    <3>2. e \in registered /\ e.java_id = request[t].java
      BY <3>1 DEF OfJava
    <3> QED
      BY <1>2, <1>4, <2>3, <3>1, <3>2 DEF RegistryInv
  <2> QED
    BY <2>2, <2>3
<1>7. \A u \in Threads : request'[u] = NoCall => outcome'[u] = NoResult
  BY <1>1, <1>3, <1>4, ConstantTypes DEF RegistryInv
<1>8. \A u \in Threads : request'[u].op = "get" /\ outcome'[u] # NoResult => outcome'[u].rc = "ok"
  BY <1>1, <1>2, <1>3, <1>4 DEF RegistryInv, o
<1> QED
  BY <1>3, <1>4, <1>5, <1>6, <1>7, <1>8 DEF RegistryInv, NoCall, NoResult

-----------------------------------------------------------------------------
(* A slot of the table changes, or is added.                               *)
LEMMA ReplaceSlot ==
  ASSUME NEW T \in Seq(Slot), NEW id \in DOMAIN T, NEW r \in Slot
  PROVE  /\ [T EXCEPT ![id] = r] \in Seq(Slot)
         /\ DOMAIN [T EXCEPT ![id] = r] = DOMAIN T
         /\ Len([T EXCEPT ![id] = r]) = Len(T)
         /\ [T EXCEPT ![id] = r][id] = r
         /\ \A j \in DOMAIN T : j # id => [T EXCEPT ![id] = r][j] = T[j]
OBVIOUS

LEMMA AddSlot ==
  ASSUME NEW T \in Seq(Slot), NEW r \in Slot
  PROVE  /\ Append(T, r) \in Seq(Slot)
         /\ DOMAIN Append(T, r) = DOMAIN T \cup {Len(T) + 1}
         /\ Len(Append(T, r)) = Len(T) + 1
         /\ Append(T, r)[Len(T) + 1] = r
         /\ Len(T) + 1 \in Nat \ {0} /\ Len(T) + 1 \notin DOMAIN T
         /\ \A j \in DOMAIN T : Append(T, r)[j] = T[j]
OBVIOUS

LEMMA NoSlotZero == ASSUME NEW T \in Seq(Slot) PROVE 0 \notin DOMAIN T
OBVIOUS

(* The least number of a set.                                              *)
LEMMA LeastOfNats ==
  ASSUME NEW S \in SUBSET Nat, S # {}
  PROVE  \E i \in S : \A k \in S : i <= k
<1>1. PICK i \in S : \A k \in S : <<k, i>> \notin OpToRel(<, Nat)
  BY NatLessThanWellFounded, WFMin
<1>2. \A k \in S : ~(k < i)
  BY <1>1 DEF OpToRel
<1> QED
  BY <1>2

LEMMA FirstOfSlots ==
  ASSUME ConcurrentTypeOK, FreeSlots # {}
  PROVE  FirstOf(FreeSlots) \in FreeSlots
<1>1. FreeSlots \subseteq Nat
  BY DEF FreeSlots, ConcurrentTypeOK
<1>2. \E i \in FreeSlots : \A k \in FreeSlots : i <= k
  BY <1>1, LeastOfNats
<1> QED
  BY <1>2 DEF FirstOf

-----------------------------------------------------------------------------
(* A step of thread t that changes no slot but id, which no other thread   *)
(* owns or sets up.                                                        *)
MineOnly(t, id) ==
  \A u \in Others(t) : id \notin owns[u] /\ (SettingUp(u) => loc[u].id # id)

StepOf(t, id) ==
  /\ \A j \in DOMAIN table : j # id => j \in DOMAIN table' /\ table'[j] = table[j]
  /\ DOMAIN table' \subseteq DOMAIN table \cup {id}
  /\ \A u \in Others(t) : /\ at'[u] = at[u] /\ loc'[u] = loc[u] /\ owns'[u] = owns[u]
                          /\ snap'[u] = snap[u] /\ made'[u] = made[u]
                          /\ request'[u] = request[u]
  /\ owns'[t] \subseteq owns[t] \cup {id}

(* A thread that does not move and whose event sets stay as they are.      *)
LEMMA OwnedStays ==
  ASSUME Core, LifeGoesOn, NEW u \in Threads, NEW j \in owns[u], table'[j] = table[j],
         made'[u][j] = made[u][j], Busy(u, j) => Busy(u, j)'
  PROVE  OwnedOK(u, j)'
<1>1. OwnedOK(u, j) /\ j \in 1 .. MaxSets
  BY ConcurrentAssumption DEF Core, ThreadOK, ConcurrentTypeOK
<1>2. made[u][j] \in Record
  BY <1>1 DEF Core, ConcurrentTypeOK
<1>3. made[u][j].target # "none" => made[u][j].target \in Threads
  BY <1>2 DEF Record
<1>4. Attached(table[j], made[u][j].target)'
  BY <1>1, <1>3 DEF OwnedOK, Attached, LifeGoesOn
<1> QED
  BY <1>1, <1>4 DEF OwnedOK, Written, Complete, Attached, Whole, Held

LEMMA ThreadStays ==
  ASSUME Core, LifeGoesOn, NEW u \in Threads,
         at'[u] = at[u], loc'[u] = loc[u], owns'[u] = owns[u], snap'[u] = snap[u],
         made'[u] = made[u],
         at[u] = "asked" => request'[u] = request[u],
         \A j \in owns[u] : table'[j] = table[j],
         at[u] \notin {"java", "scan", "grow", "publish"} => table'[loc[u].id] = table[loc[u].id],
         at[u] \in {"fill", "finish", "write"} => block' = block
  PROVE  ThreadOK(u)'
<1>1. \A j \in owns[u] : OwnedOK(u, j)'
  BY OwnedStays DEF Busy, Measuring
<1>2. PlaceOK(u) /\ loc[u] \in Locals
  BY DEF Core, ThreadOK, ConcurrentTypeOK
<1>3. at[u] = "attach" => loc[u].target \in Threads
  BY <1>2 DEF PlaceOK, CreatedOK, Locals
<1>4. at[u] = "attach" => life'[loc[u].target] # "new" /\ loc[u].native = tid'[loc[u].target]
  BY <1>2, <1>3 DEF PlaceOK, CreatedOK, LifeGoesOn
<1>5. at[u] # "java" => life'[u] # "new"
  BY <1>2 DEF PlaceOK, LifeGoesOn
<1>6. CreatedOK(u, table[loc[u].id])'
  BY <1>2, <1>4 DEF PlaceOK, CreatedOK, Whole, Wanted
<1>7. MeasuredOK(u, table[loc[u].id], made[u][loc[u].id].calls)'
  BY <1>2 DEF PlaceOK, MeasuredOK, Measuring, Held
<1>8. PlaceOK(u)'
  BY <1>2, <1>5, <1>6, <1>7 DEF PlaceOK
<1> QED
  BY <1>1, <1>8 DEF ThreadOK

LEMMA OthersStay ==
  ASSUME Core, NEW t \in Threads, NEW id, MineOnly(t, id), StepOf(t, id), LifeGoesOn,
         block' = block \/ \A u \in Others(t) : at[u] \notin {"fill", "finish", "write"}
  PROVE  \A u \in Others(t) : ThreadOK(u)'
<1>1. SUFFICES ASSUME NEW u \in Others(t) PROVE ThreadOK(u)'
  OBVIOUS
<1>2. /\ u \in Threads /\ ThreadOK(u) /\ at'[u] = at[u] /\ loc'[u] = loc[u] /\ owns'[u] = owns[u]
      /\ snap'[u] = snap[u] /\ made'[u] = made[u]
      /\ request'[u] = request[u] /\ owns[u] \subseteq DOMAIN table /\ id \notin owns[u]
  BY DEF Core, StepOf, MineOnly, Others, ConcurrentTypeOK
<1>3. \A j \in owns[u] : table'[j] = table[j]
  BY <1>2 DEF StepOf
<1>4. at[u] \notin {"java", "scan", "grow", "publish"} => table'[loc[u].id] = table[loc[u].id]
  <2>1. SUFFICES ASSUME at[u] \notin {"java", "scan", "grow", "publish"}
                 PROVE  table'[loc[u].id] = table[loc[u].id]
    OBVIOUS
  <2>2. loc[u].id \in DOMAIN table
    BY <1>2, <2>1 DEF Core, ConcurrentTypeOK
  <2>3. loc[u].id # id
    BY <1>2, <2>1 DEF MineOnly, SettingUp, Measuring, ThreadOK, PlaceOK, MeasuredOK
  <2> QED
    BY <2>2, <2>3 DEF StepOf
<1> QED
  BY <1>2, <1>3, <1>4, ThreadStays

(* What is left to show for such a step.                                   *)
LEMMA StepInv ==
  ASSUME Core, NEW t \in Threads, NEW id, MineOnly(t, id), StepOf(t, id), LifeGoesOn,
         block' = block \/ \A u \in Others(t) : at[u] \notin {"fill", "finish", "write"},
         ConcurrentTypeOK', RegistryInv', TableMayMove', ThreadOK(t)', stray' = stray,
         SettingUp(t)' => /\ \A u \in Others(t) : ~SettingUp(u)
                          /\ \A u \in Threads : loc'[t].id \notin owns'[u]
  PROVE  Core'
<1>1. \A u \in Threads : ThreadOK(u)'
  BY OthersStay DEF Others
<1>2. \A u \in Others(t) : SettingUp(u)' = SettingUp(u)
  BY DEF StepOf, SettingUp, Measuring
<1>3. OneSetsUp'
  BY <1>2 DEF Core, OneSetsUp, Others
<1>4. Apart'
  <2>1. ASSUME NEW u \in Threads, NEW v \in Threads, u # v PROVE owns'[u] \cap owns'[v] = {}
    BY <2>1 DEF Core, Apart, MineOnly, StepOf, Others
  <2>2. ASSUME NEW u \in Threads, NEW v \in Threads, SettingUp(u)' PROVE loc'[u].id \notin owns'[v]
    <3>1. CASE u = t
      BY <2>2, <3>1
    <3>2. CASE u # t
      <4>1. u \in Others(t) /\ SettingUp(u) /\ loc'[u] = loc[u]
        BY <1>2, <2>2, <3>2 DEF Others, StepOf
      <4>2. owns'[v] \subseteq owns[v] \cup {id} /\ loc[u].id # id
        BY <4>1 DEF StepOf, Others, MineOnly
      <4> QED
        BY <4>1, <4>2 DEF Core, Apart
    <3> QED
      BY <3>1, <3>2
  <2> QED
    BY <2>1, <2>2 DEF Apart
<1>5. ~stray'
  BY Zenon DEF Core
<1> QED
  BY <1>1, <1>3, <1>4, <1>5 DEF Core

-----------------------------------------------------------------------------
(* The steps of the registry and of a thread's life.                       *)
LEMMA RegistryOnly ==
  ASSUME Core, UNCHANGED sets, UNCHANGED history, stray' = stray, LifeGoesOn, RegistryInv',
         life' \in [Threads -> {"new", "starting", "running", "ending", "dead"}],
         tid' \in [Threads -> Natives], exited' \in BOOLEAN,
         \A u \in Threads : at[u] = "asked" => request'[u] = request[u]
  PROVE  Core'
<1>1. /\ table' = table /\ block' = block /\ at' = at /\ loc' = loc /\ snap' = snap
      /\ owns' = owns /\ made' = made /\ raced' = raced
  BY DEF sets, history
<1>2. stray' \in BOOLEAN /\ ~stray'
  BY Zenon DEF Core, ConcurrentTypeOK
<1>3. ConcurrentTypeOK'
  BY <1>1, <1>2 DEF Core, ConcurrentTypeOK
<1>4. OneSetsUp' /\ TableMayMove' /\ Apart'
  BY <1>1 DEF Core, OneSetsUp, TableMayMove, Apart, SettingUp, Measuring, FreeSlots
<1>5. \A u \in Threads : ThreadOK(u)'
  BY <1>1, ThreadStays
<1> QED
  BY <1>2, <1>3, <1>4, <1>5 DEF Core

LEMMA ThreadLifeInv ==
  ASSUME Core, NEW t \in Threads, ThreadLife(t)
  PROVE  Core'
<1>0. /\ life \in [Threads -> {"new", "starting", "running", "ending", "dead"}]
      /\ tid \in [Threads -> Natives] /\ exited \in BOOLEAN /\ RegistryInv
  BY DEF Core, ConcurrentTypeOK
<1>1. ASSUME NEW n \in NativeIds, ThreadStart(t, n) PROVE Core'
  <2> DEFINE r == [op |-> "register", java |-> t, native |-> n]
  <2>1. r \in RequestType /\ r.op = "register" /\ r.java = t /\ r.native = n
    BY ConstantTypes DEF RequestType
  <2>2. /\ life[t] = "new" /\ life' = [life EXCEPT ![t] = "starting"] /\ tid' = [tid EXCEPT ![t] = n]
        /\ Ask(t, r) /\ UNCHANGED sets /\ UNCHANGED history /\ stray' = stray /\ exited' = exited
    BY <1>1 DEF ThreadStart, process
  <2> HIDE DEF r
  <2>3. /\ life' \in [Threads -> {"new", "starting", "running", "ending", "dead"}]
        /\ tid' \in [Threads -> Natives] /\ life'[t] = "starting" /\ tid'[t] = n
    BY <1>0, <2>2, ConstantTypes
  <2>4. LifeGoesOn
    BY <1>0, <2>2 DEF LifeGoesOn, RegistryInv
  <2>5. RegistryInv'
    BY <1>0, <2>1, <2>2, <2>3, <2>4, AskInv
  <2>6. \A u \in Threads : at[u] = "asked" => request'[u] = request[u]
    <3>1. at[t] = "asked" => request[t].op = "get"
      BY DEF Core, ThreadOK, PlaceOK, CreatedOK
    <3> QED
      BY <1>0, <2>2, <3>1, ConstantTypes DEF Ask, RegistryInv
  <2> QED
    BY <1>0, <2>2, <2>3, <2>4, <2>5, <2>6, RegistryOnly
<1>2. CASE ThreadEnd(t)
  <2> DEFINE r == [op |-> "unregister", java |-> t, native |-> tid[t]]
  <2>1. r \in RequestType /\ r.op = "unregister"
    BY <1>0 DEF RequestType
  <2>2. /\ life[t] = "running" /\ life' = [life EXCEPT ![t] = "ending"] /\ tid' = tid
        /\ Ask(t, r) /\ UNCHANGED sets /\ UNCHANGED history /\ stray' = stray /\ exited' = exited /\ at[t] = "java"
    BY <1>2 DEF ThreadEnd, InJava, process
  <2> HIDE DEF r
  <2>3. /\ life' \in [Threads -> {"new", "starting", "running", "ending", "dead"}] /\ LifeGoesOn
    BY <1>0, <2>2 DEF LifeGoesOn, RegistryInv
  <2>4. RegistryInv'
    BY <1>0, <2>1, <2>2, <2>3, AskInv
  <2>5. \A u \in Threads : at[u] = "asked" => request'[u] = request[u]
    BY <1>0, <2>2 DEF Ask, RegistryInv
  <2> QED
    BY <1>0, <2>2, <2>3, <2>4, <2>5, RegistryOnly
<1>3. CASE RegistryActs(t)
  <2>1. UNCHANGED threads /\ UNCHANGED sets /\ UNCHANGED history /\ stray' = stray /\ exited' = exited
        /\ (Register(t) \/ Unregister(t) \/ GetNativeId(t))
    BY <1>3 DEF RegistryActs, process
  <2>2. RegistryInv'
    BY <1>0, <2>1, RegistryActsInv
  <2>3. life' = life /\ tid' = tid /\ LifeGoesOn
    BY <1>0, <2>1 DEF threads, LifeGoesOn, RegistryInv
  <2>4. request' = request
    BY <2>1 DEF Register, Unregister, GetNativeId, Answer
  <2> QED
    BY <1>0, <2>1, <2>2, <2>3, <2>4, RegistryOnly
<1>4. CASE CallbackReturns(t)
  <2>1. /\ at[t] = "java" /\ Return(t) /\ tid' = tid /\ UNCHANGED sets /\ UNCHANGED history /\ stray' = stray
        /\ (life' = life \/ life' = [life EXCEPT ![t] = IF @ = "starting" THEN "running" ELSE "dead"])
    BY <1>4 DEF CallbackReturns
  <2>2. exited' \in BOOLEAN
    BY <1>0, <1>4, Zenon DEF CallbackReturns
  <2>3. life[t] # "new"
    <3>1. outcome[t] # NoResult
      BY <2>1 DEF Return
    <3> QED
      BY <1>0, <3>1 DEF RegistryInv
  <2>4. /\ life' \in [Threads -> {"new", "starting", "running", "ending", "dead"}] /\ LifeGoesOn
    BY <1>0, <2>1, <2>3 DEF LifeGoesOn, RegistryInv
  <2>5. RegistryInv'
    BY <1>0, <2>1, <2>4, ReturnInv
  <2>6. \A u \in Threads : at[u] = "asked" => request'[u] = request[u]
    BY <1>0, <2>1 DEF Return, RegistryInv
  <2> QED
    BY <1>0, <2>1, <2>2, <2>4, <2>5, <2>6, RegistryOnly
<1> QED
  BY <1>1, <1>2, <1>3, <1>4 DEF ThreadLife

-----------------------------------------------------------------------------
(* The steps of measurement.c: thread t goes to p with the locals l.       *)
Moves(t, p, l) ==
  at' = [at EXCEPT ![t] = p] /\ loc' = [loc EXCEPT ![t] = l]

LEMMA MovesAlone ==
  ASSUME ConcurrentTypeOK, NEW t \in Threads, NEW p \in Places, NEW l \in Locals, Moves(t, p, l)
  PROVE  /\ at' \in [Threads -> Places] /\ loc' \in [Threads -> Locals]
         /\ at'[t] = p /\ loc'[t] = l
         /\ \A u \in Others(t) : at'[u] = at[u] /\ loc'[u] = loc[u]
BY DEF ConcurrentTypeOK, Moves, Places, Others

LEMMA LeavesMoves ==
  ASSUME NEW t \in Threads, Leaves(t)
  PROVE  Moves(t, "java", NoLocals)
BY DEF Leaves, Goes, Moves

LEMMA StaysPut ==
  ASSUME ConcurrentTypeOK, NEW t \in Threads, NEW p \in Places, Goes(t, p), loc' = loc
  PROVE  Moves(t, p, loc[t])
BY DEF ConcurrentTypeOK, Goes, Moves

LEMMA SameLife ==
  ASSUME RegistryInv, UNCHANGED threads
  PROVE  LifeGoesOn /\ life' = life /\ tid' = tid
BY DEF RegistryInv, LifeGoesOn, threads

LEMMA SameRegistry ==
  ASSUME RegistryInv, UNCHANGED threads, UNCHANGED vars
  PROVE  RegistryInv' /\ request' = request
BY DEF RegistryInv, threads, vars

LEMMA MovesTypes ==
  ASSUME ConcurrentTypeOK, NEW t \in Threads, NEW p \in Places, NEW l \in Locals, Moves(t, p, l),
         UNCHANGED threads, UNCHANGED process, raced' = 0,
         table' \in Seq(Slot), Len(table') <= MaxSets, block' \in Nat,
         DOMAIN table \subseteq DOMAIN table',
         snap' \in [Threads -> {"none", "current", "leaked", "freed"}],
         owns' \in [Threads -> SUBSET (DOMAIN table')],
         made' \in [Threads -> [1 .. MaxSets -> Record]],
         p \notin {"java", "scan", "grow", "publish"} => l.id \in DOMAIN table'
  PROVE  ConcurrentTypeOK'
<1>1. /\ life' \in [Threads -> {"new", "starting", "running", "ending", "dead"}]
      /\ tid' \in [Threads -> Natives]
  BY DEF ConcurrentTypeOK, threads
<1>2. exited' \in BOOLEAN /\ stray' \in BOOLEAN
  BY DEF ConcurrentTypeOK, process
<1>3. \A u \in Threads :
        at'[u] \notin {"java", "scan", "grow", "publish"} => loc'[u].id \in DOMAIN table'
  <2>1. /\ at'[t] = p /\ loc'[t] = l
        /\ \A u \in Others(t) : at'[u] = at[u] /\ loc'[u] = loc[u]
    BY MovesAlone
  <2>2. \A u \in Others(t) :
          at[u] \notin {"java", "scan", "grow", "publish"} => loc[u].id \in DOMAIN table
    BY DEF ConcurrentTypeOK, Others
  <2> QED
    BY <2>1, <2>2 DEF Others
<1> QED
  BY <1>1, <1>2, <1>3, MovesAlone DEF ConcurrentTypeOK, Places

(* What t sets up, or owns, is its own.                                    *)
LEMMA SetUpIsMine ==
  ASSUME Core, NEW t \in Threads, SettingUp(t)
  PROVE  /\ \A u \in Others(t) : ~SettingUp(u)
         /\ MineOnly(t, loc[t].id) /\ loc[t].id \notin owns[t]
BY DEF Core, OneSetsUp, Apart, MineOnly, Others

LEMMA OwnedIsMine ==
  ASSUME Core, NEW t \in Threads, NEW id \in owns[t]
  PROVE  MineOnly(t, id) /\ id \in DOMAIN table /\ OwnedOK(t, id) /\ table[id] \in Slot
<1>1. MineOnly(t, id)
  BY DEF Core, Apart, MineOnly, Others
<1>2. OwnedOK(t, id)
  BY DEF Core, ThreadOK
<1> QED
  BY <1>1, <1>2 DEF Core, ConcurrentTypeOK

(* Nobody writes to a buffer that another thread frees or fills anew.      *)
LEMMA NobodyElsewhere ==
  ASSUME Core, NEW t \in Threads, NEW id, MineOnly(t, id), at[t] # "write", NEW what,
         Elsewhere(id, what)
  PROVE  snap' = snap
<1>1. \A u \in Threads : ~(snap[u] = "current" /\ loc[u].id = id)
  <2>1. SUFFICES ASSUME NEW u \in Threads, snap[u] = "current" PROVE loc[u].id # id
    OBVIOUS
  <2>2. at[u] = "write" /\ loc[u].id \in owns[u]
    BY <2>1 DEF Core, ThreadOK, PlaceOK, MeasuredOK, Measuring
  <2> QED
    BY <2>2 DEF MineOnly, Others
<1> QED
  BY <1>1 DEF Elsewhere, Core, ConcurrentTypeOK

LEMMA JavaPlace ==
  ASSUME NEW t \in Threads, at'[t] = "java", snap'[t] = "none"
  PROVE  PlaceOK(t)'
BY DEF PlaceOK, CreatedOK, MeasuredOK, Measuring

LEMMA NoSnapshot ==
  ASSUME Core, NEW t \in Threads, ~Measuring(t)
  PROVE  snap[t] = "none"
BY DEF Core, ThreadOK, PlaceOK, Measuring

LEMMA NumbersOfSlots ==
  ASSUME NEW T \in Seq(Slot), Len(T) <= MaxSets, NEW id \in DOMAIN T
  PROVE  id \in 1 .. MaxSets
BY ConcurrentAssumption

(* A step of createEventSet at the slot id.                                *)
LEMMA SetupStep ==
  ASSUME Core, NEW t \in Threads, SettingUp(t),
         NEW id, MineOnly(t, id), id \notin owns[t],
         NEW p \in Places \ {"scan", "grow", "publish", "write", "advance"},
         NEW l \in Locals, Moves(t, p, l),
         p # "java" => l.id = id /\ id \in DOMAIN table',
         table' \in Seq(Slot), Len(table') <= MaxSets,
         DOMAIN table \subseteq DOMAIN table', DOMAIN table' \subseteq DOMAIN table \cup {id},
         \A j \in DOMAIN table : j # id => table'[j] = table[j],
         block' \in Nat,
         block' = block \/ \A u \in Others(t) : at[u] \notin {"fill", "finish", "write"},
         snap' = snap, raced' = 0,
         UNCHANGED threads, UNCHANGED process, RegistryInv',
         \A u \in Others(t) : request'[u] = request[u],
         \/ owns' = owns /\ made' = made
         \/ p = "java" /\ id \in DOMAIN table' /\ Given(t, id) /\ OwnedOK(t, id)',
         PlaceOK(t)'
  PROVE  Core'
<1>1. /\ ConcurrentTypeOK /\ LifeGoesOn /\ p \in Places
      /\ \A u \in Others(t) : ~SettingUp(u)
  BY SameLife, SetUpIsMine DEF Core
<1>2. /\ at'[t] = p /\ loc'[t] = l
      /\ \A u \in Others(t) : at'[u] = at[u] /\ loc'[u] = loc[u]
  BY <1>1, MovesAlone
<1>3. /\ owns \in [Threads -> SUBSET (DOMAIN table)]
      /\ owns' \in [Threads -> SUBSET (DOMAIN table')]
      /\ owns[t] \subseteq owns'[t] /\ owns'[t] \subseteq owns[t] \cup {id}
      /\ made' \in [Threads -> [1 .. MaxSets -> Record]]
      /\ \A j \in owns[t] : j # id => made'[t][j] = made[t][j]
      /\ \A u \in Others(t) : owns'[u] = owns[u] /\ made'[u] = made[u]
  <2>1. /\ owns \in [Threads -> SUBSET (DOMAIN table)]
        /\ made \in [Threads -> [1 .. MaxSets -> Record]]
    BY <1>1 DEF ConcurrentTypeOK
  <2>2. CASE owns' = owns /\ made' = made
    BY <2>1, <2>2
  <2>3. CASE id \in DOMAIN table' /\ Given(t, id)
    <3>1. owns' = [owns EXCEPT ![t] = owns[t] \cup {id}]
      BY <2>3 DEF Given
    <3>2. owns[t] \cup {id} \in SUBSET (DOMAIN table')
      BY <2>1, <2>3
    <3>3. id \in 1 .. MaxSets
      BY <2>3, NumbersOfSlots
    <3>4. PICK r \in Record : made' = [made EXCEPT ![t][id] = r]
      <4>1. loc[t].target \in Threads \cup {"none"}
        BY <1>1 DEF ConcurrentTypeOK, Locals
      <4>2. [NotMade EXCEPT !.target = IF table[id].papi THEN loc[t].target ELSE "none"] \in Record
        BY <4>1 DEF NotMade, Record
      <4> QED
        BY <2>3, <4>2 DEF Given
    <3>5. /\ made' \in [Threads -> [1 .. MaxSets -> Record]]
          /\ \A j \in 1 .. MaxSets : j # id => made'[t][j] = made[t][j]
          /\ \A u \in Others(t) : made'[u] = made[u]
      BY <2>1, <3>3, <3>4 DEF Others
    <3>6. \A j \in owns[t] : j \in 1 .. MaxSets
      BY <2>1, NumbersOfSlots
    <3> QED
      BY <2>1, <3>1, <3>2, <3>5, <3>6 DEF Others
  <2> QED
    BY <2>1, <2>2, <2>3
<1>4. ConcurrentTypeOK'
  <2>1. snap' \in [Threads -> {"none", "current", "leaked", "freed"}]
    BY <1>1 DEF ConcurrentTypeOK
  <2> QED
    BY <1>1, <1>3, <2>1, MovesTypes
<1>5. StepOf(t, id)
  BY <1>2, <1>3 DEF StepOf
<1>6. TableMayMove'
  <2>1. \A u \in Threads : at'[u] \notin {"scan", "grow", "publish"}
    BY <1>1, <1>2 DEF SettingUp, Measuring, Others
  <2> QED
    BY <2>1 DEF TableMayMove
<1>7. ThreadOK(t)'
  <2>1. SUFFICES ASSUME NEW j \in owns'[t] PROVE OwnedOK(t, j)'
    BY DEF ThreadOK
  <2>2. CASE j = id
    BY <1>3, <2>1, <2>2
  <2>3. CASE j # id
    <3>1. j \in owns[t] /\ j \in DOMAIN table /\ table'[j] = table[j] /\ made'[t][j] = made[t][j]
      BY <1>3, <2>1, <2>3
    <3>2. ~Busy(t, j)
      BY DEF Busy, SettingUp
    <3> QED
      BY <1>1, <3>1, <3>2, OwnedStays
  <2> QED
    BY <2>2, <2>3
<1>8. SettingUp(t)' => \A u \in Threads : loc'[t].id \notin owns'[u]
  <2>1. SUFFICES ASSUME p # "java", NEW u \in Threads PROVE id \notin owns'[u]
    BY <1>2 DEF SettingUp
  <2>2. owns' = owns
    BY <2>1
  <2> QED
    BY <2>2 DEF MineOnly, Others
<1>9. stray' = stray
  BY DEF process
<1> QED
  BY <1>1, <1>4, <1>5, <1>6, <1>7, <1>8, <1>9, StepInv

(* The arguments of createEventSet.                                        *)
LEMMA WithArguments ==
  ASSUME NEW c \in Int, NEW g \in Threads \cup {"none"}
  PROVE  LET l == [NoLocals EXCEPT !.count = c, !.target = g]
         IN  l \in Locals /\ l.id = 0 /\ l.count = c /\ l.target = g
BY ConstantTypes DEF Locals, NoLocals

(* A step before there is a slot: nothing but the place of t changes.      *)
LEMMA BeforeSlot ==
  ASSUME Core, NEW t \in Threads, NEW p \in {"scan", "grow", "publish"},
         NEW l \in Locals, Moves(t, p, l),
         l.id = 0, l.count \in Counts,
         life[t] # "new", \A u \in Others(t) : ~SettingUp(u), ~Measuring(t),
         FreeSlots # {} \/ \A u \in Others(t) : ~Measuring(u),
         p # "scan" => FreeSlots = {},
         p = "publish" => Len(table) < MaxSets,
         UNCHANGED <<vars, threads, table, block, snap, process, owns, made>>, raced' = 0
  PROVE  Core'
<1>1. /\ ConcurrentTypeOK /\ RegistryInv /\ p \in Places
      /\ table' = table /\ block' = block /\ owns' = owns /\ made' = made /\ snap' = snap
      /\ UNCHANGED process /\ UNCHANGED vars /\ UNCHANGED threads
  BY DEF Core, Places
<1>2. LifeGoesOn /\ RegistryInv' /\ request' = request /\ life' = life
  BY <1>1, SameLife, SameRegistry
<1>3. /\ at'[t] = p /\ loc'[t] = l
      /\ \A u \in Others(t) : at'[u] = at[u] /\ loc'[u] = loc[u]
  BY <1>1, MovesAlone
<1>4. /\ table \in Seq(Slot) /\ Len(table) <= MaxSets /\ block \in Nat /\ 0 \notin DOMAIN table
      /\ owns \in [Threads -> SUBSET (DOMAIN table)]
      /\ made \in [Threads -> [1 .. MaxSets -> Record]]
      /\ snap \in [Threads -> {"none", "current", "leaked", "freed"}]
  BY <1>1, NoSlotZero DEF ConcurrentTypeOK
<1>5. ConcurrentTypeOK'
  BY <1>1, <1>4, MovesTypes
<1>6. MineOnly(t, 0) /\ StepOf(t, 0)
  BY <1>1, <1>2, <1>3, <1>4 DEF MineOnly, StepOf, Others
<1>7. TableMayMove'
  <2>1. FreeSlots' = FreeSlots
    BY <1>1 DEF FreeSlots
  <2>2. \A u \in Others(t) : /\ at'[u] \notin {"scan", "grow", "publish"}
                             /\ Measuring(u)' = Measuring(u)
    BY <1>3 DEF SettingUp, Measuring
  <2> QED
    BY <1>1, <1>3, <2>1, <2>2 DEF TableMayMove, Others
<1>8. ThreadOK(t)'
  <2>1. PlaceOK(t)'
    BY <1>1, <1>2, <1>3, NoSnapshot DEF PlaceOK, CreatedOK, MeasuredOK, Measuring
  <2>2. \A j \in owns[t] : OwnedOK(t, j)'
    BY <1>1, <1>2, OwnedStays DEF Busy
  <2> QED
    BY <1>1, <2>1, <2>2 DEF ThreadOK
<1>9. \A u \in Threads : loc'[t].id \notin owns'[u]
  BY <1>1, <1>3, <1>4
<1>10. stray' = stray
  BY <1>1 DEF process
<1> QED
  BY <1>1, <1>2, <1>4, <1>5, <1>6, <1>7, <1>8, <1>9, <1>10, StepInv

LEMMA CreateInv ==
  ASSUME Core, NEW t \in Threads, NEW count \in Counts, NEW target \in Threads \cup {"none"},
         Create(t, count, target), raced' = 0
  PROVE  Core'
<1> DEFINE l == [NoLocals EXCEPT !.count = count, !.target = target]
<1>1. l \in Locals /\ l.id = 0 /\ l.count = count
  <2>1. count \in Int
    BY ConcurrentAssumption
  <2> QED
    BY <2>1, WithArguments
<1>2. Moves(t, "scan", l)
  BY DEF Create, Goes, Moves
<1> HIDE DEF l
<1>3. raced \in Nat
  BY DEF Core, ConcurrentTypeOK
<1>4. life[t] # "new" /\ ~Measuring(t) /\ MayCreate(t)
      /\ UNCHANGED <<vars, threads, table, block, snap, process, owns, made>>
  BY <1>3 DEF Create, InJava, Measuring, CountsRace
<1> QED
  BY <1>1, <1>2, <1>4, BeforeSlot DEF MayCreate

(* A thread that creates an event set, before it has a slot.               *)
LEMMA BeforeSlotOf ==
  ASSUME Core, NEW t \in Threads, at[t] \in {"scan", "grow", "publish"}
  PROVE  /\ SettingUp(t) /\ ~Measuring(t) /\ life[t] # "new"
         /\ loc[t].id = 0 /\ loc[t].count \in Counts /\ loc[t] \in Locals
         /\ \A u \in Others(t) : ~SettingUp(u)
         /\ FreeSlots # {} \/ \A u \in Others(t) : ~Measuring(u)
         /\ ConcurrentTypeOK /\ RegistryInv /\ table \in Seq(Slot) /\ block \in Nat
         /\ Len(table) <= MaxSets
<1>1. SettingUp(t) /\ ~Measuring(t)
  BY DEF SettingUp, Measuring
<1>2. PlaceOK(t)
  BY DEF Core, ThreadOK
<1>3. life[t] # "new" /\ loc[t].id = 0 /\ loc[t].count \in Counts
  BY <1>2 DEF PlaceOK, CreatedOK
<1> QED
  BY <1>1, <1>3, SetUpIsMine DEF Core, ConcurrentTypeOK, TableMayMove

LEMMA ScanInv ==
  ASSUME Core, NEW t \in Threads, Scan(t), raced' = 0
  PROVE  Core'
<1>1. /\ at[t] = "scan"
      /\ UNCHANGED <<vars, threads, table, block, snap, process, owns, made>>
  BY DEF Scan, Runs, history
<1>2. /\ SettingUp(t) /\ ~Measuring(t) /\ life[t] # "new"
      /\ loc[t].id = 0 /\ loc[t].count \in Counts /\ loc[t] \in Locals
      /\ \A u \in Others(t) : ~SettingUp(u)
      /\ FreeSlots # {} \/ \A u \in Others(t) : ~Measuring(u)
      /\ ConcurrentTypeOK /\ RegistryInv /\ table \in Seq(Slot) /\ block \in Nat
      /\ Len(table) <= MaxSets
  BY <1>1, BeforeSlotOf
<1>3. CASE FreeSlots = {}
  <2>1. Moves(t, "grow", loc[t])
    BY <1>2, <1>3, StaysPut DEF Scan, Places
  <2> QED
    BY <1>1, <1>2, <1>3, <2>1, BeforeSlot
<1>4. CASE FreeSlots # {}
  <2> DEFINE id == FirstOf(FreeSlots)
             l == [loc[t] EXCEPT !.id = id, !.block = block]
  <2>1. id \in DOMAIN table /\ ~table[id].valid
    BY <1>2, <1>4, FirstOfSlots DEF FreeSlots
  <2>2. Moves(t, "fill", l)
    BY <1>2, <1>4 DEF Scan, Goes, Moves, ConcurrentTypeOK
  <2> HIDE DEF id
  <2>3. l \in Locals /\ l.id = id /\ l.block = block /\ l.count = loc[t].count
    <3>1. id \in Nat /\ block \in Nat /\ loc[t] \in Locals
      BY <1>2, <2>1
    <3> QED
      BY <3>1 DEF Locals
  <2> HIDE DEF l
  <2>4. MineOnly(t, id) /\ id \notin owns[t]
    <3>1. \A u \in Threads : id \notin owns[u]
      BY <2>1 DEF Core, ThreadOK, OwnedOK
    <3> QED
      BY <1>2, <3>1 DEF MineOnly, Others
  <2>5. /\ RegistryInv' /\ request' = request /\ life' = life /\ at'[t] = "fill" /\ loc'[t] = l
        /\ table' = table /\ block' = block /\ owns' = owns /\ made' = made /\ snap' = snap
        /\ UNCHANGED process /\ UNCHANGED threads
    BY <1>1, <1>2, <2>2, <2>3, SameRegistry, SameLife, MovesAlone DEF Places
  <2>6. PlaceOK(t)'
    BY <1>2, <2>1, <2>3, <2>5, NoSnapshot DEF PlaceOK, CreatedOK, MeasuredOK, Measuring
  <2> QED
    BY <1>2, <2>1, <2>2, <2>3, <2>4, <2>5, <2>6, SetupStep DEF Places
<1> QED
  BY <1>3, <1>4

LEMMA GrowInv ==
  ASSUME Core, NEW t \in Threads, Grow(t), raced' = 0
  PROVE  Core'
<1> DEFINE l == [loc[t] EXCEPT !.block = block + 1]
<1>1. /\ at[t] = "grow" /\ Len(table) < MaxSets
      /\ UNCHANGED <<vars, threads, table, block, snap, process, owns, made>>
  BY DEF Grow, Runs, history
<1>2. /\ ~Measuring(t) /\ life[t] # "new"
      /\ loc[t].id = 0 /\ loc[t].count \in Counts /\ loc[t] \in Locals
      /\ \A u \in Others(t) : ~SettingUp(u)
      /\ FreeSlots # {} \/ \A u \in Others(t) : ~Measuring(u)
      /\ ConcurrentTypeOK /\ block \in Nat
  BY <1>1, BeforeSlotOf
<1>3. FreeSlots = {}
  BY <1>1 DEF Core, TableMayMove
<1>4. Moves(t, "publish", l)
  BY <1>2 DEF Grow, Goes, Moves, ConcurrentTypeOK
<1>5. l \in Locals /\ l.id = 0 /\ l.count = loc[t].count
  BY <1>2 DEF Locals
<1> HIDE DEF l
<1> QED
  BY <1>1, <1>2, <1>3, <1>4, <1>5, BeforeSlot

LEMMA PublishInv ==
  ASSUME Core, NEW t \in Threads, Publish(t), raced' = 0
  PROVE  Core'
<1> DEFINE id == Len(table) + 1
           b == loc[t].block
           l == [loc[t] EXCEPT !.id = id]
<1>1. at[t] = "publish"
  BY DEF Publish, Runs
<1>2. /\ SettingUp(t) /\ ~Measuring(t) /\ life[t] # "new"
      /\ loc[t].count \in Counts /\ loc[t] \in Locals
      /\ \A u \in Others(t) : ~SettingUp(u)
      /\ FreeSlots # {} \/ \A u \in Others(t) : ~Measuring(u)
      /\ ConcurrentTypeOK /\ RegistryInv /\ table \in Seq(Slot) /\ block \in Nat
  BY <1>1, BeforeSlotOf
<1>3. FreeSlots = {} /\ Len(table) < MaxSets
  BY <1>1 DEF Core, TableMayMove
<1>4. /\ table' = Append(table, NoSet) /\ block' = b /\ owns' = owns /\ made' = made /\ snap' = snap
      /\ UNCHANGED process /\ UNCHANGED threads /\ UNCHANGED vars /\ b \in Nat
  BY <1>2 DEF Publish, history, Locals
<1>5. Moves(t, "fill", l)
  BY <1>2 DEF Publish, Goes, Moves, ConcurrentTypeOK
<1>6. /\ table' \in Seq(Slot) /\ DOMAIN table' = DOMAIN table \cup {id}
      /\ table'[id] = NoSet /\ id \in Nat /\ id \notin DOMAIN table
      /\ Len(table') <= MaxSets
      /\ \A j \in DOMAIN table : table'[j] = table[j]
  BY <1>2, <1>3, <1>4, AddSlot, ConstantTypes, ConcurrentAssumption
<1> HIDE DEF id
<1>7. l \in Locals /\ l.id = id /\ l.block = b /\ l.count = loc[t].count
  BY <1>2, <1>6 DEF Locals
<1> HIDE DEF b, l
<1>8. MineOnly(t, id) /\ id \notin owns[t]
  BY <1>2, <1>6 DEF MineOnly, ConcurrentTypeOK, Others
<1>9. \A u \in Others(t) : at[u] \notin {"fill", "finish", "write"}
  BY <1>2, <1>3 DEF Measuring, SettingUp
<1>10. RegistryInv' /\ request' = request /\ life' = life /\ at'[t] = "fill" /\ loc'[t] = l
  BY <1>2, <1>4, <1>5, <1>7, SameRegistry, SameLife, MovesAlone DEF Places
<1>11. ~table'[id].valid
  BY <1>6 DEF NoSet
<1>12. PlaceOK(t)'
  BY <1>2, <1>4, <1>7, <1>10, <1>11, NoSnapshot DEF PlaceOK, CreatedOK, MeasuredOK, Measuring
<1> QED
  BY <1>2, <1>4, <1>5, <1>6, <1>7, <1>8, <1>9, <1>10, <1>12, SetupStep DEF Places

(* The buffer of a slot is freed.                                          *)
Freed(s) == [s EXCEPT !.valid = FALSE, !.data = <<>>, !.data_index = 0, !.attached = Invalid]

LEMMA FreedSlot ==
  ASSUME NEW T \in Seq(Slot), NEW id \in DOMAIN T
  PROVE  /\ Freed(T[id]) \in Slot /\ ~Freed(T[id]).valid
         /\ [T EXCEPT ![id].valid = FALSE, ![id].data = <<>>,
                      ![id].data_index = 0, ![id].attached = Invalid]
              = [T EXCEPT ![id] = Freed(T[id])]
<1>1. T[id] \in Slot /\ <<>> \in Seq(Cell) /\ Invalid \in Natives
  BY ConstantTypes
<1> QED
  BY <1>1 DEF Slot, Freed

LEMMA FreeFrees ==
  ASSUME table \in Seq(Slot), NEW id \in DOMAIN table, Free(id, FALSE)
  PROVE  table' = [table EXCEPT ![id] = Freed(table[id])]
<1>1. table' = [table EXCEPT ![id].valid = FALSE, ![id].data = <<>>,
                             ![id].data_index = 0, ![id].attached = Invalid]
  BY Zenon DEF Free
<1> QED
  BY <1>1, FreedSlot, Zenon

(* The slot is given up, or there was none yet.                            *)
LEMMA GivesUp ==
  ASSUME Core, NEW t \in Threads, SettingUp(t), Leaves(t),
         \/ table' = table /\ snap' = snap
         \/ at[t] \notin {"scan", "grow", "publish"} /\ Free(loc[t].id, FALSE),
         block' = block, owns' = owns, made' = made, raced' = 0,
         UNCHANGED process, UNCHANGED threads, RegistryInv',
         \A u \in Others(t) : request'[u] = request[u]
  PROVE  Core'
<1>0. PICK id : id = loc[t].id
  OBVIOUS
<1>1. /\ ConcurrentTypeOK /\ table \in Seq(Slot) /\ Len(table) <= MaxSets /\ block \in Nat
      /\ at[t] # "write" /\ ~Measuring(t)
  BY DEF Core, ConcurrentTypeOK, SettingUp, Measuring
<1>2. Moves(t, "java", NoLocals) /\ NoLocals \in Locals
  BY LeavesMoves, ConstantTypes
<1>3. MineOnly(t, id) /\ id \notin owns[t]
  BY <1>0, SetUpIsMine
<1>4. /\ table' \in Seq(Slot) /\ DOMAIN table' = DOMAIN table /\ Len(table') <= MaxSets
      /\ \A j \in DOMAIN table : j # id => table'[j] = table[j]
      /\ snap' = snap
  <2>1. CASE table' = table /\ snap' = snap
    BY <1>1, <2>1
  <2>2. CASE at[t] \notin {"scan", "grow", "publish"} /\ Free(id, FALSE)
    <3>1. id \in DOMAIN table
      BY <1>0, <1>1, <2>2 DEF ConcurrentTypeOK, SettingUp
    <3>2. Freed(table[id]) \in Slot /\ table' = [table EXCEPT ![id] = Freed(table[id])]
      BY <1>1, <2>2, <3>1, FreedSlot, FreeFrees
    <3>3. snap' = snap
      BY <1>1, <1>3, <2>2, NobodyElsewhere DEF Free
    <3> QED
      BY <1>1, <3>1, <3>2, <3>3, ReplaceSlot
  <2> QED
    BY <1>0, <2>1, <2>2
<1>5. PlaceOK(t)'
  <2>1. snap'[t] = "none"
    BY <1>1, <1>4, NoSnapshot
  <2> QED
    BY <1>1, <1>2, <2>1, MovesAlone, JavaPlace DEF Places
<1> QED
  BY <1>1, <1>2, <1>3, <1>4, <1>5, SetupStep DEF Places

LEMMA CreateFailsInv ==
  ASSUME Core, NEW t \in Threads, CreateFails(t), raced' = 0
  PROVE  Core'
<1>1. RegistryInv' /\ request' = request
  BY SameRegistry DEF Core, CreateFails
<1>2. SettingUp(t)
  BY DEF CreateFails, Runs, SettingUp, Measuring
<1> QED
  BY <1>1, <1>2, GivesUp DEF CreateFails, history

(* The slot that t sets up.                                                *)
LEMMA SlotOf ==
  ASSUME Core, NEW t \in Threads, at[t] \in {"fill", "finish", "lookup", "asked", "attach"}
  PROVE  /\ SettingUp(t) /\ ~Measuring(t) /\ snap[t] = "none"
         /\ MineOnly(t, loc[t].id) /\ loc[t].id \notin owns[t]
         /\ loc[t].id \in DOMAIN table /\ table[loc[t].id] \in Slot
         /\ loc[t] \in Locals /\ loc[t].count \in Counts
         /\ CreatedOK(t, table[loc[t].id]) /\ life[t] # "new"
         /\ ConcurrentTypeOK /\ RegistryInv /\ table \in Seq(Slot) /\ Len(table) <= MaxSets
         /\ block \in Nat
<1>1. /\ ConcurrentTypeOK /\ RegistryInv /\ table \in Seq(Slot) /\ block \in Nat
      /\ Len(table) <= MaxSets
  BY DEF Core, ConcurrentTypeOK
<1>2. loc[t].id \in DOMAIN table /\ loc[t] \in Locals
  BY <1>1 DEF ConcurrentTypeOK
<1>3. PlaceOK(t)
  BY DEF Core, ThreadOK
<1>4. CreatedOK(t, table[loc[t].id]) /\ life[t] # "new" /\ snap[t] = "none"
  BY <1>3 DEF PlaceOK
<1>5. loc[t].count \in Counts
  BY <1>4 DEF CreatedOK
<1>6. SettingUp(t) /\ ~Measuring(t)
  BY DEF SettingUp, Measuring
<1> QED
  BY <1>1, <1>2, <1>4, <1>5, <1>6, SetUpIsMine

LEMMA CreateFailsFreeingInv ==
  ASSUME Core, NEW t \in Threads, CreateFailsFreeing(t), raced' = 0
  PROVE  Core'
<1>1. /\ at[t] = "finish" /\ Leaves(t) /\ Free(loc[t].id, table[loc[t].id].valid)
      /\ UNCHANGED <<vars, threads, block, process, owns, made>>
  BY DEF CreateFailsFreeing, Runs, history
<1>2. SettingUp(t) /\ CreatedOK(t, table[loc[t].id]) /\ table[loc[t].id] \in Slot
  BY <1>1, SlotOf
<1>3. table[loc[t].id].valid = FALSE
  <2>1. table[loc[t].id].valid \in BOOLEAN
    BY <1>2 DEF Slot
  <2>2. ~table[loc[t].id].valid
    BY <1>1, <1>2 DEF CreatedOK
  <2> QED
    BY <2>1, <2>2, Zenon
<1>4. Free(loc[t].id, FALSE)
  BY <1>1, <1>3, Zenon
<1>5. RegistryInv' /\ request' = request
  BY <1>1, SameRegistry DEF Core
<1> QED
  BY <1>1, <1>2, <1>4, <1>5, GivesUp

LEMMA PapiRefusesInv ==
  ASSUME Core, NEW t \in Threads, PapiRefuses(t), raced' = 0
  PROVE  Core'
<1>1. /\ at[t] = "attach" /\ Leaves(t) /\ Destroys(loc[t].id)
      /\ UNCHANGED <<vars, threads, block, process, owns, made>>
  BY DEF PapiRefuses, Runs, history
<1>2. SettingUp(t)
  BY <1>1, SlotOf
<1>3. RegistryInv' /\ request' = request
  BY <1>1, SameRegistry DEF Core
<1> QED
  BY <1>1, <1>2, <1>3, GivesUp DEF Destroys

(* What Fill writes into a free slot.                                      *)
Filled(size, papi) ==
  [NoSet EXCEPT !.valid = FALSE, !.data = [i \in 1 .. size |-> Zero], !.data_size = size,
                !.papi = papi]

LEMMA FilledSlot ==
  ASSUME NEW c \in Counts, Doubled(c) > 0, NEW papi \in BOOLEAN
  PROVE  LET s == Filled(Doubled(c), papi)
         IN  /\ s \in Slot /\ ~s.valid /\ s.papi = papi
             /\ Whole(s) /\ s.data_index = 0 /\ s.data_size = Wanted(c)
<1> DEFINE d == Doubled(c)
           x == [i \in 1 .. d |-> Zero]
           s == Filled(d, papi)
<1>1. d \in Nat /\ d > 0 /\ d % 2 = 0 /\ d = Wanted(c)
  BY DoubledWanted
<1> HIDE DEF d
<1>2. x \in Seq(Cell) /\ Len(x) = d
  <2>1. Zero \in Cell
    BY DEF Zero, Cell
  <2>2. x \in [1 .. d -> Cell]
    BY <2>1
  <2> QED
    BY <1>1, <2>2
<1>3. s = [NoSet EXCEPT !.valid = FALSE, !.data = x, !.data_size = d, !.papi = papi]
  BY DEF Filled
<1> HIDE DEF x, s
<1>4. /\ s \in Slot /\ ~s.valid /\ s.data = x /\ s.data_size = d /\ s.papi = papi
      /\ s.data_index = 0
  BY <1>1, <1>2, <1>3, ConstantTypes DEF NoSet, Slot
<1>5. Whole(s)
  BY <1>1, <1>2, <1>4 DEF Whole
<1> QED
  BY <1>1, <1>4, <1>5 DEF s, d

LEMMA FillInv ==
  ASSUME Core, NEW t \in Threads, NEW papi \in BOOLEAN, Fill(t, papi), raced' = 0
  PROVE  Core'
<1>0. PICK id, c : id = loc[t].id /\ c = loc[t].count
  OBVIOUS
<1> DEFINE s == Filled(Doubled(c), papi)
<1>1. at[t] = "fill"
  BY DEF Fill, Runs
<1>2. /\ SettingUp(t) /\ ~Measuring(t) /\ snap[t] = "none"
      /\ MineOnly(t, id) /\ id \notin owns[t] /\ id \in DOMAIN table /\ table[id] \in Slot
      /\ loc[t] \in Locals /\ c \in Counts /\ CreatedOK(t, table[id]) /\ life[t] # "new"
      /\ ConcurrentTypeOK /\ RegistryInv /\ table \in Seq(Slot) /\ Len(table) <= MaxSets
      /\ block \in Nat
  BY <1>0, <1>1, SlotOf
<1>3. table[id].valid = FALSE /\ loc[t].block = block
  <2>1. table[id].valid \in BOOLEAN
    BY <1>2 DEF Slot
  <2>2. ~table[id].valid /\ loc[t].block = block
    BY <1>1, <1>2 DEF CreatedOK
  <2> QED
    BY <2>1, <2>2, Zenon
<1>4. /\ Doubled(c) > 0 /\ Goes(t, "finish") /\ Elsewhere(id, "leaked")
      /\ loc' = loc /\ block' = block /\ owns' = owns /\ made' = made
      /\ UNCHANGED process /\ UNCHANGED vars /\ UNCHANGED threads
      /\ table' = [table EXCEPT ![id] =
           [NoSet EXCEPT !.valid = table[id].valid,
                         !.data = [i \in 1 .. Doubled(c) |-> Zero], !.data_size = Doubled(c),
                         !.papi = papi]]
  BY <1>0 DEF Fill, history
<1>5. table' = [table EXCEPT ![id] = s]
  BY <1>3, <1>4, Zenon DEF Filled
<1>6. /\ s \in Slot /\ ~s.valid /\ Whole(s) /\ s.data_index = 0 /\ s.data_size = Wanted(c)
  BY <1>2, <1>4, FilledSlot
<1> HIDE DEF s
<1>7. snap' = snap
  BY <1>1, <1>2, <1>4, NobodyElsewhere
<1>8. Moves(t, "finish", loc[t])
  BY <1>2, <1>4, StaysPut DEF Places
<1>9. /\ table' \in Seq(Slot) /\ DOMAIN table' = DOMAIN table /\ table'[id] = s
      /\ Len(table') <= MaxSets
      /\ \A j \in DOMAIN table : j # id => table'[j] = table[j]
  BY <1>2, <1>5, <1>6, ReplaceSlot
<1>10. RegistryInv' /\ request' = request /\ life' = life /\ at'[t] = "finish" /\ loc'[t] = loc[t]
  BY <1>2, <1>4, <1>8, SameRegistry, SameLife, MovesAlone DEF Places
<1>11. PlaceOK(t)'
  <2>1. CreatedOK(t, table[loc[t].id])'
    BY <1>0, <1>2, <1>3, <1>4, <1>6, <1>9, <1>10 DEF CreatedOK, Whole, Wanted
  <2> QED
    BY <1>2, <1>7, <1>10, <2>1 DEF PlaceOK, MeasuredOK, Measuring
<1> QED
  BY <1>0, <1>2, <1>4, <1>7, <1>8, <1>9, <1>10, <1>11, SetupStep DEF Places

(* A slot that becomes valid, or attached.                                 *)
LEMMA ValidSlot ==
  ASSUME NEW s \in Slot, NEW r, r = [s EXCEPT !.valid = TRUE]
  PROVE  /\ r \in Slot /\ r.valid /\ r.papi = s.papi /\ r.data_size = s.data_size
         /\ r.data_index = s.data_index /\ (Whole(s) => Whole(r))
<1>1. /\ r \in Slot /\ r.valid /\ r.papi = s.papi /\ r.data_size = s.data_size
      /\ r.data_index = s.data_index /\ r.data = s.data
  BY DEF Slot
<1> QED
  BY <1>1 DEF Whole

LEMMA AttachedSlot ==
  ASSUME NEW s \in Slot, NEW n \in Natives, NEW r, r = [s EXCEPT !.attached = n]
  PROVE  /\ r \in Slot /\ (s.valid => r.valid) /\ r.attached = n
         /\ r.data_size = s.data_size /\ r.data_index = s.data_index /\ (Whole(s) => Whole(r))
<1>1. /\ r \in Slot /\ r.data_size = s.data_size /\ r.attached = n
      /\ r.data_index = s.data_index /\ r.data = s.data
  BY DEF Slot
<1>2. s.valid => r.valid
  BY DEF Slot
<1> QED
  BY <1>1, <1>2 DEF Whole

(* What Given records.                                                     *)
LEMMA GivenIsMade ==
  ASSUME ConcurrentTypeOK, NEW t \in Threads, NEW id \in DOMAIN table, Given(t, id)
  PROVE  /\ made'[t][id].target = (IF table[id].papi THEN loc[t].target ELSE "none")
         /\ made'[t][id].calls = 0
<1> DEFINE g == IF table[id].papi THEN loc[t].target ELSE "none"
           r == [NotMade EXCEPT !.target = g]
<1>1. r.target = g /\ r.calls = 0
  BY DEF NotMade
<1>2. id \in 1 .. MaxSets /\ made \in [Threads -> [1 .. MaxSets -> Record]]
  BY NumbersOfSlots DEF ConcurrentTypeOK
<1>3. made' = [made EXCEPT ![t][id] = r]
  BY DEF Given
<1> HIDE DEF g, r
<1>4. made'[t][id] = r
  BY <1>2, <1>3
<1> QED
  BY <1>1, <1>4 DEF g

LEMMA NewIsOwned ==
  ASSUME NEW s \in Slot, Whole(s), s.data_index = 0, NEW t
  PROVE  Written(s, t) /\ Complete(s, 0)
BY DEF Whole, Written, Complete, Held, Slot

LEMMA FinishInv ==
  ASSUME Core, NEW t \in Threads, Finish(t), raced' = 0
  PROVE  Core'
<1>0. PICK id : id = loc[t].id
  OBVIOUS
<1> DEFINE s == [table[id] EXCEPT !.valid = TRUE]
           asks == table[id].papi /\ loc[t].target # "none"
<1>1. at[t] = "finish"
  BY DEF Finish, Runs
<1>2. /\ SettingUp(t) /\ ~Measuring(t) /\ snap[t] = "none"
      /\ MineOnly(t, id) /\ id \notin owns[t] /\ id \in DOMAIN table /\ table[id] \in Slot
      /\ loc[t] \in Locals /\ loc[t].count \in Counts /\ CreatedOK(t, table[id]) /\ life[t] # "new"
      /\ ConcurrentTypeOK /\ RegistryInv /\ table \in Seq(Slot) /\ Len(table) <= MaxSets
      /\ block \in Nat
  BY <1>0, <1>1, SlotOf
<1>3. /\ block' = block /\ snap' = snap /\ UNCHANGED process /\ UNCHANGED vars /\ UNCHANGED threads
      /\ table' = [table EXCEPT ![id] = s]
      /\ IF asks THEN Goes(t, "lookup") /\ loc' = loc /\ owns' = owns /\ made' = made
         ELSE Leaves(t) /\ Given(t, id)
  BY <1>0, <1>2 DEF Finish
<1>4. /\ Whole(table[id]) /\ table[id].data_index = 0
      /\ table[id].data_size = Wanted(loc[t].count)
  BY <1>1, <1>2 DEF CreatedOK
<1>5. /\ s \in Slot /\ s.valid /\ Whole(s) /\ s.papi = table[id].papi /\ s.data_index = 0
      /\ s.data_size = Wanted(loc[t].count)
  BY <1>2, <1>4, ValidSlot
<1> HIDE DEF s
<1>6. /\ table' \in Seq(Slot) /\ DOMAIN table' = DOMAIN table /\ table'[id] = s
      /\ Len(table') <= MaxSets
      /\ \A j \in DOMAIN table : j # id => table'[j] = table[j]
  BY <1>2, <1>3, <1>5, ReplaceSlot
<1>7. RegistryInv' /\ request' = request /\ life' = life
  BY <1>2, <1>3, SameRegistry, SameLife
<1>8. CASE asks
  <2>1. Moves(t, "lookup", loc[t]) /\ owns' = owns /\ made' = made
    BY <1>2, <1>3, <1>8, StaysPut DEF Places
  <2>2. at'[t] = "lookup" /\ loc'[t] = loc[t]
    BY <1>2, <2>1, MovesAlone DEF Places
  <2>3. s.papi /\ loc[t].target # "none"
    BY <1>5, <1>8
  <2>4. CreatedOK(t, table[loc[t].id])'
    BY <1>0, <1>2, <1>5, <1>6, <2>2, <2>3 DEF CreatedOK, Whole, Wanted
  <2>5. PlaceOK(t)'
    BY <1>2, <1>3, <1>7, <2>2, <2>4 DEF PlaceOK, MeasuredOK, Measuring
  <2> QED
    BY <1>0, <1>2, <1>3, <1>6, <1>7, <2>1, <2>5, SetupStep DEF Places
<1>9. CASE ~asks
  <2>1. Moves(t, "java", NoLocals) /\ NoLocals \in Locals /\ Given(t, id)
    BY <1>3, <1>9, LeavesMoves, ConstantTypes
  <2>2. at'[t] = "java"
    BY <1>2, <2>1, MovesAlone DEF Places
  <2>3. PlaceOK(t)'
    BY <1>2, <1>3, <2>2, JavaPlace
  <2>4. OwnedOK(t, id)'
    <3>1. Written(s, t) /\ Complete(s, 0)
      BY <1>5, NewIsOwned
    <3>2. made'[t][id].target = "none" /\ made'[t][id].calls = 0
      BY <1>2, <1>9, <2>1, GivenIsMade
    <3>3. ~Busy(t, id)'
      BY <2>2 DEF Busy, Measuring
    <3> QED
      BY <1>5, <1>6, <3>1, <3>2, <3>3 DEF OwnedOK, Written, Complete, Attached, Whole, Held
  <2> QED
    BY <1>2, <1>3, <1>6, <1>7, <2>1, <2>3, <2>4, SetupStep DEF Places
<1> QED
  BY <1>8, <1>9

LEMMA LookUpInv ==
  ASSUME Core, NEW t \in Threads, LookUp(t), raced' = 0
  PROVE  Core'
<1>0. PICK id : id = loc[t].id
  OBVIOUS
<1> DEFINE r == [op |-> "get", java |-> loc[t].target, native |-> Invalid]
<1>1. at[t] = "lookup"
  BY DEF LookUp, Runs
<1>2. /\ SettingUp(t) /\ snap[t] = "none"
      /\ MineOnly(t, id) /\ id \notin owns[t] /\ id \in DOMAIN table /\ table[id] \in Slot
      /\ loc[t] \in Locals /\ CreatedOK(t, table[id]) /\ life[t] # "new"
      /\ ConcurrentTypeOK /\ RegistryInv /\ table \in Seq(Slot) /\ Len(table) <= MaxSets
      /\ block \in Nat
  BY <1>0, <1>1, SlotOf
<1>3. /\ block' = block /\ snap' = snap /\ UNCHANGED process /\ UNCHANGED threads
      /\ table' = table /\ owns' = owns /\ made' = made
      /\ loc' = loc /\ Goes(t, "asked") /\ Ask(t, r)
  BY DEF LookUp, history
<1>4. r \in RequestType /\ r.op = "get" /\ r.java = loc[t].target
  BY <1>2, ConstantTypes DEF RequestType, Locals
<1> HIDE DEF r
<1>5. LifeGoesOn /\ life' = life
  BY <1>2, <1>3, SameLife
<1>6. RegistryInv'
  BY <1>2, <1>3, <1>4, <1>5, AskInv
<1>7. request'[t] = r /\ \A u \in Others(t) : request'[u] = request[u]
  BY <1>2, <1>3 DEF Ask, RegistryInv, Others
<1>8. Moves(t, "asked", loc[t])
  BY <1>2, <1>3, StaysPut DEF Places
<1>9. at'[t] = "asked" /\ loc'[t] = loc[t]
  BY <1>2, <1>8, MovesAlone DEF Places
<1>10. PlaceOK(t)'
  <2>1. CreatedOK(t, table[loc[t].id])'
    BY <1>0, <1>1, <1>2, <1>3, <1>4, <1>7, <1>9 DEF CreatedOK, Whole, Wanted
  <2> QED
    BY <1>2, <1>3, <1>5, <1>9, <2>1 DEF PlaceOK, MeasuredOK, Measuring
<1> QED
  BY <1>0, <1>2, <1>3, <1>6, <1>7, <1>8, <1>10, SetupStep DEF Places

LEMMA LookedUpInv ==
  ASSUME Core, NEW t \in Threads, LookedUp(t), raced' = 0
  PROVE  Core'
<1>0. PICK id : id = loc[t].id
  OBVIOUS
<1> DEFINE l == [loc[t] EXCEPT !.native = outcome[t].native]
<1>1. at[t] = "asked"
  BY DEF LookedUp, Runs
<1>2. /\ SettingUp(t) /\ snap[t] = "none"
      /\ MineOnly(t, id) /\ id \notin owns[t] /\ id \in DOMAIN table /\ table[id] \in Slot
      /\ loc[t] \in Locals /\ CreatedOK(t, table[id]) /\ life[t] # "new"
      /\ ConcurrentTypeOK /\ RegistryInv /\ table \in Seq(Slot) /\ Len(table) <= MaxSets
      /\ block \in Nat
  BY <1>0, <1>1, SlotOf
<1>3. /\ block' = block /\ UNCHANGED process /\ UNCHANGED threads
      /\ owns' = owns /\ made' = made /\ Return(t)
      /\ IF outcome[t] = NotRegistered THEN Leaves(t) /\ Destroys(loc[t].id)
         ELSE /\ Goes(t, "attach") /\ table' = table /\ snap' = snap
              /\ loc' = [loc EXCEPT ![t].native = outcome[t].native]
  BY DEF LookedUp, history
<1>4. LifeGoesOn /\ life' = life /\ tid' = tid
  BY <1>2, <1>3, SameLife
<1>5. RegistryInv'
  BY <1>2, <1>3, <1>4, ReturnInv
<1>6. \A u \in Others(t) : request'[u] = request[u]
  BY <1>2, <1>3 DEF Return, RegistryInv, Others
<1>7. CASE outcome[t] = NotRegistered
  BY <1>1, <1>2, <1>3, <1>5, <1>6, <1>7, GivesUp DEF Destroys
<1>8. CASE outcome[t] # NotRegistered
  <2>1. outcome[t] \in ResultType /\ outcome[t] # NoResult /\ request[t].op = "get"
    BY <1>1, <1>2, <1>3 DEF RegistryInv, Return, CreatedOK
  <2>2. outcome[t].rc = "ok"
    BY <1>2, <2>1 DEF RegistryInv
  <2>3. outcome[t].native # Invalid /\ outcome[t].native \in Natives
    BY <1>8, <2>1, <2>2 DEF ResultType, NotRegistered
  <2>4. /\ loc[t].target \in Threads
        /\ life[loc[t].target] # "new" /\ outcome[t].native = tid[loc[t].target]
    BY <1>1, <1>2, <2>1, <2>3 DEF RegistryInv, CreatedOK
  <2>5. Moves(t, "attach", l) /\ table' = table /\ snap' = snap
    BY <1>2, <1>3, <1>8 DEF Goes, Moves, ConcurrentTypeOK
  <2>6. /\ l \in Locals /\ l.id = id /\ l.target = loc[t].target /\ l.count = loc[t].count
        /\ l.native = outcome[t].native
    BY <1>0, <1>2, <2>3 DEF Locals
  <2> HIDE DEF l
  <2>7. at'[t] = "attach" /\ loc'[t] = l
    BY <1>2, <2>5, <2>6, MovesAlone DEF Places
  <2>8. PlaceOK(t)'
    <3>1. CreatedOK(t, table[loc[t].id])'
      BY <1>1, <1>2, <1>4, <2>4, <2>5, <2>6, <2>7 DEF CreatedOK, Whole, Wanted
    <3> QED
      BY <1>2, <1>4, <2>5, <2>7, <3>1 DEF PlaceOK, MeasuredOK, Measuring
  <2> QED
    BY <1>2, <1>3, <1>5, <1>6, <2>5, <2>6, <2>8, SetupStep DEF Places
<1> QED
  BY <1>7, <1>8

LEMMA PapiAttachesInv ==
  ASSUME Core, NEW t \in Threads, PapiAttaches(t), raced' = 0
  PROVE  Core'
<1>0. PICK id : id = loc[t].id
  OBVIOUS
<1> DEFINE s == [table[id] EXCEPT !.attached = loc[t].native]
<1>1. at[t] = "attach"
  BY DEF PapiAttaches, Runs
<1>2. /\ SettingUp(t) /\ snap[t] = "none"
      /\ MineOnly(t, id) /\ id \notin owns[t] /\ id \in DOMAIN table /\ table[id] \in Slot
      /\ loc[t] \in Locals /\ CreatedOK(t, table[id]) /\ life[t] # "new"
      /\ ConcurrentTypeOK /\ RegistryInv /\ table \in Seq(Slot) /\ Len(table) <= MaxSets
      /\ block \in Nat
  BY <1>0, <1>1, SlotOf
<1>3. /\ block' = block /\ snap' = snap /\ UNCHANGED process /\ UNCHANGED vars /\ UNCHANGED threads
      /\ table' = [table EXCEPT ![id] = s] /\ Leaves(t) /\ Given(t, id)
  BY <1>0, <1>2 DEF PapiAttaches
<1>4. /\ Whole(table[id]) /\ table[id].data_index = 0 /\ table[id].valid /\ table[id].papi
      /\ loc[t].native \in Natives
      /\ life[loc[t].target] # "new" /\ loc[t].native = tid[loc[t].target]
  BY <1>1, <1>2 DEF CreatedOK, Locals
<1>5. s \in Slot /\ s.valid /\ Whole(s) /\ s.data_index = 0 /\ s.attached = loc[t].native
  BY <1>2, <1>4, AttachedSlot
<1> HIDE DEF s
<1>6. /\ table' \in Seq(Slot) /\ DOMAIN table' = DOMAIN table /\ table'[id] = s
      /\ Len(table') <= MaxSets
      /\ \A j \in DOMAIN table : j # id => table'[j] = table[j]
  BY <1>2, <1>3, <1>5, ReplaceSlot
<1>7. RegistryInv' /\ request' = request /\ life' = life /\ tid' = tid
  BY <1>2, <1>3, SameRegistry, SameLife
<1>8. Moves(t, "java", NoLocals) /\ NoLocals \in Locals
  BY <1>3, LeavesMoves, ConstantTypes
<1>9. at'[t] = "java"
  BY <1>2, <1>8, MovesAlone DEF Places
<1>10. PlaceOK(t)'
  BY <1>2, <1>3, <1>9, JavaPlace
<1>11. OwnedOK(t, id)'
  <2>1. Written(s, t) /\ Complete(s, 0)
    BY <1>5, NewIsOwned
  <2>2. made'[t][id].target = loc[t].target /\ made'[t][id].calls = 0
    BY <1>2, <1>3, <1>4, GivenIsMade
  <2>3. ~Busy(t, id)'
    BY <1>9 DEF Busy, Measuring
  <2> QED
    BY <1>4, <1>5, <1>6, <1>7, <2>1, <2>2, <2>3
       DEF OwnedOK, Written, Complete, Attached, Whole, Held
<1> QED
  BY <1>2, <1>3, <1>6, <1>7, <1>8, <1>10, <1>11, SetupStep DEF Places

-----------------------------------------------------------------------------
(* start and stop: a step at an event set of t, whose slot becomes s, whose*)
(* snapshot pointer becomes x and which made k calls.                      *)
LEMMA UseStep ==
  ASSUME Core, NEW t \in Threads, NEW id \in owns[t], ~SettingUp(t),
         Measuring(t) => loc[t].id = id,
         NEW p \in {"java", "write", "advance"}, NEW l \in Locals, Moves(t, p, l),
         p # "java" => l.id = id /\ (Measuring(t) \/ MayMeasure(t)),
         NEW s \in Slot, table' = [table EXCEPT ![id] = s], s.valid,
         NEW x \in {"none", "current"}, snap' = [snap EXCEPT ![t] = x],
         NEW k \in Nat, made' = [made EXCEPT ![t][id].calls = k],
         UNCHANGED <<vars, threads, block, owns, process>>, raced' = 0,
         PlaceOK(t)', OwnedOK(t, id)'
  PROVE  Core'
<1>1. /\ ConcurrentTypeOK /\ RegistryInv /\ p \in Places
      /\ block' = block /\ owns' = owns /\ UNCHANGED process
      /\ UNCHANGED vars /\ UNCHANGED threads
  BY DEF Core, Places
<1>2. LifeGoesOn /\ RegistryInv' /\ request' = request
  BY <1>1, SameLife, SameRegistry
<1>3. /\ at'[t] = p /\ loc'[t] = l
      /\ \A u \in Others(t) : at'[u] = at[u] /\ loc'[u] = loc[u]
  BY <1>1, MovesAlone
<1>4. /\ MineOnly(t, id) /\ id \in DOMAIN table /\ table[id].valid
      /\ table \in Seq(Slot) /\ Len(table) <= MaxSets /\ block \in Nat
      /\ owns \in [Threads -> SUBSET (DOMAIN table)]
      /\ made \in [Threads -> [1 .. MaxSets -> Record]]
      /\ snap \in [Threads -> {"none", "current", "leaked", "freed"}]
      /\ id \in 1 .. MaxSets
  BY <1>1, OwnedIsMine, NumbersOfSlots DEF OwnedOK, ConcurrentTypeOK
<1>5. /\ table' \in Seq(Slot) /\ DOMAIN table' = DOMAIN table /\ table'[id] = s
      /\ Len(table') = Len(table)
      /\ \A j \in DOMAIN table : j # id => table'[j] = table[j]
  BY <1>4, ReplaceSlot
<1>6. /\ snap' \in [Threads -> {"none", "current", "leaked", "freed"}]
      /\ \A u \in Others(t) : snap'[u] = snap[u] /\ made'[u] = made[u]
      /\ \A j \in owns[t] : j # id => made'[t][j] = made[t][j]
      /\ made' \in [Threads -> [1 .. MaxSets -> Record]]
  <2> DEFINE r == [made[t][id] EXCEPT !.calls = k]
  <2>1. made[t][id] \in Record
    BY <1>4
  <2>2. r \in Record
    BY <2>1 DEF Record
  <2>3. made' = [made EXCEPT ![t][id] = r]
    BY <1>4
  <2> HIDE DEF r
  <2>4. \A j \in owns[t] : j \in 1 .. MaxSets
    BY <1>4, NumbersOfSlots
  <2>5. made' \in [Threads -> [1 .. MaxSets -> Record]]
    <3>1. [made[t] EXCEPT ![id] = r] \in [1 .. MaxSets -> Record]
      BY <1>4, <2>2
    <3>2. made' = [made EXCEPT ![t] = [made[t] EXCEPT ![id] = r]]
      BY <1>4, <2>3
    <3> QED
      BY <1>4, <3>1, <3>2
  <2> QED
    BY <1>4, <2>3, <2>4, <2>5 DEF Others
<1>7. ConcurrentTypeOK'
  <2>1. /\ Len(table') <= MaxSets /\ block' \in Nat /\ DOMAIN table \subseteq DOMAIN table'
        /\ owns' \in [Threads -> SUBSET (DOMAIN table')]
        /\ p \notin {"java", "scan", "grow", "publish"} => l.id \in DOMAIN table'
    BY <1>1, <1>4, <1>5
  <2> QED
    BY <1>1, <1>5, <1>6, <2>1, MovesTypes
<1>8. StepOf(t, id)
  BY <1>1, <1>2, <1>3, <1>5, <1>6 DEF StepOf
<1>9. TableMayMove'
  <2>1. FreeSlots' = FreeSlots
    BY <1>4, <1>5 DEF FreeSlots
  <2>2. SUFFICES ASSUME NEW u \in Threads, at'[u] \in {"scan", "grow", "publish"}
                 PROVE  /\ FreeSlots # {} \/ \A v \in Others(u) : ~Measuring(v)'
                        /\ at'[u] \in {"grow", "publish"} => FreeSlots = {}
                        /\ at'[u] = "publish" => Len(table) < MaxSets
    BY <1>5, <2>1 DEF TableMayMove
  <2>3. u # t /\ u \in Others(t) /\ at[u] = at'[u]
    BY <1>3, <2>2 DEF Others
  <2>4. /\ FreeSlots # {} \/ \A v \in Others(u) : ~Measuring(v)
        /\ at'[u] \in {"grow", "publish"} => FreeSlots = {}
        /\ at'[u] = "publish" => Len(table) < MaxSets
    BY <2>2, <2>3 DEF Core, TableMayMove
  <2>5. CASE p = "java"
    BY <1>3, <2>4, <2>5 DEF Measuring, Others
  <2>6. CASE p # "java" /\ Measuring(t)
    <3>1. t \in Others(u)
      BY <2>3 DEF Others
    <3> QED
      BY <2>4, <2>6, <3>1
  <2>7. CASE p # "java" /\ MayMeasure(t)
    BY <2>2, <2>3, <2>4, <2>7 DEF MayMeasure
  <2> QED
    BY <2>5, <2>6, <2>7
<1>10. ThreadOK(t)'
  <2>1. SUFFICES ASSUME NEW j \in owns[t] PROVE OwnedOK(t, j)'
    BY <1>1 DEF ThreadOK
  <2>2. CASE j # id
    <3>1. table'[j] = table[j] /\ made'[t][j] = made[t][j] /\ ~Busy(t, j)
      BY <1>4, <1>5, <1>6, <2>1, <2>2 DEF Busy
    <3> QED
      BY <1>2, <2>1, <3>1, OwnedStays
  <2> QED
    BY <2>2
<1>11. ~SettingUp(t)'
  BY <1>3 DEF SettingUp, Measuring
<1>12. stray' = stray
  BY <1>1 DEF process
<1> QED
  BY <1>1, <1>2, <1>4, <1>7, <1>8, <1>9, <1>10, <1>11, <1>12, StepInv

LEMMA DestroyInv ==
  ASSUME Core, NEW t \in Threads, NEW id \in owns[t], DestroyEventSet(t, id), raced' = 0
  PROVE  Core'
<1>1. /\ ConcurrentTypeOK /\ RegistryInv /\ at[t] = "java" /\ MayDestroy(t)
      /\ Free(id, FALSE) /\ owns' = [owns EXCEPT ![t] = @ \ {id}]
      /\ made' = [made EXCEPT ![t][id] = NotMade]
      /\ block' = block /\ at' = at /\ loc' = loc /\ UNCHANGED process
      /\ UNCHANGED vars /\ UNCHANGED threads
  <2>1. raced \in Nat
    BY DEF Core, ConcurrentTypeOK
  <2>2. CountsRace(MayDestroy(t)) /\ table[id].valid /\ Destroys(id)
    BY DEF DestroyEventSet
  <2>3. MayDestroy(t)
    BY <2>1, <2>2 DEF CountsRace
  <2>4. Free(id, FALSE)
    BY <2>2, Zenon DEF Destroys
  <2> QED
    BY <2>3, <2>4 DEF Core, DestroyEventSet, InJava
<1>2. LifeGoesOn /\ RegistryInv' /\ request' = request /\ life' = life /\ tid' = tid
  BY <1>1, SameLife, SameRegistry
<1>3. /\ MineOnly(t, id) /\ id \in DOMAIN table
      /\ table \in Seq(Slot) /\ Len(table) <= MaxSets
      /\ owns \in [Threads -> SUBSET (DOMAIN table)]
      /\ made \in [Threads -> [1 .. MaxSets -> Record]] /\ id \in 1 .. MaxSets
  BY <1>1, OwnedIsMine, NumbersOfSlots DEF ConcurrentTypeOK
<1>4. /\ table' \in Seq(Slot) /\ DOMAIN table' = DOMAIN table /\ Len(table') <= MaxSets
      /\ \A j \in DOMAIN table : j # id => table'[j] = table[j]
  <2>1. Freed(table[id]) \in Slot /\ table' = [table EXCEPT ![id] = Freed(table[id])]
    BY <1>1, <1>3, FreedSlot, FreeFrees
  <2> QED
    BY <1>3, <2>1, ReplaceSlot
<1>5. snap' = snap
  BY <1>1, <1>3, NobodyElsewhere DEF Free
<1>6. /\ owns' \in [Threads -> SUBSET (DOMAIN table)] /\ owns'[t] = owns[t] \ {id}
      /\ \A u \in Others(t) : owns'[u] = owns[u] /\ made'[u] = made[u]
      /\ made' \in [Threads -> [1 .. MaxSets -> Record]]
      /\ \A j \in 1 .. MaxSets : j # id => made'[t][j] = made[t][j]
  BY <1>1, <1>3, ConstantTypes DEF Others
<1>7. ConcurrentTypeOK'
  <2>1. exited' \in BOOLEAN /\ stray' \in BOOLEAN
    BY <1>1 DEF ConcurrentTypeOK, process
  <2> QED
    BY <1>1, <1>2, <1>4, <1>5, <1>6, <2>1 DEF ConcurrentTypeOK
<1>8. StepOf(t, id)
  BY <1>1, <1>2, <1>4, <1>5, <1>6 DEF StepOf
<1>9. TableMayMove'
  <2>1. \A u \in Threads : at'[u] \notin {"scan", "grow", "publish"}
    BY <1>1 DEF MayDestroy, SettingUp, Measuring, Others
  <2> QED
    BY <2>1 DEF TableMayMove
<1>10. ThreadOK(t)'
  <2>1. PlaceOK(t)'
    <3>1. snap'[t] = "none" /\ at'[t] = "java"
      BY <1>1, <1>5, NoSnapshot DEF Measuring
    <3> QED
      BY <3>1, JavaPlace
  <2>2. ASSUME NEW j \in owns'[t] PROVE OwnedOK(t, j)'
    <3>1. j \in owns[t] /\ j # id /\ j \in DOMAIN table
      BY <1>3, <1>6, <2>2
    <3>2. table'[j] = table[j] /\ made'[t][j] = made[t][j] /\ ~Busy(t, j)
      BY <1>1, <1>3, <1>4, <1>6, <3>1, NumbersOfSlots DEF Busy, Measuring
    <3> QED
      BY <1>2, <3>1, <3>2, OwnedStays
  <2> QED
    BY <2>1, <2>2 DEF ThreadOK
<1>11. ~SettingUp(t)'
  BY <1>1 DEF SettingUp
<1>12. stray' = stray
  BY <1>1 DEF process
<1> QED
  BY <1>1, <1>2, <1>3, <1>7, <1>8, <1>9, <1>10, <1>11, <1>12, StepInv

(* An event set of t and what is known of it.                              *)
LEMMA OwnedSlot ==
  ASSUME Core, NEW t \in Threads, NEW id \in owns[t]
  PROVE  /\ ConcurrentTypeOK /\ RegistryInv /\ table \in Seq(Slot) /\ block \in Nat
         /\ id \in DOMAIN table /\ id \in Nat /\ id \in 1 .. MaxSets /\ table[id] \in Slot
         /\ made[t][id] \in Record /\ made[t][id].calls \in Nat
         /\ table[id].valid /\ Whole(table[id]) /\ Written(table[id], t)
         /\ Attached(table[id], made[t][id].target)
         /\ table[id].data \in Seq(Cell) /\ table[id].data_index \in Nat
         /\ table[id].data_size \in Nat /\ DOMAIN table[id].data = 1 .. table[id].data_size
<1>1. OwnedOK(t, id) /\ id \in DOMAIN table /\ table[id] \in Slot
  BY OwnedIsMine
<1>2. /\ ConcurrentTypeOK /\ RegistryInv /\ table \in Seq(Slot) /\ block \in Nat
      /\ id \in Nat /\ id \in 1 .. MaxSets
      /\ made \in [Threads -> [1 .. MaxSets -> Record]]
  BY <1>1, NumbersOfSlots DEF Core, ConcurrentTypeOK
<1>3. made[t][id] \in Record /\ made[t][id].calls \in Nat
  BY <1>2 DEF Record
<1>4. /\ table[id].valid /\ Whole(table[id]) /\ Written(table[id], t)
      /\ Attached(table[id], made[t][id].target)
  BY <1>1 DEF OwnedOK
<1>5. /\ table[id].data \in Seq(Cell) /\ table[id].data_index \in Nat
      /\ table[id].data_size \in Nat
  BY <1>1 DEF Slot
<1>6. DOMAIN table[id].data = 1 .. table[id].data_size
  BY <1>4, <1>5 DEF Whole
<1> QED
  BY <1>1, <1>2, <1>3, <1>4, <1>5, <1>6

(* The slot with another index and other snapshots.                        *)
Used(s, i, d) == [s EXCEPT !.data_index = i, !.data = d]

LEMMA UsedSlot ==
  ASSUME NEW o \in Slot, NEW i \in Nat, NEW d \in Seq(Cell), NEW g, NEW s, s = Used(o, i, d),
         o.valid, Whole(o), Len(d) = Len(o.data), Attached(o, g)
  PROVE  /\ s \in Slot /\ s.valid /\ Whole(s) /\ Attached(s, g)
         /\ s.data_index = i /\ s.data = d /\ s.data_size = o.data_size
<1>1. /\ s \in Slot /\ s.data_index = i /\ s.data = d /\ s.valid
      /\ s.data_size = o.data_size /\ s.attached = o.attached
  BY DEF Used, Slot
<1>2. Whole(s) /\ Attached(s, g)
  BY <1>1 DEF Whole, Attached
<1> QED
  BY <1>1, <1>2

LEMMA SameCalls ==
  ASSUME ConcurrentTypeOK, NEW t \in Threads, NEW id \in 1 .. MaxSets
  PROVE  made = [made EXCEPT ![t][id].calls = made[t][id].calls]
<1>1. made \in [Threads -> [1 .. MaxSets -> Record]]
  BY DEF ConcurrentTypeOK
<1>2. made[t][id] \in Record
  BY <1>1
<1>3. [made[t][id] EXCEPT !.calls = made[t][id].calls] = made[t][id]
  BY <1>2 DEF Record
<1> QED
  BY <1>1, <1>3

LEMMA MeasureInv ==
  ASSUME Core, NEW t \in Threads, NEW id \in owns[t], Measure(t, id), raced' = 0
  PROVE  Core'
<1> DEFINE o == table[id]
           n == made[t][id].calls
           g == made[t][id].target
           i == IF Starts(t, id) THEN MakeRoom(o) ELSE o.data_index
           s == Used(o, i, o.data)
           l == [NoLocals EXCEPT !.id = id, !.block = block, !.cell = i + 1]
           x == IF HasBuffer(id) THEN "current" ELSE "freed"
<1>1. /\ at[t] = "java" /\ life[t] # "new" /\ MayMeasure(t) /\ ~SettingUp(t) /\ ~Measuring(t)
      /\ UNCHANGED <<vars, threads, block, owns, process>> /\ made' = made
      /\ table' = [table EXCEPT ![id].data_index = i]
      /\ Moves(t, "write", l)
      /\ snap' = [snap EXCEPT ![t] = x]
  <2>1. raced \in Nat
    BY DEF Core, ConcurrentTypeOK
  <2> QED
    BY <2>1 DEF Measure, InJava, SettingUp, Measuring, Goes, Moves, CountsRace
<1>2. /\ ConcurrentTypeOK /\ RegistryInv /\ table \in Seq(Slot) /\ block \in Nat
      /\ id \in DOMAIN table /\ id \in Nat /\ id \in 1 .. MaxSets /\ o \in Slot
      /\ n \in Nat
      /\ o.valid /\ Whole(o) /\ Written(o, t) /\ Attached(o, g)
      /\ o.data \in Seq(Cell) /\ o.data_index \in Nat
      /\ o.data_size \in Nat /\ DOMAIN o.data = 1 .. o.data_size
  BY OwnedSlot
<1>3. Complete(o, n)
  <2>1. OwnedOK(t, id) /\ ~Busy(t, id)
    BY <1>1, OwnedIsMine DEF Busy
  <2> QED
    BY <2>1 DEF OwnedOK
<1>4. x = "current"
  <2>1. HasBuffer(id)
    BY <1>2 DEF HasBuffer, Whole
  <2> QED
    BY <2>1
<1>5. i = IF n % 2 = 0 /\ o.data_index >= o.data_size THEN o.data_index - 2 ELSE o.data_index
  BY DEF Starts, MakeRoom
<1>6. table' = [table EXCEPT ![id] = s]
  BY <1>1, <1>2 DEF Slot, Used
<1> HIDE DEF i, o, n, g, x
<1>7. /\ i \in Nat /\ i <= o.data_index /\ i + 1 \in 1 .. o.data_size
      /\ i + 1 = Held(n + 1, o.data_size)
  <2> DEFINE size == o.data_size
             index == o.data_index
  <2>1. /\ size \in Nat /\ size > 0 /\ size % 2 = 0 /\ index \in Nat /\ index = Held(n, size)
        /\ i = IF n % 2 = 0 /\ index >= size THEN index - 2 ELSE index
    BY <1>2, <1>3, <1>5 DEF Complete, Whole
  <2> HIDE DEF size, index
  <2>2. n \in Nat /\ i \in Int
    BY <1>2, <2>1
  <2>3. i \in Nat /\ i <= index /\ i + 1 \in 1 .. size /\ i + 1 = Held(n + 1, size)
    BY ONLY <2>1, <2>2, HeldNext
  <2> QED
    BY <2>3 DEF size, index
<1>8. /\ s \in Slot /\ s.valid /\ Whole(s) /\ Attached(s, g)
      /\ s.data_index = i /\ s.data = o.data /\ s.data_size = o.data_size
  BY <1>2, <1>7, UsedSlot
<1> HIDE DEF s
<1>9. l \in Locals /\ l.id = id /\ l.block = block /\ l.cell = i + 1
  <2>1. id \in Nat /\ block \in Nat /\ i + 1 \in Nat
    BY <1>2, <1>7
  <2>2. PICK c \in Nat : c = i + 1
    BY <2>1
  <2>3. l = [NoLocals EXCEPT !.id = id, !.block = block, !.cell = c]
    BY <2>2
  <2> HIDE DEF l
  <2>4. l \in Locals /\ l.id = id /\ l.block = block /\ l.cell = c
    BY <2>1, <2>3, ConstantTypes DEF NoLocals, Locals
  <2> QED
    BY <2>2, <2>4
<1> HIDE DEF l
<1>10. /\ at'[t] = "write" /\ loc'[t] = l /\ life' = life /\ tid' = tid /\ owns' = owns
       /\ block' = block /\ table'[id] = s /\ snap'[t] = "current"
  <2>1. snap'[t] = "current"
    BY <1>1, <1>2, <1>4 DEF ConcurrentTypeOK
  <2> QED
    BY <1>1, <1>2, <1>6, <1>8, <1>9, <2>1, MovesAlone, SameLife, ReplaceSlot DEF Places
<1>11. made'[t][id].calls = n /\ made'[t][id].target = g
  BY <1>1 DEF n, g
<1>12. PlaceOK(t)'
  <2>1. MeasuredOK(t, table[loc[t].id], made[t][loc[t].id].calls)'
    BY <1>2, <1>7, <1>8, <1>9, <1>10, <1>11 DEF MeasuredOK, Measuring, Held
  <2> QED
    BY <1>1, <1>10, <2>1 DEF PlaceOK, CreatedOK
<1>13. OwnedOK(t, id)'
  <2>1. Written(s, t)
    BY <1>2, <1>7, <1>8 DEF Written
  <2>2. Busy(t, id)'
    BY <1>9, <1>10 DEF Busy, Measuring
  <2> QED
    BY <1>8, <1>10, <1>11, <2>1, <2>2 DEF OwnedOK, Written, Attached, Whole
<1>14. made' = [made EXCEPT ![t][id].calls = n]
  BY <1>1, <1>2, SameCalls DEF n
<1> QED
  BY <1>1, <1>2, <1>4, <1>6, <1>8, <1>9, <1>12, <1>13, <1>14, UseStep

(* The event set t measures with.                                          *)
LEMMA MeasuredSlot ==
  ASSUME Core, NEW t \in Threads, Measuring(t), NEW id, id = loc[t].id
  PROVE  /\ id \in owns[t] /\ ~SettingUp(t) /\ life[t] # "new" /\ loc[t] \in Locals
         /\ snap[t] = (IF at[t] = "write" THEN "current" ELSE "none")
         /\ MeasuredOK(t, table[id], made[t][id].calls)
<1>1. PlaceOK(t) /\ loc[t] \in Locals
  BY DEF Core, ThreadOK, ConcurrentTypeOK
<1> QED
  BY <1>1 DEF PlaceOK, MeasuredOK, Measuring, SettingUp

LEMMA WriteInv ==
  ASSUME Core, NEW t \in Threads, Write(t), raced' = 0
  PROVE  Core'
<1>0. PICK id : id = loc[t].id
  OBVIOUS
<1> DEFINE o == table[id]
           n == made[t][id].calls
           g == made[t][id].target
           i == o.data_index
           c == [by |-> t, call |-> n + 1]
           d == [o.data EXCEPT ![i + 1] = c]
           s == Used(o, i, d)
<1>1. at[t] = "write" /\ Measuring(t)
  BY DEF Write, Runs, Measuring
<1>2. /\ id \in owns[t] /\ ~SettingUp(t) /\ life[t] # "new" /\ loc[t] \in Locals
      /\ snap[t] = "current" /\ MeasuredOK(t, o, n)
  BY <1>0, <1>1, MeasuredSlot
<1>3. /\ loc[t].block = block /\ loc[t].cell = i + 1
      /\ i + 1 = Held(n + 1, o.data_size) /\ i + 1 \in DOMAIN o.data
  BY <1>1, <1>2 DEF MeasuredOK
<1>4. /\ ConcurrentTypeOK /\ RegistryInv /\ table \in Seq(Slot) /\ block \in Nat
      /\ id \in DOMAIN table /\ id \in Nat /\ id \in 1 .. MaxSets /\ o \in Slot
      /\ n \in Nat
      /\ o.valid /\ Whole(o) /\ Written(o, t) /\ Attached(o, g)
      /\ o.data \in Seq(Cell) /\ i \in Nat
  BY <1>2, OwnedSlot
<1>5. /\ UNCHANGED <<vars, threads, block, owns, process>> /\ made' = made /\ loc' = loc
      /\ Goes(t, "advance") /\ snap' = [snap EXCEPT ![t] = "none"]
      /\ table' = [table EXCEPT ![id].data[i + 1] = c]
  BY <1>0, <1>2, <1>3 DEF Write, history
<1>6. table' = [table EXCEPT ![id] = s]
  BY <1>4, <1>5 DEF Slot, Used
<1> HIDE DEF o, n, g, i
<1>7. c \in Cell
  BY <1>4 DEF Cell
<1> HIDE DEF c
<1>8. /\ d \in Seq(Cell) /\ Len(d) = Len(o.data) /\ DOMAIN d = DOMAIN o.data
      /\ d[i + 1] = c /\ \A k \in DOMAIN o.data : k # i + 1 => d[k] = o.data[k]
  BY <1>3, <1>4, <1>7
<1> HIDE DEF d
<1>9. /\ s \in Slot /\ s.valid /\ Whole(s) /\ Attached(s, g)
      /\ s.data_index = i /\ s.data = d /\ s.data_size = o.data_size
  BY <1>4, <1>8, UsedSlot
<1> HIDE DEF s
<1>10. Moves(t, "advance", loc[t])
  BY <1>4, <1>5, StaysPut DEF Places
<1>11. /\ at'[t] = "advance" /\ loc'[t] = loc[t] /\ life' = life /\ tid' = tid /\ owns' = owns
       /\ block' = block /\ table'[id] = s /\ snap'[t] = "none"
  <2>1. snap'[t] = "none"
    BY <1>4, <1>5 DEF ConcurrentTypeOK
  <2> QED
    BY <1>2, <1>4, <1>5, <1>6, <1>9, <1>10, <2>1, MovesAlone, SameLife, ReplaceSlot DEF Places
<1>12. made'[t][id].calls = n /\ made'[t][id].target = g
  BY <1>5 DEF n, g
<1>13. PlaceOK(t)'
  <2>1. s.data[s.data_index + 1] = [by |-> t, call |-> n + 1]
    BY <1>8, <1>9 DEF c
  <2>2. MeasuredOK(t, table[loc[t].id], made[t][loc[t].id].calls)'
    BY <1>0, <1>2, <1>3, <1>8, <1>9, <1>11, <1>12, <2>1 DEF MeasuredOK, Measuring, Held
  <2> QED
    BY <1>2, <1>11, <2>2 DEF PlaceOK, CreatedOK
<1>14. OwnedOK(t, id)'
  <2>1. Written(s, t)
    <3>1. SUFFICES ASSUME NEW k \in 1 .. i PROVE k \in DOMAIN d /\ d[k].by = t
      BY <1>9 DEF Written
    <3>2. k \in DOMAIN o.data /\ o.data[k].by = t /\ k # i + 1
      BY <1>4, <3>1 DEF Written, i
    <3> QED
      BY <1>8, <3>2
  <2>2. Busy(t, id)'
    BY <1>0, <1>11 DEF Busy, Measuring
  <2> QED
    BY <1>9, <1>11, <1>12, <2>1, <2>2 DEF OwnedOK, Written, Attached, Whole
<1>15. made' = [made EXCEPT ![t][id].calls = n]
  BY <1>4, <1>5, SameCalls DEF n
<1> QED
  BY <1>0, <1>1, <1>2, <1>4, <1>5, <1>6, <1>9, <1>10, <1>13, <1>14, <1>15, UseStep

LEMMA AdvanceInv ==
  ASSUME Core, NEW t \in Threads, Advance(t), raced' = 0
  PROVE  Core'
<1>0. PICK id : id = loc[t].id
  OBVIOUS
<1> DEFINE o == table[id]
           n == made[t][id].calls
           g == made[t][id].target
           i == o.data_index + 1
           s == Used(o, i, o.data)
<1>1. at[t] = "advance" /\ Measuring(t)
  BY DEF Advance, Runs, Measuring
<1>2. /\ id \in owns[t] /\ ~SettingUp(t)
      /\ snap[t] = "none" /\ MeasuredOK(t, o, n)
  BY <1>0, <1>1, MeasuredSlot
<1>3. /\ i = Held(n + 1, o.data_size) /\ i \in DOMAIN o.data
      /\ o.data[i] = [by |-> t, call |-> n + 1]
  BY <1>1, <1>2 DEF MeasuredOK
<1>4. /\ ConcurrentTypeOK /\ RegistryInv /\ table \in Seq(Slot) /\ block \in Nat
      /\ id \in DOMAIN table /\ id \in Nat /\ id \in 1 .. MaxSets /\ o \in Slot
      /\ n \in Nat
      /\ o.valid /\ Whole(o) /\ Written(o, t) /\ Attached(o, g)
      /\ o.data \in Seq(Cell) /\ o.data_index \in Nat /\ i \in Nat
  BY <1>2, OwnedSlot
<1>5. /\ UNCHANGED <<vars, threads, block, owns, process>> /\ snap' = snap /\ Leaves(t)
      /\ table' = [table EXCEPT ![id].data_index = i]
      /\ made' = [made EXCEPT ![t][id].calls = n + 1]
  BY <1>0, <1>4 DEF Advance, ConcurrentTypeOK
<1>6. table' = [table EXCEPT ![id] = s]
  BY <1>4, <1>5 DEF Slot, Used
<1>7. i = o.data_index + 1
  OBVIOUS
<1> HIDE DEF o, i
<1>8. /\ s \in Slot /\ s.valid /\ Whole(s) /\ Attached(s, g)
      /\ s.data_index = i /\ s.data = o.data /\ s.data_size = o.data_size
  <2> HIDE DEF g
  <2> QED
    BY <1>4, UsedSlot
<1> HIDE DEF s
<1>9. Moves(t, "java", NoLocals) /\ NoLocals \in Locals
  BY <1>5, LeavesMoves, ConstantTypes
<1>10. /\ at'[t] = "java" /\ life' = life /\ tid' = tid /\ table'[id] = s
       /\ snap' = [snap EXCEPT ![t] = "none"] /\ snap'[t] = "none"
  <2>1. snap' = [snap EXCEPT ![t] = "none"] /\ snap'[t] = "none"
    BY <1>2, <1>4, <1>5 DEF ConcurrentTypeOK
  <2> QED
    BY <1>4, <1>5, <1>6, <1>8, <1>9, <2>1, MovesAlone, SameLife, ReplaceSlot DEF Places
<1>11. made'[t][id].calls = n + 1 /\ made'[t][id].target = g
  <2>1. made \in [Threads -> [1 .. MaxSets -> Record]] /\ made[t][id] \in Record
    BY <1>4 DEF ConcurrentTypeOK
  <2>2. made'[t][id] = [made[t][id] EXCEPT !.calls = n + 1]
    BY <1>4, <1>5, <2>1
  <2> QED
    BY <2>1, <2>2 DEF Record
<1> HIDE DEF n, g
<1>12. PlaceOK(t)'
  BY <1>10, JavaPlace
<1>13. OwnedOK(t, id)'
  <2>1. Written(s, t)
    BY <1>3, <1>4, <1>7, <1>8 DEF Written
  <2>2. Complete(s, n + 1)
    BY <1>3, <1>8 DEF Complete
  <2> QED
    BY <1>8, <1>10, <1>11, <2>1, <2>2 DEF OwnedOK, Written, Attached, Complete, Whole, Held
<1>14. n + 1 \in Nat
  BY <1>4
<1> QED
  BY <1>0, <1>1, <1>2, <1>4, <1>5, <1>6, <1>8, <1>9, <1>10, <1>12, <1>13, <1>14, UseStep

-----------------------------------------------------------------------------
(* No thread uses memory the program does not have.                        *)
LEMMA NobodyAstray ==
  ASSUME Core, NEW t \in Threads
  PROVE  ~Astray(t)
<1>1. SUFFICES ASSUME Astray(t) PROVE FALSE
  OBVIOUS
<1>2. PlaceOK(t)
  BY DEF Core, ThreadOK
<1>3. CASE at[t] \notin {"java", "write", "advance"} /\ at[t] # "publish" /\ Moving
  <2>1. PICK u \in Threads : at[u] = "publish"
    BY <1>3 DEF Moving
  <2>2. SettingUp(t) /\ SettingUp(u) /\ t # u
    BY <1>3, <2>1 DEF SettingUp, Measuring
  <2> QED
    BY <2>2 DEF Core, OneSetsUp
<1>4. CASE at[t] = "grow" /\ GrowsToo(t)
  BY <1>3, <1>4 DEF GrowsToo, Moving, Others
<1>5. CASE Measuring(t) /\ Moving
  <2>1. PICK u \in Threads : at[u] = "publish"
    BY <1>5 DEF Moving
  <2>2. t \in Others(u)
    BY <1>5, <2>1 DEF Others, Measuring
  <2> QED
    BY <1>5, <2>1, <2>2 DEF Core, TableMayMove
<1>6. CASE at[t] \in {"fill", "finish", "write"} /\ loc[t].block # block
  BY <1>2, <1>6 DEF PlaceOK, CreatedOK, MeasuredOK
<1>7. CASE at[t] = "write" /\ (snap[t] = "freed" \/ loc[t].cell \notin DOMAIN table[loc[t].id].data)
  BY <1>2, <1>7 DEF PlaceOK, MeasuredOK, Measuring
<1> QED
  BY <1>1, <1>3, <1>4, <1>5, <1>6, <1>7 DEF Astray, Measuring

LEMMA NobodyStrays ==
  ASSUME Core, NEW t \in Threads, Straying(t), raced' = 0
  PROVE  FALSE
<1>0. raced \in Nat
  BY DEF Core, ConcurrentTypeOK
<1>1. CASE StrayAccess(t)
  BY <1>1, NobodyAstray DEF StrayAccess
<1>2. CASE FreesTwice(t)
  <2>1. at[t] \in {"finish", "asked", "attach"} /\ ~HasBuffer(loc[t].id)
    BY <1>2 DEF FreesTwice
  <2>2. CreatedOK(t, table[loc[t].id]) /\ table[loc[t].id] \in Slot
    BY <2>1, SlotOf
  <2>3. Whole(table[loc[t].id])
    BY <2>1, <2>2 DEF CreatedOK
  <2> QED
    BY <2>1, <2>3 DEF HasBuffer, Whole
<1>3. CASE StrayCall(t)
  <2>1. at[t] = "java" /\ Moving /\ CountsRace(MayMeasure(t) \/ MayDestroy(t))
    BY <1>3 DEF StrayCall, InJava
  <2>2. MayMeasure(t) \/ MayDestroy(t)
    BY <1>0, <2>1 DEF CountsRace
  <2>3. PICK u \in Threads : at[u] = "publish"
    BY <2>1 DEF Moving
  <2>4. u \in Others(t) /\ SettingUp(u) /\ FreeSlots = {}
    BY <2>1, <2>3 DEF Others, SettingUp, Measuring, Core, TableMayMove
  <2> QED
    BY <2>2, <2>3, <2>4 DEF MayMeasure, MayDestroy
<1>4. ASSUME NEW id \in DOMAIN table, StrayDestroy(t, id) PROVE FALSE
  <2>1. id \in owns[t] /\ ~HasBuffer(id)
    BY <1>4 DEF StrayDestroy
  <2>2. Whole(table[id])
    BY <2>1, OwnedSlot
  <2> QED
    BY <2>1, <2>2 DEF HasBuffer, Whole
<1> QED
  BY <1>1, <1>2, <1>3, <1>4 DEF Straying

(* A careless call is never forgotten.                                     *)
LEMMA RacedStays ==
  ASSUME raced \in Nat, [SystemNext]_allVars
  PROVE  raced' \in Nat /\ (raced' = 0 => raced = 0)
<1>1. CASE UNCHANGED allVars
  BY <1>1 DEF allVars, history
<1>2. ASSUME NEW careful, CountsRace(careful) PROVE raced' \in Nat /\ (raced' = 0 => raced = 0)
  BY <1>2 DEF CountsRace
<1>3. ASSUME NEW t \in Threads, ThreadLife(t) PROVE raced' = raced
  BY <1>3 DEF ThreadLife, ThreadStart, ThreadEnd, CallbackReturns, RegistryActs, history
<1>4. ASSUME NEW t \in Threads, Creating(t)
      PROVE  raced' = raced \/ CountsRace(MayCreate(t))
  <2>1. ASSUME NEW count \in Counts, NEW target \in Threads \cup {"none"}, Create(t, count, target)
        PROVE  CountsRace(MayCreate(t))
    BY <2>1 DEF Create
  <2>2. ASSUME NEW papi \in BOOLEAN, Fill(t, papi) PROVE raced' = raced
    BY <2>2 DEF Fill, history
  <2>3. CASE Scan(t) \/ Grow(t) \/ Publish(t) \/ CreateFails(t) \/ CreateFailsFreeing(t)
    BY <2>3 DEF Scan, Grow, Publish, CreateFails, CreateFailsFreeing, history
  <2>4. CASE Finish(t) \/ LookUp(t) \/ LookedUp(t) \/ PapiAttaches(t) \/ PapiRefuses(t)
    BY <2>4 DEF Finish, LookUp, LookedUp, PapiAttaches, PapiRefuses, history
  <2> QED
    BY <1>4, <2>1, <2>2, <2>3, <2>4 DEF Creating
<1>5. ASSUME NEW t \in Threads, Using(t)
      PROVE  raced' = raced \/ CountsRace(MayDestroy(t)) \/ CountsRace(MayMeasure(t))
  <2>1. ASSUME NEW id, DestroyEventSet(t, id) \/ Measure(t, id)
        PROVE  CountsRace(MayDestroy(t)) \/ CountsRace(MayMeasure(t))
    BY <2>1 DEF DestroyEventSet, Measure
  <2>2. CASE Write(t) \/ Advance(t)
    BY <2>2 DEF Write, Advance, history
  <2> QED
    BY <1>5, <2>1, <2>2 DEF Using
<1>6. ASSUME NEW t \in Threads, Straying(t)
      PROVE  \/ raced' = raced \/ CountsRace(MayDestroy(t))
             \/ CountsRace(MayMeasure(t) \/ MayDestroy(t))
  <2>1. ASSUME NEW id, StrayDestroy(t, id) PROVE CountsRace(MayDestroy(t))
    BY <2>1 DEF StrayDestroy
  <2>2. CASE StrayAccess(t) \/ FreesTwice(t) \/ StrayCall(t)
    BY <2>2 DEF StrayAccess, FreesTwice, StrayCall
  <2> QED
    BY <1>6, <2>1, <2>2 DEF Straying
<1> QED
  BY <1>1, <1>2, <1>3, <1>4, <1>5, <1>6 DEF SystemNext

LEMMA NextCore ==
  ASSUME Core, [SystemNext]_allVars, raced' = 0
  PROVE  Core'
<1>1. CASE UNCHANGED allVars
  <2>1. /\ UNCHANGED sets /\ UNCHANGED threads /\ UNCHANGED vars /\ UNCHANGED history
        /\ life' = life /\ tid' = tid /\ exited' = exited /\ stray' = stray
    BY <1>1 DEF allVars, threads, process
  <2>2. ConcurrentTypeOK /\ RegistryInv
    BY DEF Core
  <2>3. LifeGoesOn /\ RegistryInv' /\ request' = request
    BY <2>1, <2>2, SameLife, SameRegistry
  <2>4. /\ life' \in [Threads -> {"new", "starting", "running", "ending", "dead"}]
        /\ tid' \in [Threads -> Natives] /\ exited' \in BOOLEAN
    BY <2>1, <2>2 DEF ConcurrentTypeOK
  <2> QED
    BY <2>1, <2>3, <2>4, RegistryOnly
<1>2. ASSUME NEW t \in Threads, ThreadLife(t) PROVE Core'
  BY <1>2, ThreadLifeInv
<1>3. ASSUME NEW t \in Threads, Creating(t) PROVE Core'
  BY <1>3, CreateInv, ScanInv, GrowInv, PublishInv, CreateFailsInv, CreateFailsFreeingInv, FillInv,
     FinishInv, LookUpInv, LookedUpInv, PapiAttachesInv, PapiRefusesInv DEF Creating
<1>4. ASSUME NEW t \in Threads, Using(t) PROVE Core'
  <2>1. ASSUME NEW id, DestroyEventSet(t, id) PROVE Core'
    BY <2>1, DestroyInv DEF DestroyEventSet
  <2>2. ASSUME NEW id, Measure(t, id) PROVE Core'
    BY <2>2, MeasureInv DEF Measure
  <2> QED
    BY <1>4, <2>1, <2>2, WriteInv, AdvanceInv DEF Using
<1>5. ASSUME NEW t \in Threads, Straying(t) PROVE Core'
  BY <1>5, NobodyStrays
<1> QED
  BY <1>1, <1>2, <1>3, <1>4, <1>5 DEF SystemNext

LEMMA SystemInvariant == SystemSpec => []SystemInv
<1>1. SystemInit => SystemInv
  BY InitCore DEF SystemInv, SystemInit
<1>2. SystemInv /\ [SystemNext]_allVars => SystemInv'
  <2>1. SUFFICES ASSUME SystemInv, [SystemNext]_allVars PROVE SystemInv'
    OBVIOUS
  <2>2. raced \in Nat /\ (raced = 0 => Core)
    BY <2>1 DEF SystemInv
  <2>3. raced' \in Nat /\ (raced' = 0 => raced = 0)
    BY <2>1, <2>2, RacedStays
  <2>4. raced' = 0 => Core'
    BY <2>1, <2>2, <2>3, NextCore
  <2> QED
    BY <2>3, <2>4 DEF SystemInv
<1> QED
  BY <1>1, <1>2, PTL DEF SystemSpec

(* As long as no call was careless, nobody frees twice, uses what another  *)
(* thread has freed or moved, or writes beyond a buffer: the pointers into *)
(* the table that createEventSet and the measuring methods keep are good   *)
(* whenever they are used, although realloc may move the table.            *)
THEOREM PointersStayGood == SystemSpec => []PointersAreGood
<1>1. ASSUME SystemInv PROVE PointersAreGood
  <2>1. raced = 0 => Core
    BY <1>1 DEF SystemInv
  <2>2. raced = 0 => ~stray
    BY <2>1, Zenon DEF Core
  <2> QED
    BY <2>1, <2>2, NobodyAstray DEF PointersAreGood
<1> QED
  BY <1>1, SystemInvariant, PTL

(* As long as no call was careless, createEventSet gives no event set to   *)
(* two threads and takes no slot that somebody has.                        *)
THEOREM OwnersStayRight == SystemSpec => []OwnersAreRight
<1>1. ASSUME SystemInv PROVE OwnersAreRight
  <2>1. SUFFICES ASSUME raced = 0, Core
                 PROVE  /\ \A t, u \in Threads : owns[t] \cap owns[u] # {} => t = u
                        /\ \A t \in Threads : \A id \in owns[t] : table[id].valid /\ HasBuffer(id)
                        /\ \A t \in Threads : SettingUp(t) /\ loc[t].id # 0 =>
                             /\ \A u \in Threads : loc[t].id \notin owns[u]
                             /\ table[loc[t].id].valid <=> at[t] \in {"lookup", "asked", "attach"}
    BY <1>1 DEF SystemInv, OwnersAreRight
  <2>2. \A t, u \in Threads : owns[t] \cap owns[u] # {} => t = u
    BY <2>1 DEF Core, Apart
  <2>3. \A t \in Threads : \A id \in owns[t] : table[id].valid /\ HasBuffer(id)
    BY <2>1, OwnedSlot DEF HasBuffer, Whole
  <2>4. ASSUME NEW t \in Threads, SettingUp(t), loc[t].id # 0
        PROVE  /\ \A u \in Threads : loc[t].id \notin owns[u]
               /\ table[loc[t].id].valid <=> at[t] \in {"lookup", "asked", "attach"}
    <3>1. \A u \in Threads : loc[t].id \notin owns[u]
      BY <2>1, <2>4 DEF Core, Apart
    <3>2. PlaceOK(t) /\ at[t] \in Places
      BY <2>1 DEF Core, ThreadOK, ConcurrentTypeOK, Places
    <3>3. at[t] \in {"fill", "finish", "lookup", "asked", "attach"}
      BY <2>4, <3>2 DEF PlaceOK, CreatedOK, Places, SettingUp, Measuring
    <3> QED
      BY <3>1, <3>2, <3>3 DEF PlaceOK, CreatedOK
  <2> QED
    BY <2>2, <2>3, <2>4
<1> QED
  BY <1>1, SystemInvariant, PTL

(* As long as no call was careless, start and stop lose no snapshot and    *)
(* mix none up, although other threads create, destroy and measure between *)
(* the write of a snapshot and the count of it.                            *)
THEOREM SnapshotsStay == SystemSpec => []NothingLost
<1>1. ASSUME SystemInv PROVE NothingLost
  <2>1. SUFFICES ASSUME raced = 0, Core, NEW t \in Threads, NEW id \in owns[t]
                 PROVE  /\ Written(table[id], t)
                        /\ ~Busy(t, id) => Complete(table[id], made[t][id].calls)
    BY <1>1 DEF SystemInv, NothingLost, Written, Complete, Busy, Held
  <2>2. OwnedOK(t, id)
    BY <2>1 DEF Core, ThreadOK
  <2> QED
    BY <2>2 DEF OwnedOK
<1> QED
  BY <1>1, SystemInvariant, PTL

(* As long as no call was careless, an event set created for a Java thread *)
(* is attached to the native id that thread was given when it started: the *)
(* answer of the registry stays true after its lock is released, and after *)
(* the thread has ended.                                                   *)
THEOREM AttachedRight == SystemSpec => []AttachedToItsThread
<1>1. ASSUME SystemInv PROVE AttachedToItsThread
  <2>1. SUFFICES ASSUME raced = 0, Core, NEW t \in Threads, NEW id \in owns[t],
                        made[t][id].target # "none"
                 PROVE  /\ table[id].attached \in NativeIds
                        /\ table[id].attached = tid[made[t][id].target]
    BY <1>1 DEF SystemInv, AttachedToItsThread
  <2>2. /\ Attached(table[id], made[t][id].target) /\ made[t][id] \in Record
    BY <2>1, OwnedSlot
  <2>3. made[t][id].target \in Threads
    BY <2>1, <2>2 DEF Record
  <2> QED
    BY <2>1, <2>2, <2>3 DEF Attached, Core, RegistryInv
<1> QED
  BY <1>1, SystemInvariant, PTL

(* As long as no call was careless, the buffer of a new event set has the  *)
(* size its count stands for, for every width of an integer and every      *)
(* count: twice the count, or the number around which that wrapped.        *)
THEOREM BuffersAreWhole == SystemSpec => []SizesAreWhole
<1>1. ASSUME SystemInv PROVE SizesAreWhole
  <2>1. SUFFICES ASSUME raced = 0, Core, NEW t \in Threads,
                        at[t] \in {"finish", "lookup", "asked", "attach"}
                 PROVE  table[loc[t].id].data_size = Wanted(loc[t].count)
    BY <1>1 DEF SystemInv, SizesAreWhole, Wanted
  <2>2. CreatedOK(t, table[loc[t].id])
    BY <2>1, SlotOf
  <2> QED
    BY <2>1, <2>2 DEF CreatedOK
<1> QED
  BY <1>1, SystemInvariant, PTL
=============================================================================
