--------------------------- MODULE ThreadMap_proof ---------------------------
(***************************************************************************)
(* Proofs about ThreadMap, for any number of threads and native ids: the   *)
(* spinlock keeps the search and the update of the map together, so a Java *)
(* thread is registered once and the map behaves like ThreadRegistry; when *)
(* threads register only themselves, every entry is true and every lookup  *)
(* right.                                                                  *)
(***************************************************************************)
EXTENDS ThreadMap, WellFoundedInduction, TLAPS

(* At most one thread is between lock and unlock, and then the lock is 1;  *)
(* a thread that is in a call is alive and has a request.                  *)
LockInv ==
  /\ \A t \in Threads : InLock(t) => lock = 1
  /\ \A t, u \in Threads : InLock(t) /\ InLock(u) => t = u
  /\ \A t \in Threads : pc[t] # "none" => req[t] # NoCall /\ Alive(t)

MapInv == VarTypes /\ LockInv /\ IndexIsFresh /\ UniqueJavaIds

LEMMA InvalidIsNative == Invalid \in Natives
BY DEF Natives

(* Every nonempty set of natural numbers has a least element.              *)
LEMMA LeastNat ==
  ASSUME NEW T, T \subseteq Nat, T # {}
  PROVE  \E x \in T : \A y \in T : x <= y
<1>1. PICK x \in T : \A y \in T : ~(<<y, x>> \in OpToRel(<, Nat))
  BY NatLessThanWellFounded, WFMin
<1>2. \A y \in T : ~(y < x)
  BY <1>1 DEF OpToRel
<1> QED
  BY <1>2

(* What thread_map_index_of finds.                                         *)
LEMMA IndexOf ==
  ASSUME NEW r, entries \in Seq(Entry)
  PROVE  LET i == thread_map_index_of(r)
         IN  /\ i \in Nat
             /\ i = 0 => \A j \in DOMAIN entries : ~Matches(r, entries[j])
             /\ i # 0 => i \in DOMAIN entries /\ Matches(r, entries[i])
<1> DEFINE found == {i \in DOMAIN entries : Matches(r, entries[i])}
<1>1. DOMAIN entries \subseteq Nat \ {0}
  OBVIOUS
<1>2. CASE found = {}
  BY <1>2 DEF thread_map_index_of, First
<1>3. CASE found # {}
  <2>1. \E i \in found : \A j \in found : i <= j
    BY <1>1, <1>3, LeastNat
  <2>2. thread_map_index_of(r) \in found
    BY <1>3, <2>1 DEF thread_map_index_of, First
  <2> QED
    BY <1>1, <2>2
<1> QED
  BY <1>2, <1>3

LEMMA InitMapInv == Init => MapInv
<1>1. SUFFICES ASSUME Init PROVE MapInv
  OBVIOUS
<1>2. VarTypes
  <2>1. entries \in Seq(Entry) /\ Len(entries) = 0
    BY <1>1 DEF Init
  <2>2. result \in [Threads -> [rc : {"none", "ok", "EEXIST", "ENOENT", "ENOMEM"},
                                native : Natives]]
    BY InvalidIsNative, <1>1 DEF Init, NoResult
  <2>3. req \in [Threads -> Request]
    BY <1>1 DEF Init, Request
  <2>4. /\ life \in [Threads -> {"new", "starting", "running", "ending", "dead"}]
        /\ pc \in [Threads -> {"none", "lock", "search", "update", "unlock", "return"}]
        /\ index \in [Threads -> Nat]
    BY <1>1 DEF Init
  <2>5. exited \in BOOLEAN
    BY <1>1 DEF Init
  <2>6. /\ lock \in {0, 1} /\ capacity \in Nat /\ Len(entries) <= capacity
    BY <1>1, <2>1 DEF Init
  <2>7. tid \in [Threads -> NativeIds \cup {Invalid}]
    BY <1>1 DEF Init
  <2> QED
    BY <2>1, <2>2, <2>3, <2>4, <2>5, <2>6, <2>7 DEF VarTypes
<1>3. LockInv /\ IndexIsFresh /\ UniqueJavaIds
  BY <1>1 DEF Init, LockInv, InLock, IndexIsFresh, UniqueJavaIds
<1> QED
  BY <1>2, <1>3 DEF MapInv

(* A step that leaves the entries alone keeps a fresh index fresh.         *)
LEMMA FreshKept ==
  ASSUME IndexIsFresh, UNCHANGED entries,
         \A u \in Threads : pc'[u] = "update" =>
           /\ req'[u] = req[u]
           /\ \/ pc[u] = "update" /\ index'[u] = index[u]
              \/ index'[u] = thread_map_index_of(req[u])
  PROVE  IndexIsFresh'
<1>1. SUFFICES ASSUME NEW u \in Threads, pc'[u] = "update"
               PROVE  index'[u] = thread_map_index_of(req[u])'
  BY DEF IndexIsFresh
<1>2. thread_map_index_of(req[u])' = thread_map_index_of(req[u])
  BY <1>1 DEF thread_map_index_of, Matches
<1> QED
  BY <1>1, <1>2 DEF IndexIsFresh

(* A native id a call can carry.                                           *)
LEMMA CallsType ==
  ASSUME MapInv, NEW t \in Threads, pc[t] = "none", NEW op \in {"register", "unregister", "get"},
         NEW java \in Threads, NEW native \in Natives,
         Calls(t, op, java, native),
         life' \in [Threads -> {"new", "starting", "running", "ending", "dead"}],
         tid' \in [Threads -> NativeIds \cup {Invalid}],
         \A u \in Threads : u = t \/ Alive(u) => Alive(u)'
  PROVE  MapInv'
<1> DEFINE r == [op |-> op, java |-> java, native |-> native]
<1>1. /\ pc' = [pc EXCEPT ![t] = "lock"] /\ req' = [req EXCEPT ![t] = r]
      /\ UNCHANGED <<lock, entries, capacity, index, result, exited>>
  BY DEF Calls
<1>2. r \in Request /\ r # NoCall
  BY DEF Request, NoCall
<1> HIDE DEF r
<1>3. VarTypes'
  BY <1>1, <1>2 DEF MapInv, VarTypes
<1>4. pc \in [Threads -> {"none", "lock", "search", "update", "unlock", "return"}]
      /\ req \in [Threads -> Request]
  BY DEF MapInv, VarTypes
<1>5. LockInv'
  BY <1>1, <1>2, <1>4 DEF MapInv, LockInv, InLock
<1>6. IndexIsFresh'
  <2>1. \A u \in Threads : pc'[u] = "update" =>
          req'[u] = req[u] /\ pc[u] = "update" /\ index'[u] = index[u]
    BY <1>1, <1>4
  <2> QED
    BY <1>1, <2>1, FreshKept DEF MapInv
<1>7. UniqueJavaIds'
  BY <1>1 DEF MapInv, UniqueJavaIds
<1> QED
  BY <1>3, <1>5, <1>6, <1>7 DEF MapInv

LEMMA CallMapInv ==
  ASSUME MapInv, NEW t \in Threads, Call(t)
  PROVE  MapInv'
<1>1. /\ life \in [Threads -> {"new", "starting", "running", "ending", "dead"}]
      /\ tid \in [Threads -> NativeIds \cup {Invalid}]
  BY DEF MapInv, VarTypes
<1>2. tid[t] \in Natives
  BY <1>1 DEF Natives
<1>3. ASSUME NEW n \in NativeIds, ThreadStart(t, n) PROVE MapInv'
  <2>1. pc[t] = "none" /\ n \in Natives
    BY <1>3 DEF ThreadStart, Natives, MapInv, LockInv, Alive
  <2>2. /\ life' = [life EXCEPT ![t] = "starting"] /\ tid' = [tid EXCEPT ![t] = n]
        /\ Calls(t, "register", t, n)
    BY <1>3 DEF ThreadStart
  <2>3. /\ life' \in [Threads -> {"new", "starting", "running", "ending", "dead"}]
        /\ tid' \in [Threads -> NativeIds \cup {Invalid}]
        /\ \A u \in Threads : u = t \/ Alive(u) => Alive(u)'
    BY <1>1, <2>2 DEF Alive
  <2> QED
    BY <2>1, <2>2, <2>3, CallsType
<1>4. CASE ThreadEnd(t)
  <2>1. pc[t] = "none" /\ Calls(t, "unregister", t, tid[t]) /\ UNCHANGED tid
        /\ life' = [life EXCEPT ![t] = "ending"]
    BY <1>4 DEF ThreadEnd, CanCall
  <2>2. /\ life' \in [Threads -> {"new", "starting", "running", "ending", "dead"}]
        /\ tid' \in [Threads -> NativeIds \cup {Invalid}]
        /\ \A u \in Threads : u = t \/ Alive(u) => Alive(u)'
    BY <1>1, <2>1 DEF Alive
  <2> QED
    BY <1>2, <2>1, <2>2, CallsType
<1>5. CASE registerCurrentJavaThread(t)
  BY <1>1, <1>2, <1>5, CallsType DEF registerCurrentJavaThread, CanCall, Alive
<1>6. ASSUME NEW u \in Threads, NEW n \in Others, registerJavaThread(t, u, n) PROVE MapInv'
  BY <1>1, <1>6, CallsType DEF registerJavaThread, CanCall, Natives, Alive
<1>7. ASSUME NEW u \in Threads, getNativeId(t, u) PROVE MapInv'
  BY InvalidIsNative, <1>1, <1>7, CallsType DEF getNativeId, CanCall, Alive
<1> QED
  BY <1>3, <1>4, <1>5, <1>6, <1>7 DEF Call

(* The facts about the types that the steps use.                           *)
LEMMA Types ==
  ASSUME VarTypes
  PROVE  /\ lock \in {0, 1} /\ entries \in Seq(Entry) /\ capacity \in Nat
         /\ Len(entries) <= capacity
         /\ pc \in [Threads -> {"none", "lock", "search", "update", "unlock", "return"}]
         /\ req \in [Threads -> Request] /\ index \in [Threads -> Nat]
BY DEF VarTypes

LEMMA LockMapInv ==
  ASSUME MapInv, NEW t \in Threads, ubench_spinlock_lock(t)
  PROVE  MapInv'
<1>1. /\ pc[t] = "lock" /\ lock = 0 /\ lock' = 1 /\ pc' = [pc EXCEPT ![t] = "search"]
      /\ UNCHANGED <<entries, capacity, life, tid, req, index, result, exited>>
  BY DEF ubench_spinlock_lock
<1>2. pc \in [Threads -> {"none", "lock", "search", "update", "unlock", "return"}]
  BY Types DEF MapInv
<1>3. VarTypes'
  BY <1>1 DEF MapInv, VarTypes
<1>4. LockInv'
  BY <1>1, <1>2 DEF MapInv, LockInv, InLock, Alive
<1>5. IndexIsFresh' /\ UniqueJavaIds'
  BY <1>1, <1>2, FreshKept DEF MapInv, UniqueJavaIds
<1> QED
  BY <1>3, <1>4, <1>5 DEF MapInv

LEMMA SearchMapInv ==
  ASSUME MapInv, NEW t \in Threads, Search(t)
  PROVE  MapInv'
<1>1. /\ pc[t] = "search" /\ pc' = [pc EXCEPT ![t] = "update"]
      /\ index' = [index EXCEPT ![t] = thread_map_index_of(req[t])]
      /\ UNCHANGED <<lock, entries, capacity, life, tid, req, result, exited>>
  BY DEF Search
<1>2. /\ pc \in [Threads -> {"none", "lock", "search", "update", "unlock", "return"}]
      /\ index \in [Threads -> Nat] /\ entries \in Seq(Entry)
  BY Types DEF MapInv
<1>3. thread_map_index_of(req[t]) \in Nat
  BY <1>2, IndexOf
<1>4. VarTypes'
  <2>1. /\ index' \in [Threads -> Nat]
        /\ pc' \in [Threads -> {"none", "lock", "search", "update", "unlock", "return"}]
    BY <1>1, <1>2, <1>3
  <2> QED
    BY <1>1, <2>1 DEF MapInv, VarTypes
<1>5. LockInv'
  BY <1>1, <1>2 DEF MapInv, LockInv, InLock, Alive
<1>6. IndexIsFresh'
  BY <1>1, <1>2, FreshKept DEF MapInv
<1>7. UniqueJavaIds'
  BY <1>1 DEF MapInv, UniqueJavaIds
<1> QED
  BY <1>4, <1>5, <1>6, <1>7 DEF MapInv

LEMMA UnlockMapInv ==
  ASSUME MapInv, NEW t \in Threads, ubench_spinlock_unlock(t)
  PROVE  MapInv'
<1>1. /\ pc[t] = "unlock" /\ lock' = 0 /\ pc' = [pc EXCEPT ![t] = "return"]
      /\ UNCHANGED <<entries, capacity, life, tid, req, index, result, exited>>
  BY DEF ubench_spinlock_unlock
<1>2. pc \in [Threads -> {"none", "lock", "search", "update", "unlock", "return"}]
  BY Types DEF MapInv
<1>3. VarTypes'
  BY <1>1 DEF MapInv, VarTypes
<1>4. LockInv'
  BY <1>1, <1>2 DEF MapInv, LockInv, InLock, Alive
<1>5. IndexIsFresh' /\ UniqueJavaIds'
  BY <1>1, <1>2, FreshKept DEF MapInv, UniqueJavaIds
<1> QED
  BY <1>3, <1>4, <1>5 DEF MapInv

LEMMA ReturnMapInv ==
  ASSUME MapInv, NEW t \in Threads, Return(t)
  PROVE  MapInv'
<1>1. /\ pc[t] = "return" /\ UNCHANGED <<lock, entries, capacity, tid>>
  BY DEF Return
<1>2. /\ pc \in [Threads -> {"none", "lock", "search", "update", "unlock", "return"}]
      /\ req \in [Threads -> Request] /\ index \in [Threads -> Nat]
      /\ life \in [Threads -> {"new", "starting", "running", "ending", "dead"}]
      /\ result \in [Threads -> [rc : {"none", "ok", "EEXIST", "ENOENT", "ENOMEM"},
                                 native : Natives]]
  BY DEF MapInv, VarTypes
<1>3. CASE exited' = TRUE /\ UNCHANGED <<life, pc, req, index, result>>
  <2>1. VarTypes'
    BY <1>1, <1>3 DEF MapInv, VarTypes
  <2> QED
    BY <1>1, <1>3, <2>1 DEF MapInv, LockInv, InLock, Alive, IndexIsFresh, UniqueJavaIds,
       thread_map_index_of, Matches
<1>4. CASE /\ life' = [life EXCEPT ![t] = AfterCallback(@)]
           /\ pc' = [pc EXCEPT ![t] = "none"] /\ req' = [req EXCEPT ![t] = NoCall]
           /\ index' = [index EXCEPT ![t] = 0] /\ result' = [result EXCEPT ![t] = NoResult]
           /\ UNCHANGED exited
  <2>1. AfterCallback(life[t]) \in {"new", "starting", "running", "ending", "dead"}
    BY <1>2 DEF AfterCallback
  <2>2. NoCall \in Request /\ NoResult \in [rc : {"none", "ok", "EEXIST", "ENOENT", "ENOMEM"},
                                            native : Natives]
    BY InvalidIsNative DEF Request, NoResult
  <2>3. /\ life' \in [Threads -> {"new", "starting", "running", "ending", "dead"}]
        /\ pc' \in [Threads -> {"none", "lock", "search", "update", "unlock", "return"}]
        /\ req' \in [Threads -> Request] /\ index' \in [Threads -> Nat]
        /\ result' \in [Threads -> [rc : {"none", "ok", "EEXIST", "ENOENT", "ENOMEM"},
                                    native : Natives]]
    BY <1>2, <1>4, <2>1, <2>2
  <2>4. VarTypes'
    BY <1>1, <1>4, <2>3 DEF MapInv, VarTypes
  <2>5. LockInv'
    BY <1>1, <1>2, <1>4 DEF MapInv, LockInv, InLock, Alive
  <2>6. IndexIsFresh' /\ UniqueJavaIds'
    BY <1>1, <1>2, <1>4, FreshKept DEF MapInv, UniqueJavaIds
  <2> QED
    BY <2>4, <2>5, <2>6 DEF MapInv
<1> QED
  BY <1>3, <1>4 DEF Return

(* A call acts on the entries it has searched: the map and the abstract    *)
(* registry agree on whether there is an entry.                            *)
LEMMA Found ==
  ASSUME MapInv, NEW t \in Threads, pc[t] = "update"
  PROVE  /\ req[t] # NoCall /\ InLock(t)
         /\ index[t] = 0 => \A j \in DOMAIN entries : ~Matches(req[t], entries[j])
         /\ index[t] # 0 => index[t] \in DOMAIN entries /\ Matches(req[t], entries[index[t]])
         /\ \A u \in Threads : InLock(u) => u = t
<1>1. index[t] = thread_map_index_of(req[t]) /\ entries \in Seq(Entry)
  BY Types DEF MapInv, IndexIsFresh
<1>2. req[t] # NoCall /\ InLock(t) /\ \A u \in Threads : InLock(u) => u = t
  BY DEF MapInv, LockInv, InLock
<1> QED
  BY <1>1, <1>2, IndexOf

(* The entries without one of them.                                        *)
LEMMA WithoutProperties ==
  ASSUME entries \in Seq(Entry), UniqueJavaIds, NEW i \in DOMAIN entries
  PROVE  /\ Without(i) \in Seq(Entry) /\ Len(Without(i)) = Len(entries) - 1
         /\ \A k \in DOMAIN Without(i) : \E j \in DOMAIN entries : j # i /\ Without(i)[k] = entries[j]
         /\ \A j \in DOMAIN entries : j # i => \E k \in DOMAIN Without(i) : Without(i)[k] = entries[j]
         /\ \A k, l \in DOMAIN Without(i) :
              Without(i)[k].java_id = Without(i)[l].java_id => k = l
<1> DEFINE n == Len(entries)
           w == Without(i)
           from(k) == IF k = i THEN n ELSE k
<1>1. n \in Nat /\ DOMAIN entries = 1 .. n /\ n >= 1 /\ n - 1 \in Nat
  OBVIOUS
<1>2. \A k \in 1 .. n - 1 : from(k) \in 1 .. n /\ from(k) # i
  BY <1>1
<1>3. DOMAIN w = 1 .. n - 1 /\ \A k \in 1 .. n - 1 : w[k] = entries[from(k)]
  BY DEF Without
<1>4. \A k \in 1 .. n - 1 : w[k] \in Entry
  BY <1>1, <1>2, <1>3
<1>5. w \in Seq(Entry) /\ Len(w) = n - 1
  <2> DEFINE m == n - 1
  <2>1. w \in [1 .. m -> Entry] /\ m \in Nat
    BY <1>1, <1>3, <1>4 DEF Without
  <2> HIDE DEF w, m
  <2>2. w \in Seq(Entry) /\ Len(w) = m
    BY <2>1
  <2> QED
    BY <2>2 DEF m
<1>6. ASSUME NEW j \in 1 .. n, j # i
      PROVE  \E k \in 1 .. n - 1 : w[k] = entries[j]
  <2>1. CASE j = n
    <3>1. i \in 1 .. n - 1 /\ from(i) = n
      BY <1>1, <1>6, <2>1
    <3> QED
      BY <1>3, <2>1, <3>1
  <2>2. CASE j # n
    <3>1. j \in 1 .. n - 1
      <4> HIDE DEF n
      <4> QED
        BY <1>1, <1>6, <2>2
    <3>2. from(j) = j
      BY <1>6
    <3> QED
      BY <1>3, <3>1, <3>2
  <2> QED
    BY <2>1, <2>2
<1>7. \A k, l \in 1 .. n - 1 : from(k) = from(l) => k = l
  BY <1>1
<1> HIDE DEF from, w
<1>8. \A k, l \in 1 .. n - 1 : w[k].java_id = w[l].java_id => k = l
  BY <1>1, <1>2, <1>3, <1>7 DEF UniqueJavaIds
<1>9. \A k \in DOMAIN w : \E j \in DOMAIN entries : j # i /\ w[k] = entries[j]
  BY <1>1, <1>2, <1>3
<1>10. \A j \in DOMAIN entries : j # i => \E k \in DOMAIN w : w[k] = entries[j]
  BY <1>1, <1>3, <1>6
<1>11. \A k, l \in DOMAIN w : w[k].java_id = w[l].java_id => k = l
  BY <1>3, <1>8
<1> QED
  BY <1>5, <1>9, <1>10, <1>11 DEF w

LEMMA UpdateMapInv ==
  ASSUME MapInv, NEW t \in Threads, pc[t] = "update",
         NEW rc \in {"ok", "EEXIST", "ENOENT", "ENOMEM"}, NEW native \in Natives,
         Finds(t, rc, native), UniqueJavaIds',
         entries' \in Seq(Entry), capacity' \in Nat, Len(entries') <= capacity'
  PROVE  MapInv'
<1> DEFINE Results == [rc : {"none", "ok", "EEXIST", "ENOENT", "ENOMEM"},
                       native : Natives]
           r == [rc |-> rc, native |-> native]
<1>1. /\ result' = [result EXCEPT ![t] = r] /\ pc' = [pc EXCEPT ![t] = "unlock"]
      /\ UNCHANGED <<lock, life, tid, req, index, exited>>
  BY DEF Finds
<1>2. /\ pc \in [Threads -> {"none", "lock", "search", "update", "unlock", "return"}]
      /\ result \in [Threads -> Results]
  BY DEF MapInv, VarTypes
<1>3. r \in Results
  OBVIOUS
<1> HIDE DEF r, Results
<1>4. /\ pc' \in [Threads -> {"none", "lock", "search", "update", "unlock", "return"}]
      /\ result' \in [Threads -> Results]
  BY <1>1, <1>2, <1>3
<1>5. VarTypes'
  BY <1>1, <1>4 DEF MapInv, VarTypes, Results
<1>6. LockInv'
  BY <1>1, <1>2 DEF MapInv, LockInv, InLock, Alive
<1>7. \A u \in Threads : pc'[u] # "update"
  BY <1>1, <1>2, Found DEF InLock
<1>8. IndexIsFresh'
  BY <1>7 DEF IndexIsFresh
<1> QED
  BY <1>5, <1>6, <1>8 DEF MapInv

(* The request of a call.                                                  *)
LEMMA RequestType ==
  ASSUME MapInv, NEW t \in Threads, req[t] # NoCall
  PROVE  /\ req[t].op \in {"register", "unregister", "get"} /\ req[t].java \in Threads
         /\ req[t].native \in Natives
<1>1. req[t] \in Request
  BY Types DEF MapInv
<1> QED
  BY <1>1 DEF Request

LEMMA PutMapInv ==
  ASSUME MapInv, NEW t \in Threads, NEW ok, thread_map_put_java_thread(t, ok)
  PROVE  MapInv'
<1> DEFINE e == [java_id |-> req[t].java, native_id |-> req[t].native]
<1>1. pc[t] = "update" /\ req[t].op = "register"
  BY DEF thread_map_put_java_thread
<1>2. entries \in Seq(Entry) /\ capacity \in Nat /\ Len(entries) <= capacity /\ UniqueJavaIds
  BY Types DEF MapInv
<1>3. CASE UNCHANGED <<entries, capacity>> /\ (Finds(t, "EEXIST", Invalid) \/ Finds(t, "ENOMEM", Invalid))
  BY InvalidIsNative, <1>1, <1>2, <1>3, UpdateMapInv DEF UniqueJavaIds
<1>4. CASE /\ index[t] = 0 /\ Finds(t, "ok", Invalid) /\ entries' = Append(entries, e)
           /\ capacity' = NewCapacity
  <2>1. e \in Entry
    BY <1>1, Found, RequestType DEF Entry
  <2>2. \A j \in DOMAIN entries : entries[j].java_id # e.java_id
    BY <1>1, <1>4, Found DEF Matches
  <2> HIDE DEF e
  <2>3. /\ entries' \in Seq(Entry) /\ Len(entries') = Len(entries) + 1
        /\ DOMAIN entries' = 1 .. Len(entries) + 1 /\ entries'[Len(entries) + 1] = e
        /\ \A j \in 1 .. Len(entries) : entries'[j] = entries[j]
    BY <1>2, <1>4, <2>1
  <2>4. UniqueJavaIds'
    <3>1. DOMAIN entries = 1 .. Len(entries) /\ Len(entries) \in Nat
      BY <1>2
    <3>2. \A j \in DOMAIN entries' : j = Len(entries) + 1 \/ j \in DOMAIN entries
      BY <2>3, <3>1
    <3> QED
      BY <1>2, <2>2, <2>3, <3>1, <3>2 DEF UniqueJavaIds
  <2>5. capacity' \in Nat /\ Len(entries') <= capacity'
    BY <1>2, <1>4, <2>3 DEF NewCapacity
  <2> QED
    BY InvalidIsNative, <1>1, <1>4, <2>3, <2>4, <2>5, UpdateMapInv
<1> QED
  BY <1>3, <1>4 DEF thread_map_put_java_thread

LEMMA RemoveMapInv ==
  ASSUME MapInv, NEW t \in Threads, thread_map_remove_native_thread(t)
  PROVE  MapInv'
<1>1. pc[t] = "update" /\ req[t].op = "unregister" /\ UNCHANGED capacity
  BY DEF thread_map_remove_native_thread
<1>2. entries \in Seq(Entry) /\ capacity \in Nat /\ Len(entries) <= capacity /\ UniqueJavaIds
  BY Types DEF MapInv
<1>3. CASE UNCHANGED entries /\ Finds(t, "ENOENT", Invalid)
  BY InvalidIsNative, <1>1, <1>2, <1>3, UpdateMapInv DEF UniqueJavaIds
<1>4. CASE index[t] # 0 /\ Finds(t, "ok", Invalid) /\ entries' = Without(index[t])
  <2>1. index[t] \in DOMAIN entries
    BY <1>1, <1>4, Found
  <2>2. /\ entries' \in Seq(Entry) /\ Len(entries') = Len(entries) - 1 /\ UniqueJavaIds'
    BY <1>2, <1>4, <2>1, WithoutProperties DEF UniqueJavaIds
  <2>3. Len(entries') <= capacity'
    BY <1>1, <1>2, <2>2
  <2> QED
    BY InvalidIsNative, <1>1, <1>2, <1>4, <2>2, <2>3, UpdateMapInv
<1> QED
  BY <1>3, <1>4 DEF thread_map_remove_native_thread

LEMMA GetMapInv ==
  ASSUME MapInv, NEW t \in Threads, ubench_threads_get_native_id(t)
  PROVE  MapInv'
<1> DEFINE n == IF index[t] # 0 THEN entries[index[t]].native_id ELSE Invalid
<1>1. pc[t] = "update" /\ Finds(t, "ok", n) /\ UNCHANGED <<entries, capacity>>
  BY DEF ubench_threads_get_native_id
<1>2. entries \in Seq(Entry) /\ capacity \in Nat /\ Len(entries) <= capacity /\ UniqueJavaIds
  BY Types DEF MapInv
<1>3. index[t] # 0 => entries[index[t]] \in Entry
  BY <1>1, <1>2, Found
<1>4. n \in Natives
  BY InvalidIsNative, <1>3 DEF Entry
<1> HIDE DEF n
<1> QED
  BY <1>1, <1>2, <1>4, UpdateMapInv DEF UniqueJavaIds

LEMMA NextMapInv ==
  ASSUME MapInv, [Next]_vars
  PROVE  MapInv'
<1>1. ASSUME NEW t \in Threads, Call(t) PROVE MapInv'
  BY <1>1, CallMapInv
<1>2. ASSUME NEW t \in Threads, Step(t) PROVE MapInv'
  BY <1>2, LockMapInv, SearchMapInv, UnlockMapInv, ReturnMapInv, PutMapInv, RemoveMapInv, GetMapInv
     DEF Step, Update
<1>3. CASE UNCHANGED vars
  BY <1>3 DEF vars, MapInv, VarTypes, LockInv, InLock, Alive, IndexIsFresh, UniqueJavaIds,
     thread_map_index_of, Matches
<1> QED
  BY <1>1, <1>2, <1>3 DEF Next

(* The types hold, the entries always fit the allocated array              *)
(* (thread_map_ensure_capacity in threads.c), and the index with which     *)
(* thread_map_remove_native_thread removes an entry is within them.        *)
THEOREM MapTypeCorrect == Spec => []TypeOK
<1>1. Spec => []MapInv
  BY InitMapInv, NextMapInv, PTL DEF Spec
<1>2. ASSUME MapInv PROVE TypeOK
  <2>1. VarTypes /\ entries \in Seq(Entry) /\ Len(entries) <= capacity
    BY <1>2 DEF MapInv, VarTypes
  <2>2. ASSUME NEW t \in Threads, pc[t] = "update" PROVE index[t] \in 0 .. Len(entries)
    <3>1. index[t] = thread_map_index_of(req[t])
      BY <1>2, <2>2 DEF MapInv, IndexIsFresh
    <3>2. index[t] \in Nat /\ (index[t] # 0 => index[t] \in DOMAIN entries)
      BY <2>1, <3>1, IndexOf
    <3> QED
      BY <2>1, <3>2
  <2> QED
    BY <2>1, <2>2 DEF TypeOK
<1> QED
  BY <1>1, <1>2, PTL

(* The spinlock (mylock.h) keeps the search of the map and the update it   *)
(* leads to together, whatever the clients register.                       *)
THEOREM SearchStaysValid == Spec => []IndexIsFresh
<1>1. Spec => []MapInv
  BY InitMapInv, NextMapInv, PTL DEF Spec
<1>2. MapInv => IndexIsFresh
  BY DEF MapInv
<1> QED
  BY <1>1, <1>2, PTL

(* A Java thread is registered at most once, whatever the clients do       *)
(* (thread_map_put_java_thread in threads.c).                              *)
THEOREM RegisteredOnce == Spec => []UniqueJavaIds
<1>1. Spec => []MapInv
  BY InitMapInv, NextMapInv, PTL DEF Spec
<1>2. MapInv => UniqueJavaIds
  BY DEF MapInv
<1> QED
  BY <1>1, <1>2, PTL

(***************************************************************************)
(* The map implements ThreadRegistry: an operation takes effect in the     *)
(* step that updates the entries and fixes the result.                     *)
(***************************************************************************)

(* A call has a result from the update on, and no other thread has one; a  *)
(* thread outside any call has no request.                                 *)
Answered(t) == pc[t] \in {"unlock", "return"}
ResultInv ==
  \A t \in Threads : /\ Answered(t) <=> result[t] # NoResult
                     /\ pc[t] = "none" => req[t] = NoCall

LEMMA InitResult == Init => ResultInv
BY DEF Init, ResultInv, Answered

LEMMA CallResult ==
  ASSUME MapInv, ResultInv, NEW t \in Threads, Call(t)
  PROVE  ResultInv'
<1>1. /\ pc[t] = "none" /\ pc' = [pc EXCEPT ![t] = "lock"] /\ UNCHANGED result
      /\ \E r : req' = [req EXCEPT ![t] = r]
  <2>1. ASSUME NEW n \in NativeIds, ThreadStart(t, n) PROVE pc[t] = "none"
    BY <2>1 DEF ThreadStart, MapInv, LockInv, Alive
  <2> QED
    BY <2>1 DEF Call, ThreadStart, ThreadEnd, registerCurrentJavaThread, registerJavaThread,
       getNativeId, CanCall, Calls
<1>2. /\ pc \in [Threads -> {"none", "lock", "search", "update", "unlock", "return"}]
      /\ req \in [Threads -> Request]
  BY Types DEF MapInv
<1>3. pc'[t] = "lock" /\ \A u \in Threads \ {t} : pc'[u] = pc[u] /\ req'[u] = req[u]
  BY <1>1, <1>2
<1> QED
  BY <1>1, <1>3 DEF ResultInv, Answered

LEMMA UpdateResult ==
  ASSUME MapInv, ResultInv, NEW t \in Threads, NEW rc \in {"ok", "EEXIST", "ENOENT", "ENOMEM"},
         NEW native, Finds(t, rc, native)
  PROVE  ResultInv'
<1> DEFINE r == [rc |-> rc, native |-> native]
<1>1. /\ result' = [result EXCEPT ![t] = r] /\ pc' = [pc EXCEPT ![t] = "unlock"]
      /\ UNCHANGED req
  BY DEF Finds
<1>2. r # NoResult
  <2>1. r.rc # NoResult.rc
    BY DEF NoResult
  <2> QED
    BY <2>1
<1> HIDE DEF r
<1>3. t \in DOMAIN result /\ t \in DOMAIN pc
      /\ result \in [Threads -> [rc : {"none", "ok", "EEXIST", "ENOENT", "ENOMEM"}, native : Natives]]
      /\ pc \in [Threads -> {"none", "lock", "search", "update", "unlock", "return"}]
  BY DEF MapInv, VarTypes
<1>4. /\ pc'[t] = "unlock" /\ result'[t] = r
      /\ \A u \in Threads \ {t} : pc'[u] = pc[u] /\ result'[u] = result[u]
  BY <1>1, <1>3
<1> QED
  BY <1>1, <1>2, <1>4 DEF ResultInv, Answered

LEMMA StepResult ==
  ASSUME MapInv, ResultInv, NEW t \in Threads, Step(t)
  PROVE  ResultInv'
<1>1. /\ pc \in [Threads -> {"none", "lock", "search", "update", "unlock", "return"}]
      /\ result \in [Threads -> [rc : {"none", "ok", "EEXIST", "ENOENT", "ENOMEM"}, native : Natives]]
      /\ req \in [Threads -> Request]
  BY DEF MapInv, VarTypes
<1>2. CASE ubench_spinlock_lock(t) \/ Search(t) \/ ubench_spinlock_unlock(t)
  BY <1>1, <1>2 DEF ubench_spinlock_lock, Search, ubench_spinlock_unlock, ResultInv, Answered
<1>3. CASE Update(t)
  <2>1. \E rc \in {"ok", "EEXIST", "ENOENT", "ENOMEM"} : \E native : Finds(t, rc, native)
    BY <1>3 DEF Update, thread_map_put_java_thread, thread_map_remove_native_thread,
       ubench_threads_get_native_id
  <2> QED
    BY <2>1, UpdateResult
<1>4. CASE Return(t)
  <2>1. CASE UNCHANGED <<pc, req, result>>
    BY <2>1 DEF ResultInv, Answered
  <2>2. CASE /\ pc' = [pc EXCEPT ![t] = "none"] /\ req' = [req EXCEPT ![t] = NoCall]
             /\ result' = [result EXCEPT ![t] = NoResult]
    <3>1. /\ pc'[t] = "none" /\ req'[t] = NoCall /\ result'[t] = NoResult
          /\ \A u \in Threads \ {t} : pc'[u] = pc[u] /\ req'[u] = req[u] /\ result'[u] = result[u]
      BY <1>1, <2>2
    <3> QED
      BY <3>1 DEF ResultInv, Answered
  <2> QED
    BY <1>4, <2>1, <2>2 DEF Return
<1> QED
  BY <1>2, <1>3, <1>4 DEF Step

LEMMA NextResult ==
  ASSUME MapInv, ResultInv, [Next]_vars
  PROVE  ResultInv'
<1>1. CASE UNCHANGED vars
  BY <1>1 DEF vars, ResultInv, Answered
<1> QED
  BY <1>1, CallResult, StepResult DEF Next

LEMMA InitRegistry == Init => Registry!Init
<1>1. SUFFICES ASSUME Init PROVE Registry!Init
  OBVIOUS
<1>2. entries = <<>> /\ DOMAIN entries = {}
  BY <1>1 DEF Init
<1>3. Registered = {}
  BY <1>2 DEF Registered
<1> QED
  BY <1>1, <1>3 DEF Init, Registry!Init, NoResult, Registry!NoResult, NoCall, Registry!NoCall

(* What the update of a call leaves to show of the registry's step.        *)
LEMMA Answers ==
  ASSUME ResultInv, NEW t \in Threads, pc[t] = "update", NEW rc, NEW native,
         Finds(t, rc, native)
  PROVE  Registry!Pending(t, req[t].op) /\ Registry!Answer(t, rc, native)
<1>1. result[t] = NoResult
  BY DEF ResultInv, Answered
<1> QED
  BY <1>1 DEF Finds, Registry!Pending, Registry!Answer, NoResult, Registry!NoResult

LEMMA PutRegisters ==
  ASSUME MapInv, ResultInv, NEW t \in Threads, NEW ok, thread_map_put_java_thread(t, ok)
  PROVE  Registry!Register(t)
<1> DEFINE e == [java_id |-> req[t].java, native_id |-> req[t].native]
<1>1. pc[t] = "update" /\ req[t].op = "register" /\ entries \in Seq(Entry)
  BY Types DEF thread_map_put_java_thread, MapInv
<1>2. index[t] = 0 => Registry!OfJava(req[t].java) = {}
  BY <1>1, Found DEF Matches, Registry!OfJava, Registered
<1>3. index[t] # 0 => Registry!OfJava(req[t].java) # {}
  BY <1>1, Found DEF Matches, Registry!OfJava, Registered
<1>4. CASE index[t] # 0 /\ Finds(t, "EEXIST", Invalid) /\ UNCHANGED entries
  <2>1. UNCHANGED Registered
    BY <1>4 DEF Registered
  <2> QED
    BY <1>1, <1>3, <1>4, <2>1, Answers DEF Registry!Register
<1>5. CASE index[t] = 0 /\ Finds(t, "ENOMEM", Invalid) /\ UNCHANGED entries
  <2>1. UNCHANGED Registered
    BY <1>5 DEF Registered
  <2> QED
    BY <1>1, <1>2, <1>5, <2>1, Answers DEF Registry!Register
<1>6. CASE index[t] = 0 /\ Finds(t, "ok", Invalid) /\ entries' = Append(entries, e)
  <2>1. Registered' = Registered \cup {e}
    <3> HIDE DEF e
    <3>1. /\ DOMAIN entries = 1 .. Len(entries) /\ Len(entries) \in Nat
          /\ DOMAIN entries' = 1 .. Len(entries) + 1 /\ entries'[Len(entries) + 1] = e
          /\ \A j \in 1 .. Len(entries) : entries'[j] = entries[j]
      BY <1>1, <1>6
    <3>2. \A j \in DOMAIN entries' : j = Len(entries) + 1 \/ j \in DOMAIN entries
      BY <3>1
    <3>3. DOMAIN entries \subseteq DOMAIN entries' /\ Len(entries) + 1 \in DOMAIN entries'
      BY <3>1
    <3> QED
      BY <3>1, <3>2, <3>3 DEF Registered
  <2> QED
    BY <1>1, <1>2, <1>6, <2>1, Answers DEF Registry!Register
<1> QED
  BY <1>4, <1>5, <1>6 DEF thread_map_put_java_thread

LEMMA RemoveUnregisters ==
  ASSUME MapInv, ResultInv, NEW t \in Threads, thread_map_remove_native_thread(t)
  PROVE  Registry!Unregister(t)
<1>1. /\ pc[t] = "update" /\ req[t].op = "unregister" /\ entries \in Seq(Entry) /\ UniqueJavaIds
  BY Types DEF thread_map_remove_native_thread, MapInv
<1>2. CASE index[t] = 0 /\ Finds(t, "ENOENT", Invalid) /\ UNCHANGED entries
  <2>1. Registry!OfNative(req[t].native) = {} /\ UNCHANGED Registered
    BY <1>1, <1>2, Found DEF Matches, Registry!OfNative, Registered
  <2> QED
    BY <1>1, <1>2, <2>1, Answers DEF Registry!Unregister
<1>3. CASE index[t] # 0 /\ Finds(t, "ok", Invalid) /\ entries' = Without(index[t])
  <2> DEFINE i == index[t]
             e == entries[i]
  <2>1. i \in DOMAIN entries /\ e.native_id = req[t].native
    BY <1>1, <1>3, Found DEF Matches
  <2>2. e \in Registry!OfNative(req[t].native)
    BY <2>1 DEF Registry!OfNative, Registered
  <2>3. /\ \A k \in DOMAIN entries' : \E j \in DOMAIN entries : j # i /\ entries'[k] = entries[j]
        /\ \A j \in DOMAIN entries : j # i => \E k \in DOMAIN entries' : entries'[k] = entries[j]
    <3>1. entries' = Without(i)
      BY <1>3
    <3> HIDE DEF i
    <3>2. /\ \A k \in DOMAIN Without(i) : \E j \in DOMAIN entries : j # i /\ Without(i)[k] = entries[j]
          /\ \A j \in DOMAIN entries : j # i => \E k \in DOMAIN Without(i) : Without(i)[k] = entries[j]
      BY <1>1, <2>1, WithoutProperties
    <3> QED
      BY <3>1, <3>2
  <2>4. \A j \in DOMAIN entries : j # i => entries[j] # e
    BY <1>1, <2>1 DEF UniqueJavaIds
  <2> HIDE DEF i, e
  <2>5. Registered' = Registered \ {e}
    BY <2>3, <2>4 DEF Registered, e
  <2> QED
    BY <1>1, <1>3, <2>2, <2>5, Answers DEF Registry!Unregister
<1> QED
  BY <1>2, <1>3 DEF thread_map_remove_native_thread

LEMMA GetGets ==
  ASSUME MapInv, ResultInv, NEW t \in Threads, ubench_threads_get_native_id(t)
  PROVE  Registry!GetNativeId(t)
<1>1. pc[t] = "update" /\ req[t].op = "get" /\ UNCHANGED Registered
  BY DEF ubench_threads_get_native_id, Registered
<1>2. CASE index[t] = 0
  <2>1. Registry!OfJava(req[t].java) = {} /\ Finds(t, "ok", Invalid)
    BY <1>1, <1>2, Found DEF Matches, Registry!OfJava, Registered, ubench_threads_get_native_id
  <2> QED
    BY <1>1, <2>1, Answers DEF Registry!GetNativeId
<1>3. CASE index[t] # 0
  <2> DEFINE e == entries[index[t]]
  <2>1. e \in Registry!OfJava(req[t].java) /\ Finds(t, "ok", e.native_id)
    BY <1>1, <1>3, Found DEF Matches, Registry!OfJava, Registered, ubench_threads_get_native_id
  <2> HIDE DEF e
  <2> QED
    BY <1>1, <2>1, Answers DEF Registry!GetNativeId
<1> QED
  BY <1>2, <1>3

LEMMA CallAsks ==
  ASSUME MapInv, ResultInv, NEW t \in Threads, Call(t)
  PROVE  \E r \in Registry!Requests : Registry!Ask(t, r)
<1>1. ASSUME pc[t] = "none", NEW op \in {"register", "unregister", "get"}, NEW java \in Threads,
             NEW native \in Natives, Calls(t, op, java, native)
      PROVE  \E r \in Registry!Requests : Registry!Ask(t, r)
  <2> DEFINE r == [op |-> op, java |-> java, native |-> native]
  <2>1. r \in Registry!Requests
    BY <1>1 DEF Registry!Requests
  <2>2. /\ req[t] = NoCall /\ req' = [req EXCEPT ![t] = r]
        /\ UNCHANGED <<Registered, result>>
    BY <1>1 DEF ResultInv, Calls, Registered
  <2> HIDE DEF r
  <2>3. Registry!Ask(t, r)
    BY <2>2 DEF Registry!Ask, NoCall, Registry!NoCall
  <2> QED
    BY <2>1, <2>3
<1>2. tid \in [Threads -> NativeIds \cup {Invalid}]
  BY DEF MapInv, VarTypes
<1>3. tid[t] \in Natives /\ NativeIds \subseteq Natives /\ Others \subseteq Natives
  BY <1>2 DEF Natives
<1>4. ASSUME NEW n \in NativeIds, ThreadStart(t, n)
      PROVE  \E r \in Registry!Requests : Registry!Ask(t, r)
  <2>1. pc[t] = "none" /\ Calls(t, "register", t, n)
    BY <1>4 DEF ThreadStart, MapInv, LockInv, Alive
  <2> QED
    BY <1>1, <1>3, <2>1
<1>5. CASE ThreadEnd(t)
  BY <1>1, <1>3, <1>5 DEF ThreadEnd, CanCall
<1>6. CASE registerCurrentJavaThread(t)
  BY <1>1, <1>3, <1>6 DEF registerCurrentJavaThread, CanCall
<1>7. ASSUME NEW u \in Threads, NEW n \in Others, registerJavaThread(t, u, n)
      PROVE  \E r \in Registry!Requests : Registry!Ask(t, r)
  BY <1>1, <1>3, <1>7 DEF registerJavaThread, CanCall
<1>8. ASSUME NEW u \in Threads, getNativeId(t, u)
      PROVE  \E r \in Registry!Requests : Registry!Ask(t, r)
  BY <1>1, <1>8, InvalidIsNative DEF getNativeId, CanCall
<1> QED
  BY <1>4, <1>5, <1>6, <1>7, <1>8 DEF Call

LEMMA ReturnReturns ==
  ASSUME ResultInv, NEW t \in Threads, Return(t)
  PROVE  Registry!Return(t) \/ UNCHANGED <<Registered, req, result>>
<1>1. result[t] # NoResult /\ UNCHANGED Registered
  BY DEF ResultInv, Answered, Return, Registered
<1> QED
  BY <1>1 DEF Return, Registry!Return, NoResult, Registry!NoResult, NoCall, Registry!NoCall

LEMMA NextRegistry ==
  ASSUME MapInv, ResultInv, [Next]_vars
  PROVE  [Registry!Next]_(Registry!vars)
<1>1. ASSUME NEW t \in Threads, Call(t) PROVE Registry!Next
  BY <1>1, CallAsks DEF Registry!Next
<1>2. ASSUME NEW t \in Threads, ubench_spinlock_lock(t) \/ Search(t) \/ ubench_spinlock_unlock(t)
      PROVE  UNCHANGED <<Registered, req, result>>
  BY <1>2 DEF ubench_spinlock_lock, Search, ubench_spinlock_unlock, Registered
<1>3. ASSUME NEW t \in Threads, Return(t)
      PROVE  Registry!Next \/ UNCHANGED <<Registered, req, result>>
  BY <1>3, ReturnReturns DEF Registry!Next
<1>4. ASSUME NEW t \in Threads, Update(t) PROVE Registry!Next
  BY <1>4, PutRegisters, RemoveUnregisters, GetGets DEF Update, Registry!Next
<1>5. ASSUME UNCHANGED vars PROVE UNCHANGED <<Registered, req, result>>
  BY <1>5 DEF vars, Registered
<1>6. Registry!Next \/ UNCHANGED <<Registered, req, result>>
  BY <1>1, <1>2, <1>3, <1>4, <1>5 DEF Next, Step
<1> QED
  BY <1>6 DEF Registry!vars

(* The map with its spinlock (threads.c, mylock.h) implements the registry *)
(* with atomic operations, for any number of threads.                      *)
THEOREM MapImplementsRegistry == Spec => ImplementsRegistry
<1>1. Init => MapInv /\ ResultInv
  BY InitMapInv, InitResult
<1>2. MapInv /\ ResultInv /\ [Next]_vars => (MapInv /\ ResultInv)'
  BY NextMapInv, NextResult
<1>3. MapInv /\ ResultInv /\ [Next]_vars => [Registry!Next]_(Registry!vars)
  BY NextRegistry
<1> QED
  BY <1>1, <1>2, <1>3, InitRegistry, PTL DEF Spec, ImplementsRegistry, Registry!Spec

(***************************************************************************)
(* Threads that register only themselves: Others is empty.                 *)
(***************************************************************************)

LEMMA EntryTypes ==
  ASSUME entries \in Seq(Entry)
  PROVE  \A i \in DOMAIN entries : entries[i].java_id \in Threads
<1>1. \A i \in DOMAIN entries : entries[i] \in Entry
  OBVIOUS
<1> QED
  BY <1>1 DEF Entry

LEMMA InitSelf == Init => SelfInv
<1>1. SUFFICES ASSUME Init PROVE SelfInv
  OBVIOUS
<1>2. DOMAIN entries = {} /\ \A t \in Threads : pc[t] = "none"
  BY <1>1 DEF Init
<1>3. \A t \in Threads : life[t] = IF t \in Early THEN "running" ELSE "new"
  BY <1>1 DEF Init
<1>4. \A t, u \in Threads : Alive(t) /\ Alive(u) /\ tid[t] = tid[u] => t = u
  BY <1>1, <1>3 DEF Init, Alive
<1>5. \A t \in Threads : OwnCall(t)
  BY <1>2, <1>3 DEF OwnCall
<1> QED
  BY <1>2, <1>3, <1>4, <1>5 DEF SelfInv, EntriesAreTrue

(* A step of the lock or of the search: nothing the invariant is about.    *)
LEMMA QuietSelf ==
  ASSUME SelfInv, MapInv, NEW t \in Threads, NEW to \in {"search", "update", "return"},
         UNCHANGED <<entries, life, tid, req, result>>,
         pc[t] # "none", pc' = [pc EXCEPT ![t] = to],
         to = "return" => pc[t] = "unlock"
  PROVE  SelfInv'
<1>1. pc \in [Threads -> {"none", "lock", "search", "update", "unlock", "return"}]
  BY Types DEF MapInv
<1>2. \A u \in Threads : /\ pc'[u] = "none" <=> pc[u] = "none"
                        /\ pc'[u] \in {"unlock", "return"} => pc[u] \in {"unlock", "return"}
  BY <1>1
<1>3. EntriesAreTrue' /\ \A u \in Threads : IsIn(u)' <=> IsIn(u)
  BY DEF SelfInv, EntriesAreTrue, Alive, IsIn
<1>4. \A u \in Threads : OwnCall(u)'
  BY <1>2 DEF SelfInv, OwnCall
<1>5. \A u, v \in Threads : (Alive(u) /\ Alive(v) /\ tid[u] = tid[v])' => u = v
  BY DEF SelfInv, Alive
<1> QED
  BY <1>2, <1>3, <1>4, <1>5 DEF SelfInv

(* A thread enters a call.                                                 *)
LEMMA CallsSelf ==
  ASSUME SelfInv, MapInv, NEW t \in Threads, pc[t] = "none",
         NEW op \in {"register", "unregister", "get"}, NEW java, NEW native,
         Calls(t, op, java, native),
         op # "get" => java = t /\ native = tid'[t],
         life' = [life EXCEPT ![t] = life'[t]], tid' = [tid EXCEPT ![t] = tid'[t]],
         life'[t] = "starting" => op = "register",
         life'[t] = "ending" <=> op = "unregister",
         life'[t] = "running" => life[t] = "running", Alive(t)',
         Alive(t) => tid'[t] = tid[t],
         ~Alive(t) => \A u \in Threads : Alive(u) => tid[u] # tid'[t]
  PROVE  SelfInv'
<1> DEFINE r == [op |-> op, java |-> java, native |-> native]
<1>1. /\ pc' = [pc EXCEPT ![t] = "lock"] /\ req' = [req EXCEPT ![t] = r]
      /\ UNCHANGED <<entries, result>>
  BY DEF Calls
<1>2. /\ pc \in [Threads -> {"none", "lock", "search", "update", "unlock", "return"}]
      /\ req \in [Threads -> Request]
      /\ life \in [Threads -> {"new", "starting", "running", "ending", "dead"}]
      /\ tid \in [Threads -> NativeIds \cup {Invalid}] /\ entries \in Seq(Entry)
  BY DEF MapInv, VarTypes
<1>3. /\ pc'[t] = "lock" /\ req'[t].op = op /\ req'[t].java = java /\ req'[t].native = native
      /\ \A u \in Threads \ {t} :
           pc'[u] = pc[u] /\ req'[u] = req[u] /\ life'[u] = life[u] /\ tid'[u] = tid[u]
  BY <1>1, <1>2
<1>4. \A u \in Threads \ {t} : Alive(u)' <=> Alive(u)
  BY <1>3 DEF Alive
<1>5. \A i \in DOMAIN entries : entries[i].java_id \in Threads
  BY <1>2, EntryTypes
<1>6. EntriesAreTrue'
  BY <1>1, <1>3, <1>4, <1>5 DEF SelfInv, EntriesAreTrue
<1>7. \A u, v \in Threads : (Alive(u) /\ Alive(v) /\ tid[u] = tid[v])' => u = v
  BY <1>3, <1>4 DEF SelfInv
<1>8. \A u \in Threads : OwnCall(u)'
  <2>1. OwnCall(t)'
    BY <1>3 DEF OwnCall
  <2>2. \A u \in Threads \ {t} : OwnCall(u)'
    BY <1>3 DEF SelfInv, OwnCall
  <2> QED
    BY <2>1, <2>2
<1>9. \A u \in Threads : IsIn(u)' <=> IsIn(u)
  BY <1>1 DEF IsIn
<1> QED
  BY <1>1, <1>3, <1>6, <1>7, <1>8, <1>9 DEF SelfInv

LEMMA CallSelf ==
  ASSUME Others = {}, SelfInv, MapInv, NEW t \in Threads, Call(t)
  PROVE  SelfInv'
<1>1. /\ life \in [Threads -> {"new", "starting", "running", "ending", "dead"}]
      /\ tid \in [Threads -> NativeIds \cup {Invalid}]
  BY DEF MapInv, VarTypes
<1>2. ASSUME NEW n \in NativeIds, ThreadStart(t, n) PROVE SelfInv'
  <2>1. /\ life[t] = "new" /\ life'[t] = "starting" /\ tid'[t] = n /\ Calls(t, "register", t, n)
        /\ life' = [life EXCEPT ![t] = life'[t]] /\ tid' = [tid EXCEPT ![t] = tid'[t]]
        /\ \A u \in Threads : Alive(u) => tid[u] # n
    BY <1>1, <1>2 DEF ThreadStart
  <2>2. pc[t] = "none" /\ ~Alive(t) /\ Alive(t)'
    BY <2>1 DEF MapInv, LockInv, Alive
  <2> QED
    BY <2>1, <2>2, CallsSelf
<1>3. CASE ThreadEnd(t)
  <2>1. /\ life[t] = "running" /\ pc[t] = "none" /\ life'[t] = "ending" /\ tid' = tid
        /\ Calls(t, "unregister", t, tid[t]) /\ life' = [life EXCEPT ![t] = life'[t]]
    BY <1>1, <1>3 DEF ThreadEnd, CanCall
  <2>2. Alive(t) /\ Alive(t)' /\ tid' = [tid EXCEPT ![t] = tid'[t]]
    BY <1>1, <2>1 DEF Alive
  <2> QED
    BY <2>1, <2>2, CallsSelf
<1>4. ASSUME NEW op \in {"register", "get"}, NEW java, NEW native, Calls(t, op, java, native),
             CanCall(t), UNCHANGED <<life, tid>>, op # "get" => java = t /\ native = tid[t]
      PROVE  SelfInv'
  <2>1. life[t] = "running" /\ pc[t] = "none" /\ Alive(t) /\ Alive(t)'
    BY <1>4 DEF CanCall, Alive
  <2>2. life' = [life EXCEPT ![t] = life'[t]] /\ tid' = [tid EXCEPT ![t] = tid'[t]]
    BY <1>1, <1>4
  <2> QED
    BY <1>4, <2>1, <2>2, CallsSelf
<1> QED
  BY <1>2, <1>3, <1>4 DEF Call, registerCurrentJavaThread, getNativeId

LEMMA ReturnSelf ==
  ASSUME SelfInv, MapInv, NEW t \in Threads, Return(t)
  PROVE  SelfInv'
<1>1. /\ pc[t] = "return" /\ UNCHANGED <<entries, tid>>
  BY DEF Return
<1>2. /\ pc \in [Threads -> {"none", "lock", "search", "update", "unlock", "return"}]
      /\ req \in [Threads -> Request] /\ entries \in Seq(Entry)
      /\ life \in [Threads -> {"new", "starting", "running", "ending", "dead"}]
      /\ result \in [Threads -> [rc : {"none", "ok", "EEXIST", "ENOENT", "ENOMEM"}, native : Natives]]
  BY DEF MapInv, VarTypes
<1>3. \A u \in Threads : IsIn(u)' <=> IsIn(u)
  BY <1>1 DEF IsIn
<1>4. CASE UNCHANGED <<life, pc, req, index, result>>
  <2>1. EntriesAreTrue' /\ \A u \in Threads : OwnCall(u)' /\ (Alive(u)' <=> Alive(u))
    BY <1>1, <1>4 DEF SelfInv, EntriesAreTrue, OwnCall, Alive
  <2> QED
    BY <1>1, <1>3, <1>4, <2>1 DEF SelfInv
<1>5. CASE /\ result[t].rc # "ENOMEM" /\ life' = [life EXCEPT ![t] = AfterCallback(@)]
           /\ pc' = [pc EXCEPT ![t] = "none"] /\ req' = [req EXCEPT ![t] = NoCall]
           /\ result' = [result EXCEPT ![t] = NoResult]
  <2>1. /\ pc'[t] = "none" /\ life'[t] = AfterCallback(life[t])
        /\ \A u \in Threads \ {t} :
             pc'[u] = pc[u] /\ req'[u] = req[u] /\ life'[u] = life[u] /\ result'[u] = result[u]
    BY <1>2, <1>5
  <2>2. Alive(t)
    BY <1>1 DEF MapInv, LockInv
  <2>3. \/ life'[t] = "running" /\ life[t] \in {"starting", "running"}
        \/ life'[t] = "dead" /\ life[t] = "ending" /\ ~IsIn(t)
    BY <1>1, <2>1, <2>2 DEF AfterCallback, Alive, SelfInv
  <2>4. \A u \in Threads : Alive(u)' => Alive(u)
    BY <2>1, <2>2 DEF Alive
  <2>5. EntriesAreTrue'
    <3>1. SUFFICES ASSUME NEW i \in DOMAIN entries
                   PROVE  Alive(entries[i].java_id)' /\ tid[entries[i].java_id] = entries[i].native_id
      BY <1>1 DEF EntriesAreTrue
    <3>2. entries[i].java_id \in Threads /\ Alive(entries[i].java_id)
          /\ tid[entries[i].java_id] = entries[i].native_id
      BY <1>2, <3>1, EntryTypes DEF SelfInv, EntriesAreTrue
    <3>3. CASE entries[i].java_id = t
      <4>1. life'[t] = "running"
        BY <2>3, <3>1, <3>3 DEF IsIn
      <4>2. Alive(t)'
        BY <4>1 DEF Alive
      <4>3. entries' = entries
        BY <1>1
      <4> QED
        BY <3>2, <3>3, <4>2, <4>3
    <3>4. CASE entries[i].java_id # t
      BY <1>1, <2>1, <3>2, <3>4 DEF Alive
    <3> QED
      BY <3>3, <3>4
  <2>6. \A u, v \in Threads : (Alive(u) /\ Alive(v) /\ tid[u] = tid[v])' => u = v
    BY <1>1, <2>4 DEF SelfInv
  <2>7. \A u \in Threads : OwnCall(u)'
    BY <1>1, <2>1, <2>3 DEF SelfInv, OwnCall
  <2>8. \A u \in Threads : (life[u] = "ending" /\ pc[u] \in {"unlock", "return"})' => ~IsIn(u)'
    BY <1>3, <2>1, <2>3 DEF SelfInv
  <2>9. ASSUME NEW u \in Threads \ Early,
               \/ life'[u] = "running"
               \/ life'[u] = "starting" /\ pc'[u] \in {"unlock", "return"} /\ result'[u].rc # "ENOMEM"
        PROVE  IsIn(u)'
    <3>1. CASE u = t
      BY <1>1, <1>3, <1>5, <2>3, <2>9, <3>1 DEF SelfInv
    <3>2. CASE u # t
      BY <1>3, <2>1, <2>9, <3>2 DEF SelfInv
    <3> QED
      BY <3>1, <3>2
  <2> QED
    BY <2>5, <2>6, <2>7, <2>8, <2>9 DEF SelfInv
<1> QED
  BY <1>4, <1>5 DEF Return

(* The part of the invariant an update of the entries has to restore.      *)
LEMMA UpdateSelf ==
  ASSUME SelfInv, MapInv, NEW t \in Threads, pc[t] = "update", NEW rc, NEW native,
         Finds(t, rc, native), EntriesAreTrue',
         \A u \in Threads \ {t} : IsIn(u)' <=> IsIn(u),
         life[t] = "ending" => ~IsIn(t)',
         life[t] \in {"starting", "running"} /\ IsIn(t) => IsIn(t)',
         life[t] = "starting" /\ rc # "ENOMEM" => IsIn(t)'
  PROVE  SelfInv'
<1>1. /\ result' = [result EXCEPT ![t] = [rc |-> rc, native |-> native]]
      /\ pc' = [pc EXCEPT ![t] = "unlock"] /\ UNCHANGED <<life, tid, req>>
  BY DEF Finds
<1>2. /\ pc \in [Threads -> {"none", "lock", "search", "update", "unlock", "return"}]
      /\ result \in [Threads -> [rc : {"none", "ok", "EEXIST", "ENOENT", "ENOMEM"}, native : Natives]]
  BY DEF MapInv, VarTypes
<1>3. /\ pc'[t] = "unlock" /\ result'[t].rc = rc
      /\ \A u \in Threads \ {t} : pc'[u] = pc[u] /\ result'[u] = result[u]
  BY <1>1, <1>2
<1>4. \A u \in Threads : OwnCall(u)' /\ (Alive(u)' <=> Alive(u))
  BY <1>1, <1>3 DEF SelfInv, OwnCall, Alive
<1>5. \A u \in Threads : (life[u] = "ending" /\ pc[u] \in {"unlock", "return"})' => ~IsIn(u)'
  BY <1>1, <1>3 DEF SelfInv
<1>6. ASSUME NEW u \in Threads \ Early,
             \/ life'[u] = "running"
             \/ life'[u] = "starting" /\ pc'[u] \in {"unlock", "return"} /\ result'[u].rc # "ENOMEM"
      PROVE  IsIn(u)'
  <2>1. CASE u = t
    BY <1>1, <1>3, <1>6, <2>1 DEF SelfInv
  <2>2. CASE u # t
    BY <1>1, <1>3, <1>6, <2>2 DEF SelfInv
  <2> QED
    BY <2>1, <2>2
<1> QED
  BY <1>1, <1>4, <1>5, <1>6 DEF SelfInv

LEMMA PutSelf ==
  ASSUME SelfInv, MapInv, NEW t \in Threads, NEW ok, thread_map_put_java_thread(t, ok)
  PROVE  SelfInv'
<1> DEFINE e == [java_id |-> req[t].java, native_id |-> req[t].native]
<1>1. pc[t] = "update" /\ req[t].op = "register" /\ entries \in Seq(Entry) /\ Alive(t)
  BY Types DEF thread_map_put_java_thread, MapInv, LockInv
<1>2. OwnCall(t) /\ EntriesAreTrue
  BY DEF SelfInv
<1>3. e.java_id = t /\ e.native_id = tid[t] /\ req[t].java = t /\ life[t] # "ending"
  BY <1>1, <1>2 DEF OwnCall
<1>4. CASE index[t] # 0 /\ Finds(t, "EEXIST", Invalid) /\ UNCHANGED entries
  <2>1. IsIn(t)
    BY <1>1, <1>3, <1>4, Found DEF Matches, IsIn
  <2>2. EntriesAreTrue' /\ \A u \in Threads : IsIn(u)' <=> IsIn(u)
    BY <1>2, <1>4 DEF EntriesAreTrue, IsIn, Finds, Alive
  <2> QED
    BY <1>1, <1>3, <1>4, <2>1, <2>2, UpdateSelf
<1>5. CASE Finds(t, "ENOMEM", Invalid) /\ UNCHANGED entries
  <2>1. EntriesAreTrue' /\ \A u \in Threads : IsIn(u)' <=> IsIn(u)
    BY <1>2, <1>5 DEF EntriesAreTrue, IsIn, Finds, Alive
  <2> QED
    BY <1>1, <1>3, <1>5, <2>1, UpdateSelf
<1>6. CASE Finds(t, "ok", Invalid) /\ entries' = Append(entries, e)
  <2> HIDE DEF e
  <2>1. /\ DOMAIN entries = 1 .. Len(entries) /\ Len(entries) \in Nat
        /\ DOMAIN entries' = 1 .. Len(entries) + 1 /\ entries'[Len(entries) + 1] = e
        /\ \A j \in 1 .. Len(entries) : entries'[j] = entries[j]
    BY <1>1, <1>6
  <2>2. /\ \A j \in DOMAIN entries' : j = Len(entries) + 1 \/ j \in DOMAIN entries
        /\ \A j \in DOMAIN entries : j \in DOMAIN entries' /\ entries'[j] = entries[j]
        /\ Len(entries) + 1 \in DOMAIN entries'
    BY <2>1
  <2>3. life' = life /\ tid' = tid
    BY <1>6 DEF Finds
  <2>4. EntriesAreTrue'
    BY <1>1, <1>2, <1>3, <2>1, <2>2, <2>3 DEF EntriesAreTrue, Alive
  <2>5. IsIn(t)' /\ \A u \in Threads \ {t} : IsIn(u)' <=> IsIn(u)
    BY <1>3, <2>1, <2>2 DEF IsIn
  <2> QED
    BY <1>1, <1>3, <1>6, <2>4, <2>5, UpdateSelf
<1> QED
  BY <1>4, <1>5, <1>6 DEF thread_map_put_java_thread

LEMMA RemoveSelf ==
  ASSUME SelfInv, MapInv, NEW t \in Threads, thread_map_remove_native_thread(t)
  PROVE  SelfInv'
<1>1. /\ pc[t] = "update" /\ req[t].op = "unregister" /\ entries \in Seq(Entry)
      /\ Alive(t) /\ UniqueJavaIds
  BY Types DEF thread_map_remove_native_thread, MapInv, LockInv
<1>2. OwnCall(t) /\ EntriesAreTrue
  BY DEF SelfInv
<1>3. req[t].native = tid[t] /\ life[t] = "ending"
  BY <1>1, <1>2 DEF OwnCall
<1>4. CASE index[t] = 0 /\ Finds(t, "ENOENT", Invalid) /\ UNCHANGED entries
  <2>1. ~IsIn(t)
    BY <1>1, <1>2, <1>3, <1>4, Found DEF Matches, IsIn, EntriesAreTrue
  <2>2. EntriesAreTrue' /\ \A u \in Threads : IsIn(u)' <=> IsIn(u)
    BY <1>2, <1>4 DEF EntriesAreTrue, IsIn, Finds, Alive
  <2> QED
    BY <1>1, <1>3, <1>4, <2>1, <2>2, UpdateSelf
<1>5. CASE index[t] # 0 /\ Finds(t, "ok", Invalid) /\ entries' = Without(index[t])
  <2> DEFINE i == index[t]
  <2>1. i \in DOMAIN entries /\ entries[i].native_id = tid[t]
    BY <1>1, <1>3, <1>5, Found DEF Matches
  <2>2. entries[i].java_id = t
    BY <1>1, <1>2, <2>1, EntryTypes DEF EntriesAreTrue, SelfInv
  <2>3. entries' = Without(i)
    BY <1>5
  <2> HIDE DEF i
  <2>4. /\ \A k \in DOMAIN Without(i) : \E j \in DOMAIN entries : j # i /\ Without(i)[k] = entries[j]
        /\ \A j \in DOMAIN entries : j # i => \E k \in DOMAIN Without(i) : Without(i)[k] = entries[j]
    BY <1>1, <2>1, WithoutProperties
  <2>5. /\ \A k \in DOMAIN entries' : \E j \in DOMAIN entries : j # i /\ entries'[k] = entries[j]
        /\ \A j \in DOMAIN entries : j # i => \E k \in DOMAIN entries' : entries'[k] = entries[j]
    BY <2>3, <2>4
  <2>6. \A j \in DOMAIN entries : entries[j].java_id = t <=> j = i
    BY <1>1, <2>1, <2>2 DEF UniqueJavaIds
  <2>7. ~IsIn(t)' /\ \A u \in Threads \ {t} : IsIn(u)' <=> IsIn(u)
    BY <2>5, <2>6 DEF IsIn
  <2>8. life' = life /\ tid' = tid
    BY <1>5 DEF Finds
  <2>9. EntriesAreTrue'
    BY <1>2, <2>5, <2>8 DEF EntriesAreTrue, Alive
  <2> QED
    BY <1>1, <1>3, <1>5, <2>7, <2>9, UpdateSelf
<1> QED
  BY <1>4, <1>5 DEF thread_map_remove_native_thread

LEMMA GetSelf ==
  ASSUME SelfInv, MapInv, NEW t \in Threads, ubench_threads_get_native_id(t)
  PROVE  SelfInv'
<1> DEFINE n == IF index[t] # 0 THEN entries[index[t]].native_id ELSE Invalid
<1>1. pc[t] = "update" /\ req[t].op = "get" /\ Finds(t, "ok", n) /\ UNCHANGED entries
  BY DEF ubench_threads_get_native_id
<1> HIDE DEF n
<1>2. EntriesAreTrue' /\ \A u \in Threads : IsIn(u)' <=> IsIn(u)
  BY <1>1 DEF SelfInv, EntriesAreTrue, IsIn, Finds, Alive
<1>3. life[t] \notin {"starting", "ending"}
  BY <1>1 DEF SelfInv, OwnCall
<1> QED
  BY <1>1, <1>2, <1>3, UpdateSelf

LEMMA NextSelf ==
  ASSUME Others = {}, SelfInv, MapInv, [Next]_vars
  PROVE  SelfInv'
<1>1. ASSUME NEW t \in Threads, Call(t) PROVE SelfInv'
  BY <1>1, CallSelf
<1>2. ASSUME NEW t \in Threads, ubench_spinlock_lock(t) \/ Search(t) \/ ubench_spinlock_unlock(t)
      PROVE  SelfInv'
  BY <1>2, QuietSelf DEF ubench_spinlock_lock, Search, ubench_spinlock_unlock
<1>3. ASSUME NEW t \in Threads, Update(t) \/ Return(t) PROVE SelfInv'
  BY <1>3, PutSelf, RemoveSelf, GetSelf, ReturnSelf DEF Update
<1>4. CASE UNCHANGED vars
  <2>1. EntriesAreTrue' /\ \A u \in Threads : OwnCall(u)' /\ (Alive(u)' <=> Alive(u)) /\ (IsIn(u)' <=> IsIn(u))
    BY <1>4 DEF vars, SelfInv, EntriesAreTrue, OwnCall, Alive, IsIn
  <2> QED
    BY <1>4, <2>1 DEF vars, SelfInv
<1> QED
  BY <1>1, <1>2, <1>3, <1>4 DEF Next, Step

LEMMA GetIsRight ==
  ASSUME SelfInv, MapInv, NEW t \in Threads, ubench_threads_get_native_id(t)
  PROVE  LET u == req[t].java
         IN  /\ life[u] = "running" /\ u \notin Early => result'[t].native = tid[u]
             /\ life[u] \in {"new", "dead"} => result'[t].native = Invalid
             /\ result'[t].native \in {tid[u], Invalid}
<1> DEFINE n == IF index[t] # 0 THEN entries[index[t]].native_id ELSE Invalid
           u == req[t].java
<1>1. pc[t] = "update" /\ req[t].op = "get" /\ result' = [result EXCEPT ![t] = [rc |-> "ok", native |-> n]]
  BY DEF ubench_threads_get_native_id, Finds
<1>2. result'[t].native = n
  <2>1. t \in DOMAIN result
    BY DEF MapInv, VarTypes
  <2> HIDE DEF n
  <2> QED
    BY <1>1, <2>1
<1>3. u \in Threads
  BY <1>1, Found, RequestType
<1>4. CASE index[t] = 0
  <2>1. ~IsIn(u)
    BY <1>1, <1>4, Found DEF Matches, IsIn
  <2> QED
    BY <1>2, <1>3, <1>4, <2>1 DEF SelfInv
<1>5. CASE index[t] # 0
  <2>1. index[t] \in DOMAIN entries /\ entries[index[t]].java_id = u
    BY <1>1, <1>5, Found DEF Matches
  <2>2. Alive(u) /\ tid[u] = entries[index[t]].native_id
    BY <2>1 DEF SelfInv, EntriesAreTrue
  <2> QED
    BY <1>2, <1>5, <2>2 DEF Alive
<1> QED
  BY <1>4, <1>5

(* When threads are registered by the callbacks and by themselves, every   *)
(* entry of the map is true of a living thread, also when the operating    *)
(* system reuses native ids (threads.c, removal by native id).             *)
THEOREM SelfRegistered ==
  ASSUME Others = {}
  PROVE  Spec => []EntriesAreTrue
<1>1. Init => SelfInv /\ MapInv
  BY InitSelf, InitMapInv
<1>2. SelfInv /\ MapInv /\ [Next]_vars => (SelfInv /\ MapInv)'
  BY NextSelf, NextMapInv
<1>3. SelfInv => EntriesAreTrue
  BY DEF SelfInv
<1> QED
  BY <1>1, <1>2, <1>3, PTL DEF Spec

(* Then every lookup is right too (ubench_threads_get_native_id).          *)
THEOREM SelfLookups ==
  ASSUME Others = {}
  PROVE  Spec => LookupsAreRight
<1>1. Init => SelfInv /\ MapInv
  BY InitSelf, InitMapInv
<1>2. SelfInv /\ MapInv /\ [Next]_vars => (SelfInv /\ MapInv)'
  BY NextSelf, NextMapInv
<1> DEFINE Right ==
      \A t, u \in Threads :
        ubench_threads_get_native_id(t) /\ req[t].java = u =>
          /\ life[u] = "running" /\ u \notin Early => result'[t].native = tid[u]
          /\ life[u] \in {"new", "dead"} => result'[t].native = Invalid
          /\ result'[t].native \in {tid[u], Invalid}
<1>3. SelfInv /\ MapInv => Right
  BY GetIsRight
<1> QED
  BY <1>1, <1>2, <1>3, PTL DEF Spec, LookupsAreRight
=============================================================================
