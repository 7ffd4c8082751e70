------------------------------ MODULE ThreadMap ------------------------------
(***************************************************************************)
(* The map from Java threads to native ids (threads.c) and the spinlock    *)
(* that protects it (mylock.h).  The JVM calls the thread start and end    *)
(* callbacks on the thread itself, before and after its Java code; the     *)
(* Java code of any thread registers threads and looks them up.            *)
(*                                                                         *)
(* A thread stands for its java id, which the JVM does not reuse.  The     *)
(* operating system gives a starting thread a native id that no living     *)
(* thread has, and may give it again once the thread is dead.              *)
(*                                                                         *)
(* A definition marked as a variant is a version of the one that follows   *)
(* it with a plausible error; it takes no part in the specification and    *)
(* serves to show that a property notices the error.                       *)
(***************************************************************************)
EXTENDS Integers, Sequences

CONSTANTS
  Threads,
  Early,       \* threads that started before the callbacks were enabled
  NativeIds,   \* ids the operating system hands out
  Others,      \* native ids registerJavaThread may be called with
  Truthful     \* whether it is only given the native id the thread has or had

Invalid == -1   \* UBENCH_THREAD_ID_INVALID, NativeThreads.INVALID_THREAD_ID
Natives == NativeIds \cup Others \cup {Invalid}

ASSUME ThreadsAssumption ==
  /\ Early \subseteq Threads
  /\ NativeIds \subseteq Nat
  /\ Others \subseteq Int
  /\ Truthful \in BOOLEAN

VARIABLES
  lock,       \* thread_map_lock.value
  entries,    \* thread_map.entries up to thread_map.length
  capacity,   \* thread_map.capacity
  life,       \* where each thread is in its life
  tid,        \* the native id of each thread, Invalid before it starts
  pc, req,    \* the native call each thread is in, and how far it is
  index,      \* the index that call has found, 0 for none
  result,     \* the return code of that call, and the native id it found
  exited      \* exit(1) was called

vars == <<lock, entries, capacity, life, tid, pc, req, index, result, exited>>

NoResult == [rc |-> "none", native |-> Invalid]
NoCall == [op |-> "none", java |-> "none", native |-> Invalid]

Init ==
  /\ lock = 0
  /\ entries = <<>> /\ capacity = 0
  /\ life = [t \in Threads |-> IF t \in Early THEN "running" ELSE "new"]
  /\ tid \in [Threads -> NativeIds \cup {Invalid}]
  /\ \A t \in Threads : tid[t] = Invalid <=> t \notin Early
  /\ \A t, u \in Early : tid[t] = tid[u] => t = u
  /\ pc = [t \in Threads |-> "none"]
  /\ req = [t \in Threads |-> NoCall]
  /\ index = [t \in Threads |-> 0]
  /\ result = [t \in Threads |-> NoResult]
  /\ exited = FALSE

Alive(t) == life[t] \in {"starting", "running", "ending"}

(* Thread t enters a native function that begins by taking the lock.       *)
Calls(t, op, java, native) ==
  /\ ~exited
  /\ pc' = [pc EXCEPT ![t] = "lock"]
  /\ req' = [req EXCEPT ![t] = [op |-> op, java |-> java, native |-> native]]
  /\ UNCHANGED <<lock, entries, capacity, index, result, exited>>

CanCall(t) == life[t] = "running" /\ pc[t] = "none"

(* jvmti_callback_on_thread_start, jvmti_callback_on_thread_end            *)
ThreadStart(t, n) ==
  /\ life[t] = "new"
  /\ \A u \in Threads : Alive(u) => tid[u] # n
  /\ life' = [life EXCEPT ![t] = "starting"]
  /\ tid' = [tid EXCEPT ![t] = n]
  /\ Calls(t, "register", t, n)

ThreadEnd(t) ==
  /\ CanCall(t)
  /\ life' = [life EXCEPT ![t] = "ending"]
  /\ Calls(t, "unregister", t, tid[t])
  /\ UNCHANGED tid

registerCurrentJavaThread(t) ==
  /\ CanCall(t)
  /\ Calls(t, "register", t, tid[t])
  /\ UNCHANGED <<life, tid>>

registerJavaThread(t, java, native) ==
  /\ CanCall(t)
  /\ Truthful => native = tid[java]
  /\ Calls(t, "register", java, native)
  /\ UNCHANGED <<life, tid>>

getNativeId(t, java) ==
  /\ CanCall(t)
  /\ Calls(t, "get", java, Invalid)
  /\ UNCHANGED <<life, tid>>

ubench_spinlock_lock_Unchecked(t) ==   \* variant
  /\ ~exited /\ pc[t] = "lock"
  /\ lock' = 1
  /\ pc' = [pc EXCEPT ![t] = "search"]
  /\ UNCHANGED <<entries, capacity, life, tid, req, index, result, exited>>

(* The compare-and-swap that succeeds; the ones that fail change nothing.  *)
ubench_spinlock_lock(t) ==
  /\ ~exited /\ pc[t] = "lock"
  /\ lock = 0
  /\ lock' = 1
  /\ pc' = [pc EXCEPT ![t] = "search"]
  /\ UNCHANGED <<entries, capacity, life, tid, req, index, result, exited>>

Matches(r, e) == IF r.op = "unregister" THEN e.native_id = r.native
                 ELSE e.java_id = r.java

First(found) ==
  IF found = {} THEN 0 ELSE CHOOSE i \in found : \A j \in found : i <= j

thread_map_index_of_SkipsLast(r) ==   \* variant
  First({i \in 1 .. Len(entries) - 1 : Matches(r, entries[i])})

(* The first entry with the java id, for unregister with the native id;    *)
(* counted from 1, 0 when there is none.                                   *)
thread_map_index_of(r) ==
  First({i \in DOMAIN entries : Matches(r, entries[i])})

Search(t) ==
  /\ ~exited /\ pc[t] = "search"
  /\ index' = [index EXCEPT ![t] = thread_map_index_of(req[t])]
  /\ pc' = [pc EXCEPT ![t] = "update"]
  /\ UNCHANGED <<lock, entries, capacity, life, tid, req, result, exited>>

Finds(t, rc, native) ==
  /\ result' = [result EXCEPT ![t] = [rc |-> rc, native |-> native]]
  /\ pc' = [pc EXCEPT ![t] = "unlock"]
  /\ UNCHANGED <<lock, life, tid, req, index, exited>>

NewCapacity_Forgotten == capacity   \* variant

(* thread_map_ensure_capacity for one more entry; the capacity never shrinks. *)
NewCapacity == IF capacity < Len(entries) + 1 THEN Len(entries) + 1 ELSE capacity

(* thread_map_put_java_thread after its search.  ok says whether realloc   *)
(* succeeds, should it be called.                                          *)
thread_map_put_java_thread(t, ok) ==
  /\ ~exited /\ pc[t] = "update" /\ req[t].op = "register"
  /\ \/ /\ index[t] # 0
        /\ Finds(t, "EEXIST", Invalid)
        /\ UNCHANGED <<entries, capacity>>
     \/ /\ index[t] = 0 /\ capacity < Len(entries) + 1 /\ ~ok
        /\ Finds(t, "ENOMEM", Invalid)
        /\ UNCHANGED <<entries, capacity>>
     \/ /\ index[t] = 0 /\ (capacity >= Len(entries) + 1 \/ ok)
        /\ Finds(t, "ok", Invalid)
        /\ entries' = Append(entries, [java_id |-> req[t].java, native_id |-> req[t].native])
        /\ capacity' = NewCapacity

Without_LastStays(i) ==   \* variant
  [k \in 1 .. Len(entries) - 1 |-> entries[k]]

(* The last entry takes the place of the one that goes.                    *)
Without(i) ==
  [k \in 1 .. Len(entries) - 1 |-> IF k = i THEN entries[Len(entries)] ELSE entries[k]]

thread_map_remove_native_thread(t) ==
  /\ ~exited /\ pc[t] = "update" /\ req[t].op = "unregister"
  /\ \/ /\ index[t] = 0
        /\ Finds(t, "ENOENT", Invalid)
        /\ UNCHANGED entries
     \/ /\ index[t] # 0
        /\ Finds(t, "ok", Invalid)
        /\ entries' = Without(index[t])
  /\ UNCHANGED capacity

ubench_threads_get_native_id(t) ==
  /\ ~exited /\ pc[t] = "update" /\ req[t].op = "get"
  /\ Finds(t, "ok", IF index[t] # 0 THEN entries[index[t]].native_id ELSE Invalid)
  /\ UNCHANGED <<entries, capacity>>

ubench_spinlock_unlock_Forgotten(t) ==   \* variant
  /\ ~exited /\ pc[t] = "unlock"
  /\ lock' = IF result[t].rc = "EEXIST" THEN lock ELSE 0
  /\ pc' = [pc EXCEPT ![t] = "return"]
  /\ UNCHANGED <<entries, capacity, life, tid, req, index, result, exited>>

ubench_spinlock_unlock(t) ==
  /\ ~exited /\ pc[t] = "unlock"
  /\ lock' = 0
  /\ pc' = [pc EXCEPT ![t] = "return"]
  /\ UNCHANGED <<entries, capacity, life, tid, req, index, result, exited>>

AfterCallback(l) ==
  IF l = "starting" THEN "running" ELSE IF l = "ending" THEN "dead" ELSE l

(* After the unlock: a failed allocation ends the process; otherwise the   *)
(* call returns, a callback into the JVM, which starts or ends the thread. *)
Return(t) ==
  /\ ~exited /\ pc[t] = "return"
  /\ \/ /\ result[t].rc = "ENOMEM"
        /\ exited' = TRUE
        /\ UNCHANGED <<life, pc, req, index, result>>
     \/ /\ result[t].rc # "ENOMEM"
        /\ life' = [life EXCEPT ![t] = AfterCallback(@)]
        /\ pc' = [pc EXCEPT ![t] = "none"]
        /\ req' = [req EXCEPT ![t] = NoCall]
        /\ index' = [index EXCEPT ![t] = 0]
        /\ result' = [result EXCEPT ![t] = NoResult]
        /\ UNCHANGED exited
  /\ UNCHANGED <<lock, entries, capacity, tid>>

Call(t) ==
  \/ \E n \in NativeIds : ThreadStart(t, n)
  \/ ThreadEnd(t)
  \/ registerCurrentJavaThread(t)
  \/ \E u \in Threads, n \in Others : registerJavaThread(t, u, n)
  \/ \E u \in Threads : getNativeId(t, u)

Update(t) ==
  \/ \E ok \in BOOLEAN : thread_map_put_java_thread(t, ok)
  \/ thread_map_remove_native_thread(t)
  \/ ubench_threads_get_native_id(t)

Step(t) ==
  \/ ubench_spinlock_lock(t)
  \/ Search(t)
  \/ Update(t)
  \/ ubench_spinlock_unlock(t)
  \/ Return(t)

Next == \E t \in Threads : Call(t) \/ Step(t)

Spec == Init /\ [][Next]_vars

(* The operating system runs every thread; a thread that spins may find    *)
(* the lock taken each time it looks.                                      *)
FairSpec == Spec /\ \A t \in Threads : WF_vars(Step(t))

-----------------------------------------------------------------------------
Entry == [java_id : Threads, native_id : Natives]
Request == {NoCall} \cup [op : {"register", "unregister", "get"}, java : Threads,
                          native : Natives]

VarTypes ==
  /\ lock \in {0, 1}
  /\ entries \in Seq(Entry) /\ capacity \in Nat /\ Len(entries) <= capacity
  /\ life \in [Threads -> {"new", "starting", "running", "ending", "dead"}]
  /\ tid \in [Threads -> NativeIds \cup {Invalid}]
  /\ pc \in [Threads -> {"none", "lock", "search", "update", "unlock", "return"}]
  /\ req \in [Threads -> Request]
  /\ index \in [Threads -> Nat]
  /\ result \in [Threads -> [rc : {"none", "ok", "EEXIST", "ENOENT", "ENOMEM"},
                             native : Natives]]
  /\ exited \in BOOLEAN

(* The types of the variables; the entries fit, and the index a thread     *)
(* found does not reach beyond them when it removes or reads that entry,   *)
(* although other threads remove entries too.                              *)
TypeOK ==
  /\ VarTypes
  /\ \A t \in Threads : pc[t] = "update" => index[t] \in 0 .. Len(entries)

InLock(t) == pc[t] \in {"search", "update", "unlock"}

(* What a thread found in the map is still so when it acts on it: nobody   *)
(* else changed the entries in between.                                    *)
IndexIsFresh ==
  \A t \in Threads : pc[t] = "update" => index[t] = thread_map_index_of(req[t])

(* A Java thread is registered at most once, although the test and the     *)
(* insertion are separate steps.                                           *)
UniqueJavaIds ==
  \A i, j \in DOMAIN entries : entries[i].java_id = entries[j].java_id => i = j

(* Every entry tells the truth about a living thread.  It holds when       *)
(* threads register only themselves.                                       *)
EntriesAreTrue ==
  \A i \in DOMAIN entries :
    LET e == entries[i] IN Alive(e.java_id) /\ tid[e.java_id] = e.native_id

(* The inductive invariant when threads register only themselves: living   *)
(* threads have different native ids, a call that changes the map is about *)
(* its own thread, a thread whose end callback has had its turn is out of  *)
(* the map, and one whose start callback has had its turn is in it.        *)
IsIn(t) == \E i \in DOMAIN entries : entries[i].java_id = t
OwnCall(t) ==
  /\ pc[t] # "none" /\ req[t].op \in {"register", "unregister"} =>
       req[t].java = t /\ req[t].native = tid[t]
  /\ life[t] = "starting" => pc[t] # "none" /\ req[t].op = "register"
  /\ life[t] = "ending" <=> pc[t] # "none" /\ req[t].op = "unregister"
SelfInv ==
  /\ EntriesAreTrue
  /\ \A t, u \in Threads : Alive(t) /\ Alive(u) /\ tid[t] = tid[u] => t = u
  /\ \A t \in Threads : OwnCall(t)
  /\ \A t \in Threads : life[t] = "ending" /\ pc[t] \in {"unlock", "return"} => ~IsIn(t)
  /\ \A t \in Threads \ Early :
       \/ life[t] = "running"
       \/ life[t] = "starting" /\ pc[t] \in {"unlock", "return"} /\ result[t].rc # "ENOMEM"
       => IsIn(t)

(* A lookup of a running thread whose start the agent has seen returns its *)
(* own native id, whatever other threads start, end and register           *)
(* meanwhile; of a thread that has not started or is dead it returns none. *)
LookupsAreRight ==
  [][\A t, u \in Threads :
       ubench_threads_get_native_id(t) /\ req[t].java = u =>
         /\ life[u] = "running" /\ u \notin Early => result'[t].native = tid[u]
         /\ life[u] \in {"new", "dead"} => result'[t].native = Invalid
         /\ result'[t].native \in {tid[u], Invalid}]_vars

(* While threads wait for the lock, one of them gets it.                   *)
SomeoneGetsIn ==
  (\E t \in Threads : pc[t] = "lock") ~> (\E t \in Threads : InLock(t)) \/ exited

Registered == {entries[i] : i \in DOMAIN entries}
Registry == INSTANCE ThreadRegistry
              WITH registered <- Registered, request <- req, outcome <- result

(* The map behaves as if each operation took effect, with its arguments    *)
(* and its result, at one instant between its call and its return.         *)
ImplementsRegistry == Registry!Spec
=============================================================================
