----------------------------- MODULE JvmCounters -----------------------------
(***************************************************************************)
(* The counters of JIT compilations and garbage collections (counter.c),   *)
(* composed with the startup that enables their events.  Compiler threads  *)
(* run the callback while Java threads read and reset the counters; each   *)
(* atomic operation of myatomic.h is a step.                               *)
(***************************************************************************)
EXTENDS AgentStartup, FiniteSets

CONSTANTS
  Compilers,         \* threads that post compiled method load events
  MaxCompilations,   \* bound on those events
  MaxCollections     \* bound on garbage collections

ASSUME CountersAssumption ==
  MaxCompilations \in Nat /\ MaxCollections \in Nat /\ IsFiniteSet(Compilers)

VARIABLES
  counter_compilation, counter_compilation_total, counter_gc_total,
  at,           \* where each compiler thread is: idle, first or second increment
  calls,        \* callbacks each still has to run for its event
  compiled,     \* compilations the JVM has told the agent of
  collected,    \* garbage collections the JVM has told the agent of
  handedOut     \* sum of all results of getCompilationCountAndReset

counterVars == <<counter_compilation, counter_compilation_total, counter_gc_total, at, calls,
                 compiled, collected, handedOut>>
vars == <<startupVars, counterVars>>

Init ==
  /\ StartupInit
  /\ counter_compilation = 0 /\ counter_compilation_total = 0 /\ counter_gc_total = 0
  /\ at = [k \in Compilers |-> "idle"]
  /\ calls = [k \in Compilers |-> 0]
  /\ compiled = 0 /\ collected = 0 /\ handedOut = 0

(* The JVM calls the callback of every environment that listens.           *)
CompiledMethodLoad(k) ==
  /\ phase = "live" /\ at[k] = "idle"
  /\ compiled < MaxCompilations
  /\ Listens("counters", "compiled_method_load")
  /\ compiled' = compiled + 1
  /\ at' = [at EXCEPT ![k] = "first"]
  /\ calls' = [calls EXCEPT ![k] = Cardinality(Listeners("counters", "compiled_method_load"))]
  /\ UNCHANGED <<startupVars, counter_compilation, counter_compilation_total, counter_gc_total,
                 collected, handedOut>>

ubench_atomic_int_inc(value) == value + 1

(* jvmti_callback_on_compiled_method_load increments one counter, then the *)
(* other.                                                                  *)
IncrementCompilation(k) ==
  /\ phase = "live" /\ at[k] = "first"
  /\ counter_compilation' = ubench_atomic_int_inc(counter_compilation)
  /\ at' = [at EXCEPT ![k] = "second"]
  /\ UNCHANGED <<startupVars, counter_compilation_total, counter_gc_total, calls, compiled,
                 collected, handedOut>>

IncrementTotal(k) ==
  /\ phase = "live" /\ at[k] = "second"
  /\ counter_compilation_total' = ubench_atomic_int_inc(counter_compilation_total)
  /\ at' = [at EXCEPT ![k] = IF calls[k] = 1 THEN "idle" ELSE "first"]
  /\ calls' = [calls EXCEPT ![k] = @ - 1]
  /\ UNCHANGED <<startupVars, counter_compilation, counter_gc_total, compiled, collected, handedOut>>

(* jvmti_callback_on_garbage_collection_finish, once per environment.      *)
GarbageCollectionFinish ==
  /\ phase = "live" /\ collected < MaxCollections
  /\ Listens("counters", "garbage_collection_finish")
  /\ collected' = collected + 1
  /\ counter_gc_total' =
       counter_gc_total + Cardinality(Listeners("counters", "garbage_collection_finish"))
  /\ UNCHANGED <<startupVars, counter_compilation, counter_compilation_total, at, calls, compiled,
                 handedOut>>

(* What the atomic fetch-and-and with 0 returns.                           *)
ubench_atomic_int_reset(value) == value

getCompilationCountAndReset ==
  /\ phase = "live" /\ ready
  /\ handedOut' = handedOut + ubench_atomic_int_reset(counter_compilation)
  /\ counter_compilation' = 0
  /\ UNCHANGED <<startupVars, counter_compilation_total, counter_gc_total, at, calls, compiled,
                 collected>>

Callback(k) == IncrementCompilation(k) \/ IncrementTotal(k)

Next ==
  \/ StartupNext /\ UNCHANGED counterVars
  \/ \E k \in Compilers : CompiledMethodLoad(k) \/ Callback(k)
  \/ GarbageCollectionFinish
  \/ getCompilationCountAndReset

Spec == Init /\ [][Next]_vars

(* A thread that is in the agent's startup keeps running, and the JVM gets *)
(* to VM init.                                                             *)
FairSpec ==
  Spec /\ WF_vars((Startup \/ VmInit) /\ UNCHANGED counterVars)

-----------------------------------------------------------------------------
In(place) == {k \in Compilers : at[k] = place}

(* Every compilation and collection the JVM tells of is counted exactly    *)
(* once, although the library may be loaded twice and the callback         *)
(* increments in two steps: what the resets have returned and what is      *)
(* still to be returned differs from what was compiled only by the         *)
(* callbacks under way, and so does the total that snapshots read.         *)
CountedOnce ==
  /\ handedOut + counter_compilation + Cardinality(In("first")) = compiled
  /\ counter_compilation_total + Cardinality(In("first")) + Cardinality(In("second")) = compiled
  /\ counter_gc_total = collected
=============================================================================
