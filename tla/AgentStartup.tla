---------------------------- MODULE AgentStartup ----------------------------
(***************************************************************************)
(* Loading the agent (ubench.c), its JVMTI contexts (jvmutil.c) and the    *)
(* start of automatic thread registration (threads.c).                     *)
(*                                                                         *)
(* The JVM may load the library as an agent, before it has a JNI           *)
(* environment, and may load it again for System.loadLibrary once it is    *)
(* live.  It makes these calls one after the other; every JVMTI and JNI    *)
(* function the agent calls may fail.  Events come at any moment from the  *)
(* step that registers the callbacks on, so each JVMTI call is a step.     *)
(***************************************************************************)
EXTENDS Naturals, Sequences

VARIABLES
  phase,        \* of the JVM: "onload", then "live", then "dead"
  loads,        \* the entry points the JVM has called
  guard,        \* startup_guard in ubench_startup
  shut,         \* shutdown_guard in ubench_shutdown
  caller,       \* whether ubench_startup or the VM init callback is at work
  pc, cur,      \* how far it is, and the context it enables
  envs,         \* the JVMTI environments created so far
  context,      \* the jvmti pointer of each context, 0 for NULL
  outcome,      \* what ubench_jvmti_context_init_and_enable returned
  has_get_id,   \* thread_get_id_method is set
  warned,       \* "automatic thread registration not supported" was printed
  ready         \* the measurement and event modules are initialised

startupVars == <<phase, loads, guard, shut, caller, pc, cur, envs, context, outcome,
                 has_get_id, warned, ready>>

Contexts == {"counters", "vm_init", "threads"}
ContextEvents ==
  [counters |-> <<"compiled_method_load", "garbage_collection_finish">>,
   vm_init  |-> <<"vm_init">>,
   threads  |-> <<"thread_start", "thread_end">>]
HasCapabilities(c) == c = "counters"

StartupInit ==
  /\ phase = "onload" /\ loads = {}
  /\ guard = 0 /\ shut = 0
  /\ caller = "none" /\ pc = "idle" /\ cur = "counters"
  /\ envs = <<>>
  /\ context = [c \in Contexts |-> 0]
  /\ outcome = [c \in Contexts |-> "none"]
  /\ has_get_id = FALSE /\ warned = FALSE /\ ready = FALSE

Goes(at, c) == pc' = at /\ cur' = c

(* The JVM posts an event to every environment that is not disposed and    *)
(* has the event enabled and the callbacks registered.                     *)
Listeners(c, e) ==
  {i \in DOMAIN envs : envs[i].context = c /\ envs[i].alive /\ envs[i].callbacks
                       /\ e \in envs[i].enabled}
Listens(c, e) == Listeners(c, e) # {}

ubench_startup_Unguarded(load) ==   \* variant
  /\ loads' = loads \cup {load} /\ guard' = guard + 1
  /\ caller' = "startup" /\ Goes("init", "counters")
  /\ UNCHANGED <<phase, shut, envs, context, outcome, has_get_id, warned, ready>>

(* Only the first call initialises anything; the others report success.    *)
ubench_startup(load) ==
  /\ loads' = loads \cup {load} /\ guard' = guard + 1
  /\ \/ guard # 0 /\ UNCHANGED <<caller, pc, cur>>
     \/ guard = 0 /\ caller' = "startup" /\ Goes("init", "counters")
  /\ UNCHANGED <<phase, shut, envs, context, outcome, has_get_id, warned, ready>>

Agent_OnLoad ==
  /\ phase = "onload" /\ pc = "idle" /\ "agent" \notin loads
  /\ ubench_startup("agent")

JNI_OnLoad ==
  /\ phase = "live" /\ pc = "idle" /\ "library" \notin loads
  /\ ubench_startup("library")

AfterThreads_Returns(ok) ==   \* variant
  IF caller = "startup" /\ ok THEN "measurement" ELSE "idle"

(* Thread registration is optional: startup goes on without it.            *)
AfterThreads(ok) == IF caller = "startup" THEN "measurement" ELSE "idle"

(* ubench_jvmti_context_init_and_enable returns ok for context c.          *)
Returns(c, ok) ==
  /\ outcome' = [outcome EXCEPT ![c] = IF ok THEN "ok" ELSE "failed"]
  /\ Goes(IF c = "counters" THEN "threads" ELSE AfterThreads(ok), c)
  /\ warned' = (warned \/ (c # "counters" /\ ~ok))
  /\ UNCHANGED <<phase, loads, guard, shut, caller, has_get_id, ready>>

Proceeds(at) ==
  /\ Goes(at, cur)
  /\ UNCHANGED <<phase, loads, guard, shut, caller, context, outcome, has_get_id, warned, ready>>

ubench_jvmti_context_init ==
  /\ phase # "dead" /\ pc = "init"
  /\ \/ Returns(cur, FALSE) /\ UNCHANGED <<envs, context>>
     \/ /\ envs' = Append(envs, [context |-> cur, alive |-> TRUE, enabled |-> {},
                                 callbacks |-> FALSE])
        /\ context' = [context EXCEPT ![cur] = Len(envs) + 1]
        /\ Goes(IF HasCapabilities(cur) THEN "capabilities" ELSE "enable", cur)
        /\ UNCHANGED <<phase, loads, guard, shut, caller, outcome, has_get_id, warned, ready>>

Env == envs[context[cur]]

AddCapabilities ==
  /\ phase # "dead" /\ pc = "capabilities"
  /\ Proceeds("enable") \/ Proceeds("destroy")
  /\ UNCHANGED envs

SetEventNotificationMode_Unchecked ==   \* variant
  /\ phase # "dead" /\ pc = "enable"
  /\ \E i \in DOMAIN ContextEvents[cur] :
       /\ Env.enabled = {ContextEvents[cur][j] : j \in 1 .. i - 1}
       /\ \/ Proceeds("callbacks") /\ UNCHANGED envs
          \/ /\ envs' = [envs EXCEPT ![context[cur]].enabled = @ \cup {ContextEvents[cur][i]}]
             /\ Proceeds(IF i = Len(ContextEvents[cur]) THEN "callbacks" ELSE "enable")

(* The events of the context not enabled yet are enabled one by one.       *)
SetEventNotificationMode ==
  /\ phase # "dead" /\ pc = "enable"
  /\ \E i \in DOMAIN ContextEvents[cur] :
       /\ Env.enabled = {ContextEvents[cur][j] : j \in 1 .. i - 1}
       /\ \/ Proceeds("destroy") /\ UNCHANGED envs
          \/ /\ envs' = [envs EXCEPT ![context[cur]].enabled = @ \cup {ContextEvents[cur][i]}]
             /\ Proceeds(IF i = Len(ContextEvents[cur]) THEN "callbacks" ELSE "enable")

SetEventCallbacks ==
  /\ phase # "dead" /\ pc = "callbacks"
  /\ \/ Proceeds("destroy") /\ UNCHANGED envs
     \/ /\ envs' = [envs EXCEPT ![context[cur]].callbacks = TRUE]
        /\ Returns(cur, TRUE)
        /\ UNCHANGED context

ubench_jvmti_context_destroy_KeepsPointer ==   \* variant
  /\ phase # "dead" /\ pc = "destroy"
  /\ \E disposed \in BOOLEAN :
       envs' = [envs EXCEPT ![context[cur]].alive = ~disposed]
  /\ Returns(cur, FALSE)
  /\ UNCHANGED context

(* The environment stays when JVMTI fails to dispose it.                   *)
ubench_jvmti_context_destroy ==
  /\ phase # "dead" /\ pc = "destroy"
  /\ context' = [context EXCEPT ![cur] = 0]
  /\ \E disposed \in BOOLEAN :
       envs' = [envs EXCEPT ![context[cur]].alive = ~disposed]
  /\ Returns(cur, FALSE)

(* With a JNI environment registration is enabled at once, otherwise at    *)
(* the VM init event.                                                      *)
ubench_threads_init ==
  /\ phase # "dead" /\ pc = "threads"
  /\ IF phase = "live" THEN Goes("get_id", "threads") ELSE Goes("init", "vm_init")
  /\ UNCHANGED <<phase, loads, guard, shut, caller, envs, context, outcome, has_get_id, warned,
                 ready>>

enable_automatic_threads_registration_Optional ==   \* variant
  /\ phase # "dead" /\ pc = "get_id"
  /\ \E found \in BOOLEAN : has_get_id' = found
  /\ Goes("init", "threads")
  /\ UNCHANGED <<phase, loads, guard, shut, caller, envs, context, outcome, warned, ready>>

(* Up to the call that enables the context.                                *)
enable_automatic_threads_registration ==
  /\ phase # "dead" /\ pc = "get_id"
  /\ \/ /\ Goes(AfterThreads(FALSE), "threads")
        /\ warned' = TRUE
        /\ UNCHANGED has_get_id
     \/ /\ has_get_id' = TRUE
        /\ Goes("init", "threads")
        /\ UNCHANGED warned
  /\ UNCHANGED <<phase, loads, guard, shut, caller, envs, context, outcome, ready>>

(* ubench_measurement_init, which ends the process when PAPI fails, and    *)
(* ubench_event_init, which cannot fail.                                   *)
ubench_measurement_init ==
  /\ phase # "dead" /\ pc = "measurement"
  /\ \/ phase' = "dead" /\ UNCHANGED <<pc, cur, ready>>
     \/ ready' = TRUE /\ Goes("idle", cur) /\ UNCHANGED phase
  /\ UNCHANGED <<loads, guard, shut, caller, envs, context, outcome, has_get_id, warned>>

OnVmInit_Missed == UNCHANGED <<caller, pc, cur, warned>>   \* variant

(* jvmti_callback_on_vm_init, where GetJavaVM may fail.                    *)
OnVmInit ==
  IF Listens("vm_init", "vm_init")
  THEN \/ warned' = TRUE /\ UNCHANGED <<caller, pc, cur>>
       \/ caller' = "vm_init" /\ Goes("get_id", "threads") /\ UNCHANGED warned
  ELSE UNCHANGED <<caller, pc, cur, warned>>

(* The JVM becomes live and posts the VM init event.                       *)
VmInit ==
  /\ phase = "onload" /\ pc = "idle"
  /\ phase' = "live"
  /\ OnVmInit
  /\ UNCHANGED <<loads, guard, shut, envs, context, outcome, has_get_id, ready>>

(* Agent_OnUnload and JNI_OnUnload when the JVM ends, one for each load:   *)
(* the second call returns early, and the first has nothing to dispose.    *)
ubench_shutdown ==
  /\ phase # "onload" /\ pc = "idle" /\ shut < guard
  /\ shut' = shut + 1
  /\ phase' = "dead"
  /\ UNCHANGED <<loads, guard, caller, pc, cur, envs, context, outcome, has_get_id, warned, ready>>

Startup ==
  \/ ubench_jvmti_context_init \/ AddCapabilities \/ SetEventNotificationMode
  \/ SetEventCallbacks \/ ubench_jvmti_context_destroy
  \/ ubench_threads_init \/ enable_automatic_threads_registration
  \/ ubench_measurement_init

StartupNext == Agent_OnLoad \/ JNI_OnLoad \/ Startup \/ VmInit \/ ubench_shutdown

-----------------------------------------------------------------------------
(* The types of the variables; a context that has an environment has one   *)
(* of its own that is not disposed.                                        *)
StartupTypeOK ==
  /\ phase \in {"onload", "live", "dead"}
  /\ loads \subseteq {"agent", "library"}
  /\ guard \in 0 .. 2 /\ shut \in 0 .. 2
  /\ caller \in {"none", "startup", "vm_init"}
  /\ pc \in {"idle", "init", "capabilities", "enable", "callbacks", "destroy", "threads", "get_id",
             "measurement"}
  /\ cur \in Contexts
  /\ envs \in Seq([context : Contexts, alive : BOOLEAN, callbacks : BOOLEAN,
                   enabled : SUBSET {"compiled_method_load", "garbage_collection_finish",
                                     "vm_init", "thread_start", "thread_end"}])
  /\ context \in [Contexts -> Nat]
  /\ \A c \in Contexts :
       context[c] # 0 => /\ context[c] \in DOMAIN envs
                         /\ envs[context[c]].context = c /\ envs[context[c]].alive
  /\ outcome \in [Contexts -> {"none", "ok", "failed"}]
  /\ has_get_id \in BOOLEAN /\ warned \in BOOLEAN /\ ready \in BOOLEAN

(* The thread callbacks call thread_get_id_method, so no thread event is   *)
(* posted before it is set, on the early path and on the one through VM    *)
(* init.                                                                   *)
GetIdBeforeEvents ==
  \A e \in {"thread_start", "thread_end"} : Listens("threads", e) => has_get_id

(* Whatever fails and in whatever state that leaves JVMTI, a context gets  *)
(* all of its events or none: a start of a thread is never seen without    *)
(* its end.  And it gets them exactly when its initialisation succeeded.   *)
AllEventsOrNone ==
  \A c \in Contexts : \A i \in DOMAIN ContextEvents[c] :
    Listens(c, ContextEvents[c][i]) <=> outcome[c] = "ok"

(* When a load has returned, the measurement code may be used.             *)
LoadedMeansReady == loads # {} /\ pc = "idle" /\ phase # "dead" => ready

(* A loaded agent ends up with thread registration or says that it has     *)
(* none, also when it has to wait for VM init.                             *)
RegistrationSettled ==
  loads # {} ~> Listens("threads", "thread_start") \/ warned \/ phase = "dead"
=============================================================================
