-------------------------- MODULE JvmCounters_proof --------------------------
(***************************************************************************)
(* Proofs about AgentStartup and JvmCounters, for any number of compiler   *)
(* threads, compilations and collections: however the library is loaded    *)
(* and whatever JVMTI call fails, each context is set up at most once, its *)
(* events are posted exactly when that succeeded, and every event is       *)
(* counted once.                                                           *)
(***************************************************************************)
EXTENDS JvmCounters, FiniteSetTheorems, TLAPS

(* The context cur has its environment, but no callbacks yet.              *)
Enabling == pc \in {"capabilities", "enable", "callbacks", "destroy"}

EventsOf(c) == {ContextEvents[c][i] : i \in DOMAIN ContextEvents[c]}

(* An environment with callbacks is the one its context points to, has all *)
(* events enabled, and there is one exactly when the context has succeeded. *)
EnvsInv ==
  /\ \A i \in DOMAIN envs :
       envs[i].callbacks =>
         /\ context[envs[i].context] = i /\ outcome[envs[i].context] = "ok"
         /\ envs[i].enabled = EventsOf(envs[i].context)
  /\ \A c \in Contexts : outcome[c] = "ok" => context[c] # 0 /\ envs[context[c]].callbacks
  /\ Enabling => context[cur] # 0 /\ ~Env.callbacks
  /\ pc = "callbacks" => Env.enabled = EventsOf(cur)

(* The order of startup: counters, then either the VM init event or the    *)
(* thread events, and those at VM init in the first case.                  *)
OrderInv ==
  /\ guard = 0 => loads = {} /\ caller = "none" /\ pc = "idle"
                   /\ outcome = [c \in Contexts |-> "none"]
  /\ caller = "none" => pc = "idle"
  /\ Enabling \/ pc = "init" => outcome[cur] = "none"
  /\ (Enabling \/ pc = "init") /\ cur = "counters" =>
       outcome["vm_init"] = "none" /\ outcome["threads"] = "none"
  /\ pc = "threads" => outcome["vm_init"] = "none" /\ outcome["threads"] = "none"
  /\ (Enabling \/ pc = "init") /\ cur = "vm_init" => phase # "live"
  /\ phase = "onload" => /\ outcome["threads"] = "none" /\ pc # "get_id"
                         /\ (Enabling \/ pc = "init") => cur # "threads"
  /\ pc = "get_id" => outcome["threads"] = "none"
  /\ caller = "vm_init" =>
       /\ pc \in {"idle", "get_id", "init", "capabilities", "enable", "callbacks", "destroy"}
       /\ cur = "threads"

(* What the agent may rely on when startup has got that far.               *)
ReadyInv ==
  /\ guard = (IF "agent" \in loads THEN 1 ELSE 0) + (IF "library" \in loads THEN 1 ELSE 0)
  /\ shut = 0 \/ phase = "dead"
  /\ loads # {} /\ pc = "idle" /\ phase # "dead" => ready
  /\ caller = "vm_init" => ready
  /\ outcome["threads"] # "none" => has_get_id
  /\ (Enabling \/ pc = "init") /\ cur = "threads" => has_get_id

StartupInv == StartupTypeOK /\ EnvsInv /\ OrderInv /\ ReadyInv

CountersTypeOK ==
  /\ {counter_compilation, counter_compilation_total, counter_gc_total, compiled, collected,
      handedOut} \subseteq Nat
  /\ at \in [Compilers -> {"idle", "first", "second"}]
  /\ calls \in [Compilers -> Nat]

(* A callback under way runs once.                                         *)
CountersInv ==
  /\ CountersTypeOK
  /\ \A k \in Compilers : at[k] # "idle" => calls[k] = 1
  /\ CountedOnce

EnvRecord ==
  [context : Contexts, alive : BOOLEAN, callbacks : BOOLEAN,
   enabled : SUBSET {"compiled_method_load", "garbage_collection_finish",
                     "vm_init", "thread_start", "thread_end"}]

-----------------------------------------------------------------------------
LEMMA ContextFacts ==
  /\ EventsOf("counters") = {"compiled_method_load", "garbage_collection_finish"}
  /\ EventsOf("vm_init") = {"vm_init"}
  /\ EventsOf("threads") = {"thread_start", "thread_end"}
  /\ \A c \in Contexts : /\ Len(ContextEvents[c]) \in Nat
                         /\ DOMAIN ContextEvents[c] = 1 .. Len(ContextEvents[c])
  /\ \A c \in Contexts : EventsOf(c) \subseteq
       {"compiled_method_load", "garbage_collection_finish", "vm_init", "thread_start", "thread_end"}
<1>1. /\ ContextEvents["counters"] = <<"compiled_method_load", "garbage_collection_finish">>
      /\ ContextEvents["vm_init"] = <<"vm_init">>
      /\ ContextEvents["threads"] = <<"thread_start", "thread_end">>
  BY DEF ContextEvents
<1>2. /\ DOMAIN ContextEvents["counters"] = {1, 2}
      /\ DOMAIN ContextEvents["vm_init"] = {1}
      /\ DOMAIN ContextEvents["threads"] = {1, 2}
  BY <1>1
<1>3. /\ EventsOf("counters") = {"compiled_method_load", "garbage_collection_finish"}
      /\ EventsOf("vm_init") = {"vm_init"}
      /\ EventsOf("threads") = {"thread_start", "thread_end"}
  BY <1>1, <1>2 DEF EventsOf
<1>4. \A c \in Contexts : /\ Len(ContextEvents[c]) \in Nat
                           /\ DOMAIN ContextEvents[c] = 1 .. Len(ContextEvents[c])
  BY <1>1 DEF Contexts
<1> QED
  BY <1>3, <1>4 DEF Contexts

(* One environment of the sequence changes.                                *)
LEMMA ReplaceEnv ==
  ASSUME NEW E \in Seq(EnvRecord), NEW i \in DOMAIN E, NEW r \in EnvRecord
  PROVE  /\ [E EXCEPT ![i] = r] \in Seq(EnvRecord)
         /\ DOMAIN [E EXCEPT ![i] = r] = DOMAIN E
         /\ [E EXCEPT ![i] = r][i] = r
         /\ \A k \in DOMAIN E : k # i => [E EXCEPT ![i] = r][k] = E[k]
OBVIOUS

LEMMA AppendEnv ==
  ASSUME NEW E \in Seq(EnvRecord), NEW r \in EnvRecord
  PROVE  /\ Append(E, r) \in Seq(EnvRecord)
         /\ DOMAIN Append(E, r) = DOMAIN E \cup {Len(E) + 1}
         /\ Append(E, r)[Len(E) + 1] = r
         /\ Len(E) + 1 \in Nat \ {0} /\ Len(E) + 1 \notin DOMAIN E
         /\ \A k \in DOMAIN E : Append(E, r)[k] = E[k]
OBVIOUS

LEMMA EnvContexts ==
  ASSUME NEW E \in Seq(EnvRecord)
  PROVE  \A i \in DOMAIN E : E[i].context \in Contexts
<1>1. \A i \in DOMAIN E : E[i] \in EnvRecord
  OBVIOUS
<1> QED
  BY <1>1 DEF EnvRecord

LEMMA InitStartupInv == StartupInit => StartupInv
<1>1. SUFFICES ASSUME StartupInit PROVE StartupInv
  OBVIOUS
<1>2. StartupTypeOK
  <2>1. envs \in Seq(EnvRecord) /\ context \in [Contexts -> Nat]
    BY <1>1 DEF StartupInit
  <2>2. \A c \in Contexts : context[c] = 0
    BY <1>1 DEF StartupInit
  <2>3. outcome \in [Contexts -> {"none", "ok", "failed"}] /\ cur \in Contexts
    BY <1>1 DEF StartupInit, Contexts
  <2>4. /\ phase \in {"onload", "live", "dead"} /\ loads \subseteq {"agent", "library"}
        /\ guard \in 0 .. 2 /\ shut \in 0 .. 2 /\ caller = "none" /\ pc = "idle"
    BY <1>1 DEF StartupInit
  <2>5. has_get_id \in BOOLEAN /\ warned \in BOOLEAN /\ ready \in BOOLEAN
    BY <1>1, Zenon DEF StartupInit
  <2> QED
    BY <2>1, <2>2, <2>3, <2>4, <2>5 DEF StartupTypeOK, EnvRecord
<1>3. EnvsInv
  BY <1>1 DEF StartupInit, EnvsInv, Contexts, Enabling
<1>4. OrderInv /\ ReadyInv
  BY <1>1 DEF StartupInit, OrderInv, ReadyInv, Contexts, Enabling
<1> QED
  BY <1>2, <1>3, <1>4 DEF StartupInv

(* A step that leaves the environments and the contexts alone keeps what   *)
(* is said about them, unless it starts to enable one.                     *)
LEMMA EnvsStay ==
  ASSUME StartupInv, UNCHANGED <<envs, context, outcome>>,
         Enabling' => Enabling /\ cur' = cur,
         pc' = "callbacks" => pc = "callbacks"
  PROVE  EnvsInv'
BY DEF StartupInv, EnvsInv, Env, Enabling, EventsOf

LEMMA LoadInv ==
  ASSUME StartupInv, Agent_OnLoad \/ JNI_OnLoad
  PROVE  StartupInv'
<1>1. PICK load \in {"agent", "library"} :
        /\ ubench_startup(load) /\ load \notin loads /\ pc = "idle"
        /\ phase = IF load = "agent" THEN "onload" ELSE "live"
  BY DEF Agent_OnLoad, JNI_OnLoad
<1>2. StartupTypeOK'
  <2>1. guard' \in 0 .. 2
    BY <1>1 DEF StartupInv, StartupTypeOK, ReadyInv, ubench_startup
  <2> QED
    BY <1>1, <2>1 DEF StartupInv, StartupTypeOK, ubench_startup, Goes, Contexts
<1>3. EnvsInv'
  BY <1>1, EnvsStay DEF ubench_startup, Goes, Enabling
<1>4. OrderInv'
  BY <1>1 DEF StartupInv, StartupTypeOK, OrderInv, ReadyInv, ubench_startup, Goes, Enabling, Contexts
<1>5. ReadyInv'
  BY <1>1 DEF StartupInv, StartupTypeOK, OrderInv, ReadyInv, ubench_startup, Goes, Enabling, Contexts
<1> QED
  BY <1>2, <1>3, <1>4, <1>5 DEF StartupInv

(* What the return of a context does to everything but the environments.   *)
LEMMA ReturnsInv ==
  ASSUME StartupInv, NEW ok \in BOOLEAN, Returns(cur, ok), Enabling \/ pc = "init",
         phase # "dead"
  PROVE  OrderInv' /\ ReadyInv'
<1>1. cur \in Contexts /\ outcome \in [Contexts -> {"none", "ok", "failed"}]
  BY DEF StartupInv, StartupTypeOK
<1>2. /\ outcome'[cur] \in {"ok", "failed"}
      /\ \A c \in Contexts : c # cur => outcome'[c] = outcome[c]
  BY <1>1 DEF Returns
<1>3. /\ pc' = IF cur = "counters" THEN "threads"
               ELSE IF caller = "startup" THEN "measurement" ELSE "idle"
      /\ cur' = cur
  BY DEF Returns, Goes, AfterThreads
<1>4. guard # 0
  BY DEF StartupInv, OrderInv, Enabling
<1>5. OrderInv'
  BY <1>1, <1>2, <1>3, <1>4 DEF StartupInv, StartupTypeOK, OrderInv, ReadyInv, Returns, Enabling, Contexts
<1>6. ReadyInv'
  BY <1>1, <1>2, <1>3, <1>4 DEF StartupInv, StartupTypeOK, OrderInv, ReadyInv, Returns, Enabling, Contexts
<1> QED
  BY <1>5, <1>6

(* The types of everything but the environments after such a return.       *)
LEMMA ReturnsTypes ==
  ASSUME StartupInv, NEW ok \in BOOLEAN, Returns(cur, ok)
  PROVE  /\ phase' \in {"onload", "live", "dead"}
         /\ loads' \subseteq {"agent", "library"}
         /\ guard' \in 0 .. 2 /\ shut' \in 0 .. 2
         /\ caller' \in {"none", "startup", "vm_init"}
         /\ pc' \in {"idle", "init", "capabilities", "enable", "callbacks", "destroy", "threads",
                     "get_id", "measurement"}
         /\ cur' \in Contexts
         /\ outcome' \in [Contexts -> {"none", "ok", "failed"}]
         /\ has_get_id' \in BOOLEAN /\ warned' \in BOOLEAN /\ ready' \in BOOLEAN
BY DEF StartupInv, StartupTypeOK, Returns, Goes, AfterThreads

LEMMA ContextInitInv ==
  ASSUME StartupInv, ubench_jvmti_context_init
  PROVE  StartupInv'
<1>0. /\ pc = "init" /\ phase # "dead" /\ cur \in Contexts /\ envs \in Seq(EnvRecord)
      /\ context \in [Contexts -> Nat] /\ outcome[cur] = "none"
  BY DEF ubench_jvmti_context_init, StartupInv, StartupTypeOK, OrderInv, EnvRecord
<1>1. CASE Returns(cur, FALSE) /\ UNCHANGED <<envs, context>>
  <2>1. OrderInv' /\ ReadyInv'
    BY <1>0, <1>1, ReturnsInv
  <2>2. StartupTypeOK'
    BY <1>1, ReturnsTypes DEF StartupInv, StartupTypeOK
  <2>3. EnvsInv'
    <3>1. pc' \in {"threads", "measurement", "idle"}
      BY <1>1 DEF Returns, Goes, AfterThreads
    <3>2. /\ outcome'[cur] = "failed"
          /\ \A c \in Contexts : c # cur => outcome'[c] = outcome[c]
      BY <1>0, <1>1 DEF Returns, StartupInv, StartupTypeOK
    <3>3. \A i \in DOMAIN envs : envs[i].context \in Contexts
      BY <1>0, EnvContexts
    <3> QED
      BY <1>0, <1>1, <3>1, <3>2, <3>3 DEF StartupInv, EnvsInv, Enabling
  <2> QED
    BY <2>1, <2>2, <2>3 DEF StartupInv
<1>2. CASE /\ envs' = Append(envs, [context |-> cur, alive |-> TRUE, enabled |-> {},
                                    callbacks |-> FALSE])
           /\ context' = [context EXCEPT ![cur] = Len(envs) + 1]
           /\ Goes(IF HasCapabilities(cur) THEN "capabilities" ELSE "enable", cur)
           /\ UNCHANGED <<phase, loads, guard, shut, caller, outcome, has_get_id, warned, ready>>
  <2> DEFINE r == [context |-> cur, alive |-> TRUE, enabled |-> {}, callbacks |-> FALSE]
             n == Len(envs) + 1
  <2>1. r \in EnvRecord /\ r.context = cur /\ r.alive /\ ~r.callbacks
    BY <1>0 DEF EnvRecord
  <2>2. /\ envs' \in Seq(EnvRecord) /\ DOMAIN envs' = DOMAIN envs \cup {n}
        /\ envs'[n] = r /\ n \in Nat \ {0} /\ n \notin DOMAIN envs
        /\ \A k \in DOMAIN envs : envs'[k] = envs[k]
    BY <1>0, <1>2, <2>1, AppendEnv
  <2> HIDE DEF r, n
  <2>3. /\ context' \in [Contexts -> Nat] /\ context'[cur] = n
        /\ \A c \in Contexts : c # cur => context'[c] = context[c]
    BY <1>0, <1>2, <2>2 DEF n
  <2>4. pc' \in {"capabilities", "enable"} /\ cur' = cur
    BY <1>2 DEF Goes
  <2>5. StartupTypeOK'
    <3>1. \A c \in Contexts : context'[c] # 0 =>
            /\ context'[c] \in DOMAIN envs' /\ envs'[context'[c]].context = c
            /\ envs'[context'[c]].alive
      BY <2>1, <2>2, <2>3 DEF StartupInv, StartupTypeOK
    <3> QED
      BY <1>2, <2>2, <2>3, <2>4, <3>1 DEF StartupInv, StartupTypeOK, EnvRecord
  <2>6. EnvsInv'
    <3>1. \A i \in DOMAIN envs : envs[i].context \in Contexts
      BY <1>0, EnvContexts
    <3>2. ASSUME NEW i \in DOMAIN envs', envs'[i].callbacks
          PROVE  /\ context'[envs'[i].context] = i /\ outcome'[envs'[i].context] = "ok"
                 /\ envs'[i].enabled = EventsOf(envs'[i].context)
      BY <1>0, <1>2, <2>1, <2>2, <2>3, <3>1, <3>2 DEF StartupInv, EnvsInv
    <3>3. ASSUME NEW c \in Contexts, outcome'[c] = "ok"
          PROVE  context'[c] # 0 /\ envs'[context'[c]].callbacks
      BY <1>0, <1>2, <2>2, <2>3, <3>3 DEF StartupInv, EnvsInv, StartupTypeOK
    <3> QED
      BY <2>1, <2>2, <2>3, <2>4, <3>2, <3>3 DEF EnvsInv, Enabling, Env
  <2>7. OrderInv' /\ ReadyInv'
    BY <1>0, <1>2, <2>4 DEF StartupInv, OrderInv, ReadyInv, Enabling
  <2> QED
    BY <2>5, <2>6, <2>7 DEF StartupInv
<1> QED
  BY <1>1, <1>2 DEF ubench_jvmti_context_init

(* The environment of the context that is being enabled.                   *)
LEMMA CurrentEnv ==
  ASSUME StartupInv, Enabling
  PROVE  /\ cur \in Contexts /\ envs \in Seq(EnvRecord) /\ context \in [Contexts -> Nat]
         /\ context[cur] \in DOMAIN envs /\ envs[context[cur]] \in EnvRecord
         /\ envs[context[cur]].context = cur /\ envs[context[cur]].alive
         /\ ~envs[context[cur]].callbacks
         /\ outcome[cur] = "none"
         /\ \A c \in Contexts : c # cur => context[c] # context[cur]
         /\ \A k \in DOMAIN envs : envs[k].context \in Contexts
<1>1. /\ cur \in Contexts /\ envs \in Seq(EnvRecord) /\ context \in [Contexts -> Nat]
      /\ context[cur] \in DOMAIN envs /\ ~envs[context[cur]].callbacks
      /\ envs[context[cur]].context = cur /\ envs[context[cur]].alive
      /\ outcome[cur] = "none"
      /\ \A c \in Contexts : c # cur => context[c] # context[cur]
  BY DEF StartupInv, StartupTypeOK, EnvsInv, OrderInv, Env, EnvRecord
<1>2. \A k \in DOMAIN envs : envs[k] \in EnvRecord
  BY <1>1
<1>3. \A k \in DOMAIN envs : envs[k].context \in Contexts
  BY <1>2 DEF EnvRecord
<1> QED
  BY <1>1, <1>2, <1>3

(* An environment without callbacks changes while it is being enabled.     *)
LEMMA EnablingStep ==
  ASSUME StartupInv, Enabling, NEW e \in SUBSET EventsOf(cur), NEW at1,
         at1 \in {"enable", "callbacks", "destroy"}, Proceeds(at1),
         envs' = [envs EXCEPT ![context[cur]].enabled = @ \cup e] \/ envs' = envs,
         at1 = "callbacks" => envs'[context[cur]].enabled = EventsOf(cur), phase # "dead"
  PROVE  StartupInv'
<1>0. /\ cur \in Contexts /\ envs \in Seq(EnvRecord) /\ context \in [Contexts -> Nat]
      /\ context[cur] \in DOMAIN envs /\ envs[context[cur]] \in EnvRecord
      /\ envs[context[cur]].context = cur /\ envs[context[cur]].alive
      /\ ~envs[context[cur]].callbacks /\ outcome[cur] = "none"
  BY CurrentEnv
<1> DEFINE i == context[cur]
           f == IF envs' = envs THEN {} ELSE e
           r == [envs[i] EXCEPT !.enabled = envs[i].enabled \cup e]
<1>1. /\ r \in EnvRecord /\ r.context = cur /\ r.alive /\ ~r.callbacks
  <2>1. e \subseteq {"compiled_method_load", "garbage_collection_finish", "vm_init",
                     "thread_start", "thread_end"}
    BY <1>0, ContextFacts
  <2> QED
    BY <1>0, <2>1 DEF EnvRecord
<1>2. envs' = [envs EXCEPT ![i] = r] \/ envs' = envs
  OBVIOUS
<1> HIDE DEF r
<1>3. /\ envs' \in Seq(EnvRecord) /\ DOMAIN envs' = DOMAIN envs
      /\ envs'[i].context = cur /\ envs'[i].alive /\ ~envs'[i].callbacks
      /\ \A k \in DOMAIN envs : k # i => envs'[k] = envs[k]
  BY <1>0, <1>1, <1>2, ReplaceEnv
<1> HIDE DEF i
<1>4. /\ pc' = at1 /\ UNCHANGED <<cur, phase, loads, guard, shut, caller, context, outcome,
                                   has_get_id, warned, ready>>
  BY DEF Proceeds, Goes
<1>5. StartupTypeOK'
  <2>1. \A c \in Contexts : context'[c] # 0 =>
          /\ context'[c] \in DOMAIN envs' /\ envs'[context'[c]].context = c
          /\ envs'[context'[c]].alive
    BY <1>0, <1>3, <1>4 DEF StartupInv, StartupTypeOK, i
  <2> QED
    BY <1>0, <1>3, <1>4, <2>1 DEF StartupInv, StartupTypeOK, EnvRecord
<1>6. EnvsInv'
  <2>1. ASSUME NEW k \in DOMAIN envs', envs'[k].callbacks
        PROVE  /\ context'[envs'[k].context] = k /\ outcome'[envs'[k].context] = "ok"
               /\ envs'[k].enabled = EventsOf(envs'[k].context)
    BY <1>3, <1>4, <2>1 DEF StartupInv, EnvsInv
  <2>2. ASSUME NEW c \in Contexts, outcome'[c] = "ok"
        PROVE  context'[c] # 0 /\ envs'[context'[c]].callbacks
    <3>1. c # cur /\ context[c] # i
      BY <1>0, <1>4, <2>2, CurrentEnv DEF i
    <3> QED
      BY <1>3, <1>4, <2>2, <3>1 DEF StartupInv, EnvsInv, StartupTypeOK
  <2> QED
    BY <1>0, <1>3, <1>4, <2>1, <2>2 DEF StartupInv, EnvsInv, Enabling, Env, i
<1>7. OrderInv' /\ ReadyInv'
  BY <1>4 DEF StartupInv, OrderInv, ReadyInv, Enabling
<1> QED
  BY <1>5, <1>6, <1>7 DEF StartupInv

LEMMA AddCapabilitiesInv ==
  ASSUME StartupInv, AddCapabilities
  PROVE  StartupInv'
<1>1. PICK at1 \in {"enable", "destroy"} : Proceeds(at1) /\ UNCHANGED envs
  BY DEF AddCapabilities
<1>2. Enabling /\ phase # "dead" /\ {} \in SUBSET EventsOf(cur)
  BY DEF AddCapabilities, Enabling
<1> QED
  BY <1>1, <1>2, EnablingStep

LEMMA SetEventNotificationModeInv ==
  ASSUME StartupInv, SetEventNotificationMode
  PROVE  StartupInv'
<1>1. Enabling /\ phase # "dead"
  BY DEF SetEventNotificationMode, Enabling
<1>2. /\ cur \in Contexts /\ envs \in Seq(EnvRecord) /\ context[cur] \in DOMAIN envs
      /\ envs[context[cur]] \in EnvRecord
  BY <1>1, CurrentEnv
<1>3. PICK i \in DOMAIN ContextEvents[cur] :
        /\ Env.enabled = {ContextEvents[cur][j] : j \in 1 .. i - 1}
        /\ \/ Proceeds("destroy") /\ UNCHANGED envs
           \/ /\ envs' = [envs EXCEPT ![context[cur]].enabled = @ \cup {ContextEvents[cur][i]}]
              /\ Proceeds(IF i = Len(ContextEvents[cur]) THEN "callbacks" ELSE "enable")
  BY DEF SetEventNotificationMode
<1>4. CASE Proceeds("destroy") /\ UNCHANGED envs
  <2>1. {} \in SUBSET EventsOf(cur)
    OBVIOUS
  <2> QED
    BY <1>1, <1>4, <2>1, EnablingStep
<1>5. CASE /\ envs' = [envs EXCEPT ![context[cur]].enabled = @ \cup {ContextEvents[cur][i]}]
           /\ Proceeds(IF i = Len(ContextEvents[cur]) THEN "callbacks" ELSE "enable")
  <2> DEFINE e == {ContextEvents[cur][i]}
             to == IF i = Len(ContextEvents[cur]) THEN "callbacks" ELSE "enable"
  <2>1. e \in SUBSET EventsOf(cur)
    BY DEF EventsOf
  <2>2. ASSUME i = Len(ContextEvents[cur])
        PROVE  envs'[context[cur]].enabled = EventsOf(cur)
    <3>1. envs'[context[cur]].enabled = envs[context[cur]].enabled \cup e
      BY <1>2, <1>5 DEF EnvRecord
    <3>2. Len(ContextEvents[cur]) \in Nat /\ DOMAIN ContextEvents[cur] = 1 .. i
      BY <1>2, <2>2, ContextFacts
    <3>3. 1 .. i = (1 .. i - 1) \cup {i}
      BY <2>2, <3>2
    <3>4. EventsOf(cur) = {ContextEvents[cur][j] : j \in 1 .. i - 1} \cup e
      BY <3>2, <3>3 DEF EventsOf
    <3> QED
      BY <1>3, <3>1, <3>4 DEF Env
  <2> HIDE DEF e
  <2>3. envs' = [envs EXCEPT ![context[cur]].enabled = @ \cup e] /\ Proceeds(to)
    BY <1>5 DEF e
  <2>4. to \in {"enable", "callbacks", "destroy"}
        /\ (to = "callbacks" => envs'[context[cur]].enabled = EventsOf(cur))
    BY <2>2
  <2> HIDE DEF to
  <2> QED
    BY <1>1, <2>1, <2>3, <2>4, EnablingStep
<1> QED
  BY <1>3, <1>4, <1>5

LEMMA SetEventCallbacksInv ==
  ASSUME StartupInv, SetEventCallbacks
  PROVE  StartupInv'
<1>1. Enabling /\ phase # "dead" /\ pc = "callbacks"
  BY DEF SetEventCallbacks, Enabling
<1>2. CASE Proceeds("destroy") /\ UNCHANGED envs
  <2>1. {} \in SUBSET EventsOf(cur)
    OBVIOUS
  <2> QED
    BY <1>1, <1>2, <2>1, EnablingStep
<1>3. CASE /\ envs' = [envs EXCEPT ![context[cur]].callbacks = TRUE]
           /\ Returns(cur, TRUE) /\ UNCHANGED context
  <2> DEFINE i == context[cur]
             r == [envs[i] EXCEPT !.callbacks = TRUE]
  <2>0. /\ cur \in Contexts /\ envs \in Seq(EnvRecord) /\ context \in [Contexts -> Nat]
        /\ i \in DOMAIN envs /\ envs[i] \in EnvRecord /\ i # 0
        /\ envs[i].context = cur /\ envs[i].alive /\ envs[i].enabled = EventsOf(cur)
        /\ \A k \in DOMAIN envs : envs[k].context \in Contexts
        /\ \A c \in Contexts : c # cur => context[c] # i
    BY <1>1, CurrentEnv DEF StartupInv, EnvsInv, Env
  <2>1. r \in EnvRecord /\ r.context = cur /\ r.alive /\ r.callbacks /\ r.enabled = EventsOf(cur)
    BY <2>0 DEF EnvRecord
  <2>2. envs' = [envs EXCEPT ![i] = r]
    BY <1>3
  <2> HIDE DEF r
  <2>3. /\ envs' \in Seq(EnvRecord) /\ DOMAIN envs' = DOMAIN envs /\ envs'[i] = r
        /\ \A k \in DOMAIN envs : k # i => envs'[k] = envs[k]
    BY <2>0, <2>1, <2>2, ReplaceEnv
  <2> HIDE DEF i
  <2>4. OrderInv' /\ ReadyInv'
    BY <1>1, <1>3, ReturnsInv
  <2>5. StartupTypeOK'
    <3>1. \A c \in Contexts : context'[c] # 0 =>
            /\ context'[c] \in DOMAIN envs' /\ envs'[context'[c]].context = c
            /\ envs'[context'[c]].alive
      BY <1>3, <2>0, <2>1, <2>3 DEF StartupInv, StartupTypeOK, i
    <3> QED
      BY <1>3, <2>0, <2>3, <3>1, ReturnsTypes DEF StartupTypeOK, EnvRecord
  <2>6. EnvsInv'
    <3>1. pc' \in {"threads", "measurement", "idle"}
      BY <1>3 DEF Returns, Goes, AfterThreads
    <3>2. /\ outcome'[cur] = "ok"
          /\ \A c \in Contexts : c # cur => outcome'[c] = outcome[c]
      BY <1>3, <2>0 DEF Returns, StartupInv, StartupTypeOK
    <3>3. ASSUME NEW k \in DOMAIN envs', envs'[k].callbacks
          PROVE  /\ context'[envs'[k].context] = k /\ outcome'[envs'[k].context] = "ok"
                 /\ envs'[k].enabled = EventsOf(envs'[k].context)
      <4>1. CASE k = i
        BY <1>3, <2>1, <2>3, <3>2, <4>1 DEF i
      <4>2. CASE k # i
        <5>1. envs'[k] = envs[k] /\ envs[k].context \in Contexts /\ k \in DOMAIN envs
          BY <2>0, <2>3, <4>2
        <5>2. outcome[envs[k].context] = "ok" /\ context[envs[k].context] = k
              /\ envs[k].enabled = EventsOf(envs[k].context)
          BY <3>3, <5>1 DEF StartupInv, EnvsInv
        <5>3. outcome[cur] = "none"
          BY <1>1, CurrentEnv
        <5> QED
          BY <1>3, <3>2, <5>1, <5>2, <5>3
      <4> QED
        BY <4>1, <4>2
    <3>4. ASSUME NEW c \in Contexts, outcome'[c] = "ok"
          PROVE  context'[c] # 0 /\ envs'[context'[c]].callbacks
      <4>1. CASE c = cur
        BY <1>3, <2>0, <2>1, <2>3, <4>1 DEF i
      <4>2. CASE c # cur
        BY <1>3, <2>0, <2>3, <3>2, <3>4, <4>2 DEF StartupInv, EnvsInv, StartupTypeOK
      <4> QED
        BY <4>1, <4>2
    <3> QED
      BY <3>1, <3>3, <3>4 DEF EnvsInv, Enabling
  <2> QED
    BY <2>4, <2>5, <2>6 DEF StartupInv
<1> QED
  BY <1>2, <1>3 DEF SetEventCallbacks

LEMMA ContextDestroyInv ==
  ASSUME StartupInv, ubench_jvmti_context_destroy
  PROVE  StartupInv'
<1> DEFINE i == context[cur]
<1>1. Enabling /\ phase # "dead" /\ Returns(cur, FALSE)
      /\ context' = [context EXCEPT ![cur] = 0]
  BY DEF ubench_jvmti_context_destroy, Enabling
<1>2. /\ cur \in Contexts /\ envs \in Seq(EnvRecord) /\ context \in [Contexts -> Nat]
      /\ i \in DOMAIN envs /\ envs[i] \in EnvRecord
      /\ envs[i].context = cur /\ ~envs[i].callbacks /\ outcome[cur] = "none"
      /\ \A k \in DOMAIN envs : envs[k].context \in Contexts
      /\ \A c \in Contexts : c # cur => context[c] # i
  BY <1>1, CurrentEnv
<1>3. PICK disposed \in BOOLEAN : envs' = [envs EXCEPT ![i].alive = ~disposed]
  BY DEF ubench_jvmti_context_destroy
<1> DEFINE r == [envs[i] EXCEPT !.alive = ~disposed]
<1>4. r \in EnvRecord /\ ~r.callbacks
  BY <1>2 DEF EnvRecord
<1>5. envs' = [envs EXCEPT ![i] = r]
  BY <1>3
<1> HIDE DEF r
<1>6. /\ envs' \in Seq(EnvRecord) /\ DOMAIN envs' = DOMAIN envs /\ envs'[i] = r
      /\ \A k \in DOMAIN envs : k # i => envs'[k] = envs[k]
  BY <1>2, <1>4, <1>5, ReplaceEnv
<1> HIDE DEF i
<1>7. /\ context' \in [Contexts -> Nat] /\ context'[cur] = 0
      /\ \A c \in Contexts : c # cur => context'[c] = context[c]
  BY <1>1, <1>2
<1>8. OrderInv' /\ ReadyInv'
  BY <1>1, ReturnsInv
<1>9. StartupTypeOK'
  <2>1. \A c \in Contexts : context'[c] # 0 =>
          /\ context'[c] \in DOMAIN envs' /\ envs'[context'[c]].context = c
          /\ envs'[context'[c]].alive
    BY <1>2, <1>6, <1>7 DEF StartupInv, StartupTypeOK
  <2> QED
    BY <1>1, <1>6, <1>7, <2>1, ReturnsTypes DEF StartupTypeOK, EnvRecord
<1>10. EnvsInv'
  <2>1. pc' \in {"threads", "measurement", "idle"}
    BY <1>1 DEF Returns, Goes, AfterThreads
  <2>2. /\ outcome'[cur] = "failed"
        /\ \A c \in Contexts : c # cur => outcome'[c] = outcome[c]
    BY <1>1, <1>2 DEF Returns, StartupInv, StartupTypeOK
  <2>3. ASSUME NEW k \in DOMAIN envs', envs'[k].callbacks
        PROVE  /\ context'[envs'[k].context] = k /\ outcome'[envs'[k].context] = "ok"
               /\ envs'[k].enabled = EventsOf(envs'[k].context)
    <3>1. k # i /\ k \in DOMAIN envs /\ envs'[k] = envs[k] /\ envs[k].context \in Contexts
      BY <1>2, <1>4, <1>6, <2>3
    <3>2. outcome[envs[k].context] = "ok" /\ context[envs[k].context] = k
          /\ envs[k].enabled = EventsOf(envs[k].context)
      BY <2>3, <3>1 DEF StartupInv, EnvsInv
    <3> QED
      BY <1>2, <1>7, <2>2, <3>1, <3>2
  <2>4. ASSUME NEW c \in Contexts, outcome'[c] = "ok"
        PROVE  context'[c] # 0 /\ envs'[context'[c]].callbacks
    BY <1>2, <1>6, <1>7, <2>2, <2>4 DEF StartupInv, EnvsInv, StartupTypeOK
  <2> QED
    BY <2>1, <2>3, <2>4 DEF EnvsInv, Enabling
<1> QED
  BY <1>8, <1>9, <1>10 DEF StartupInv

(* The steps that do not touch the environments.                           *)
LEMMA ThreadsInitInv ==
  ASSUME StartupInv, ubench_threads_init
  PROVE  StartupInv'
<1>1. /\ pc = "threads" /\ pc' \in {"get_id", "init"} /\ cur' \in {"threads", "vm_init"}
      /\ (pc' = "get_id" <=> phase = "live")
      /\ pc' = "init" => cur' = "vm_init"
      /\ pc' = "get_id" => cur' = "threads"
      /\ UNCHANGED <<phase, loads, guard, shut, caller, envs, context, outcome, has_get_id, warned,
                     ready>>
  BY DEF ubench_threads_init, Goes
<1>2. StartupTypeOK'
  BY <1>1 DEF StartupInv, StartupTypeOK, Contexts
<1>3. EnvsInv'
  BY <1>1, EnvsStay DEF Enabling
<1>4. OrderInv'
  BY <1>1 DEF StartupInv, OrderInv, Enabling
<1>5. ReadyInv'
  BY <1>1 DEF StartupInv, OrderInv, ReadyInv, Enabling
<1> QED
  BY <1>2, <1>3, <1>4, <1>5 DEF StartupInv

LEMMA RegistrationInv ==
  ASSUME StartupInv, enable_automatic_threads_registration
  PROVE  StartupInv'
<1>0. has_get_id \in BOOLEAN /\ warned \in BOOLEAN
  BY DEF StartupInv, StartupTypeOK
<1>1. /\ pc = "get_id" /\ cur' = "threads" /\ (pc' = AfterThreads(FALSE) \/ (pc' = "init" /\ has_get_id'))
      /\ (has_get_id => has_get_id') /\ has_get_id' \in BOOLEAN
      /\ warned' \in BOOLEAN
      /\ UNCHANGED <<phase, loads, guard, shut, caller, envs, context, outcome, ready>>
  BY <1>0, Zenon DEF enable_automatic_threads_registration, Goes
<1>2. StartupTypeOK'
  BY <1>1 DEF StartupInv, StartupTypeOK, Contexts, AfterThreads
<1>3. EnvsInv'
  BY <1>1, EnvsStay DEF Enabling, AfterThreads
<1>4. OrderInv'
  BY <1>1 DEF StartupInv, StartupTypeOK, OrderInv, Enabling, AfterThreads
<1>5. ReadyInv'
  BY <1>1 DEF StartupInv, StartupTypeOK, OrderInv, ReadyInv, Enabling, AfterThreads
<1> QED
  BY <1>2, <1>3, <1>4, <1>5 DEF StartupInv

LEMMA MeasurementInitInv ==
  ASSUME StartupInv, ubench_measurement_init
  PROVE  StartupInv'
<1>0. ready \in BOOLEAN
  BY DEF StartupInv, StartupTypeOK
<1>1. /\ pc = "measurement" /\ cur' = cur
      /\ (pc' = "measurement" /\ phase' = "dead") \/ (pc' = "idle" /\ phase' = phase /\ ready')
      /\ ready' \in BOOLEAN /\ (ready => ready')
      /\ UNCHANGED <<loads, guard, shut, caller, envs, context, outcome, has_get_id, warned>>
  <2>1. CASE phase' = "dead" /\ UNCHANGED <<pc, cur, ready>>
    BY <1>0, <2>1 DEF ubench_measurement_init
  <2>2. CASE ready' = TRUE /\ Goes("idle", cur) /\ UNCHANGED phase
    BY <2>2, Zenon DEF ubench_measurement_init, Goes
  <2> QED
    BY <2>1, <2>2 DEF ubench_measurement_init
<1>2. StartupTypeOK'
  BY <1>1 DEF StartupInv, StartupTypeOK, ubench_measurement_init
<1>3. EnvsInv'
  BY <1>1, EnvsStay DEF Enabling
<1>4. OrderInv'
  BY <1>1 DEF StartupInv, StartupTypeOK, OrderInv, Enabling
<1>5. ReadyInv'
  BY <1>1 DEF StartupInv, StartupTypeOK, OrderInv, ReadyInv, Enabling
<1> QED
  BY <1>2, <1>3, <1>4, <1>5 DEF StartupInv

LEMMA VmInitInv ==
  ASSUME StartupInv, VmInit
  PROVE  StartupInv'
<1>1. /\ phase = "onload" /\ pc = "idle" /\ phase' = "live"
      /\ pc' \in {"idle", "get_id"}
      /\ pc' = "idle" => cur' = cur /\ caller' = caller
      /\ pc' = "get_id" => /\ cur' = "threads" /\ caller' = "vm_init"
                           /\ Listens("vm_init", "vm_init")
      /\ warned' \in BOOLEAN
      /\ UNCHANGED <<loads, guard, shut, envs, context, outcome, has_get_id, ready>>
  BY DEF VmInit, OnVmInit, Goes, StartupInv, StartupTypeOK
<1>2. pc' = "get_id" => guard # 0
  <2>1. SUFFICES ASSUME pc' = "get_id" PROVE guard # 0
    OBVIOUS
  <2>2. PICK i \in DOMAIN envs : envs[i].context = "vm_init" /\ envs[i].callbacks
    BY <1>1, <2>1 DEF Listens, Listeners
  <2>3. outcome["vm_init"] = "ok"
    BY <2>2 DEF StartupInv, EnvsInv
  <2> QED
    BY <2>3 DEF StartupInv, OrderInv, Contexts
<1>3. StartupTypeOK'
  BY <1>1 DEF StartupInv, StartupTypeOK, Contexts
<1>4. EnvsInv'
  BY <1>1, EnvsStay DEF Enabling
<1>5. OrderInv'
  BY <1>1, <1>2 DEF StartupInv, StartupTypeOK, OrderInv, Enabling
<1>6. ReadyInv'
  <2>1. guard # 0 => loads # {}
    BY DEF StartupInv, StartupTypeOK, ReadyInv
  <2> QED
    BY <1>1, <1>2, <2>1 DEF StartupInv, StartupTypeOK, OrderInv, ReadyInv, Enabling
<1> QED
  BY <1>3, <1>4, <1>5, <1>6 DEF StartupInv

LEMMA ShutdownInv ==
  ASSUME StartupInv, ubench_shutdown
  PROVE  StartupInv'
<1>1. StartupTypeOK'
  BY DEF StartupInv, StartupTypeOK, ReadyInv, ubench_shutdown
<1>2. EnvsInv'
  BY EnvsStay DEF ubench_shutdown, Enabling
<1>3. OrderInv' /\ ReadyInv'
  BY DEF StartupInv, StartupTypeOK, OrderInv, ReadyInv, Enabling, ubench_shutdown
<1> QED
  BY <1>1, <1>2, <1>3 DEF StartupInv

LEMMA StartupSame ==
  ASSUME StartupInv, UNCHANGED startupVars
  PROVE  StartupInv'
<1>1. StartupTypeOK'
  BY DEF StartupInv, StartupTypeOK, startupVars
<1>2. EnvsInv'
  BY EnvsStay DEF startupVars, Enabling
<1>3. OrderInv' /\ ReadyInv'
  BY DEF StartupInv, OrderInv, ReadyInv, Enabling, startupVars
<1> QED
  BY <1>1, <1>2, <1>3 DEF StartupInv

LEMMA StartupStep ==
  ASSUME StartupInv, [StartupNext]_startupVars
  PROVE  StartupInv'
BY LoadInv, ContextInitInv, AddCapabilitiesInv, SetEventNotificationModeInv, SetEventCallbacksInv,
   ContextDestroyInv, ThreadsInitInv, RegistrationInv, MeasurementInitInv, VmInitInv, ShutdownInv,
   StartupSame DEF StartupNext, Startup

LEMMA SpecStartupInv == Spec => []StartupInv
<1>1. Init => StartupInv
  BY InitStartupInv DEF Init
<1>2. StartupInv /\ [Next]_vars => StartupInv'
  <2>1. SUFFICES ASSUME StartupInv, [Next]_vars PROVE StartupInv'
    OBVIOUS
  <2>2. [StartupNext]_startupVars
    BY <2>1 DEF Next, vars, Callback, CompiledMethodLoad, IncrementCompilation, IncrementTotal,
                GarbageCollectionFinish, getCompilationCountAndReset
  <2> QED
    BY <2>1, <2>2, StartupStep
<1> QED
  BY <1>1, <1>2, PTL DEF Spec

(* Whatever the JVM loads in whatever order and whatever JVMTI refuses,    *)
(* startup keeps its types: a context that points to an environment points *)
(* to one of its own that is not disposed (jvmutil.c).                     *)
THEOREM StartupTypes == Spec => []StartupTypeOK
BY SpecStartupInv, PTL DEF StartupInv

(* A load that has returned left the measurement code usable, also when it *)
(* was the second one or VM init has come in between (ubench_startup).     *)
THEOREM LoadedIsReady == Spec => []LoadedMeansReady
<1>1. StartupInv => LoadedMeansReady
  BY DEF StartupInv, ReadyInv, LoadedMeansReady
<1> QED
  BY <1>1, SpecStartupInv, PTL

(* Who listens to the events of a context: the one environment the context *)
(* points to, when enabling it succeeded, and nobody otherwise.            *)
LEMMA WhoListens ==
  ASSUME StartupInv, NEW c \in Contexts, NEW e \in EventsOf(c)
  PROVE  Listeners(c, e) = IF outcome[c] = "ok" THEN {context[c]} ELSE {}
<1>1. CASE outcome[c] = "ok"
  <2> DEFINE i == context[c]
  <2>1. i \in DOMAIN envs /\ envs[i].context = c /\ envs[i].alive /\ envs[i].callbacks
    BY <1>1 DEF StartupInv, EnvsInv, StartupTypeOK
  <2>2. e \in envs[i].enabled
    BY <2>1 DEF StartupInv, EnvsInv
  <2>3. ASSUME NEW k \in DOMAIN envs, envs[k].context = c, envs[k].callbacks PROVE k = i
    BY <2>3 DEF StartupInv, EnvsInv
  <2> QED
    BY <1>1, <2>1, <2>2, <2>3 DEF Listeners
<1>2. CASE outcome[c] # "ok"
  BY <1>2 DEF StartupInv, EnvsInv, Listeners
<1> QED
  BY <1>1, <1>2

(* A context gets all of its events or none, and gets them exactly when    *)
(* ubench_jvmti_context_init_and_enable succeeded, also when JVMTI fails   *)
(* to dispose an environment that was given up.                            *)
THEOREM EventsTogether == Spec => []AllEventsOrNone
<1>1. ASSUME StartupInv PROVE AllEventsOrNone
  <2>1. SUFFICES ASSUME NEW c \in Contexts, NEW i \in DOMAIN ContextEvents[c]
                 PROVE  Listens(c, ContextEvents[c][i]) <=> outcome[c] = "ok"
    BY DEF AllEventsOrNone
  <2>2. ContextEvents[c][i] \in EventsOf(c)
    BY DEF EventsOf
  <2>3. Listeners(c, ContextEvents[c][i]) = IF outcome[c] = "ok" THEN {context[c]} ELSE {}
    BY <1>1, <2>2, WhoListens
  <2> QED
    BY <2>3 DEF Listens
<1> QED
  BY <1>1, SpecStartupInv, PTL

(* The thread callbacks never run before thread_get_id_method is set       *)
(* (threads.c), on the early path and on the one through VM init.          *)
THEOREM MethodBeforeCallbacks == Spec => []GetIdBeforeEvents
<1>1. ASSUME StartupInv PROVE GetIdBeforeEvents
  <2>1. SUFFICES ASSUME NEW e \in {"thread_start", "thread_end"}, Listens("threads", e)
                 PROVE  has_get_id
    BY DEF GetIdBeforeEvents
  <2>2. "threads" \in Contexts /\ e \in EventsOf("threads")
    BY ContextFacts DEF Contexts
  <2>3. Listeners("threads", e) = IF outcome["threads"] = "ok" THEN {context["threads"]} ELSE {}
    BY <1>1, <2>2, WhoListens
  <2>4. outcome["threads"] = "ok"
    BY <2>1, <2>3 DEF Listens
  <2> QED
    BY <1>1, <2>4 DEF StartupInv, ReadyInv
<1> QED
  BY <1>1, SpecStartupInv, PTL

-----------------------------------------------------------------------------
(* The counters.                                                           *)
LEMMA InFinite ==
  ASSUME NEW place
  PROVE  IsFiniteSet(In(place)) /\ Cardinality(In(place)) \in Nat
<1>1. In(place) \subseteq Compilers
  BY DEF In
<1>2. IsFiniteSet(In(place))
  BY <1>1, CountersAssumption, FS_Subset
<1> QED
  BY <1>2, FS_CardinalityType

(* A compiler thread moves from one place to another.                      *)
LEMMA Moves ==
  ASSUME CountersTypeOK, NEW k \in Compilers, NEW to \in {"idle", "first", "second"},
         at[k] # to, at' = [at EXCEPT ![k] = to]
  PROVE  \A p \in {"idle", "first", "second"} :
           Cardinality(In(p)') = IF p = to THEN Cardinality(In(p)) + 1
                                 ELSE IF p = at[k] THEN Cardinality(In(p)) - 1
                                 ELSE Cardinality(In(p))
<1>1. SUFFICES ASSUME NEW p \in {"idle", "first", "second"}
               PROVE  Cardinality(In(p)') = IF p = to THEN Cardinality(In(p)) + 1
                                            ELSE IF p = at[k] THEN Cardinality(In(p)) - 1
                                            ELSE Cardinality(In(p))
  OBVIOUS
<1>2. at \in [Compilers -> {"idle", "first", "second"}]
  BY DEF CountersTypeOK
<1>3. IsFiniteSet(In(p)) /\ Cardinality(In(p)) \in Nat
  BY InFinite
<1>4. CASE p = to
  <2>1. k \notin In(p) /\ In(p)' = In(p) \cup {k}
    BY <1>2, <1>4 DEF In
  <2> QED
    BY <1>3, <1>4, <2>1, FS_AddElement
<1>5. CASE p # to /\ p = at[k]
  <2>1. k \in In(p) /\ In(p)' = In(p) \ {k}
    BY <1>2, <1>5 DEF In
  <2> QED
    BY <1>3, <1>5, <2>1, FS_RemoveElement
<1>6. CASE p # to /\ p # at[k]
  <2>1. In(p)' = In(p)
    BY <1>2, <1>6 DEF In
  <2> QED
    BY <1>6, <2>1
<1> QED
  BY <1>4, <1>5, <1>6

(* The counters' events are posted to one environment at most.             *)
LEMMA OneListener ==
  ASSUME StartupInv, NEW e \in EventsOf("counters"), Listens("counters", e)
  PROVE  Cardinality(Listeners("counters", e)) = 1
<1>1. Listeners("counters", e) =
        IF outcome["counters"] = "ok" THEN {context["counters"]} ELSE {}
  BY WhoListens DEF Contexts
<1>2. Listeners("counters", e) = {context["counters"]}
  BY <1>1 DEF Listens
<1> QED
  BY <1>2, FS_Singleton

LEMMA CountersStep ==
  ASSUME StartupInv, CountersInv, [Next]_vars
  PROVE  CountersInv'
<1>0. /\ counter_compilation \in Nat /\ counter_compilation_total \in Nat
      /\ counter_gc_total \in Nat /\ compiled \in Nat /\ collected \in Nat /\ handedOut \in Nat
      /\ at \in [Compilers -> {"idle", "first", "second"}] /\ calls \in [Compilers -> Nat]
      /\ \A k \in Compilers : at[k] # "idle" => calls[k] = 1
      /\ handedOut + counter_compilation + Cardinality(In("first")) = compiled
      /\ counter_compilation_total + Cardinality(In("first")) + Cardinality(In("second")) = compiled
      /\ counter_gc_total = collected
      /\ Cardinality(In("first")) \in Nat /\ Cardinality(In("second")) \in Nat
  BY InFinite DEF CountersInv, CountersTypeOK, CountedOnce
<1>1. CASE UNCHANGED counterVars
  BY <1>1 DEF CountersInv, CountersTypeOK, CountedOnce, In, counterVars
<1>2. ASSUME NEW k \in Compilers, CompiledMethodLoad(k) PROVE CountersInv'
  <2>1. Cardinality(Listeners("counters", "compiled_method_load")) = 1
    BY <1>2, OneListener, ContextFacts DEF CompiledMethodLoad
  <2>2. /\ at[k] = "idle" /\ at' = [at EXCEPT ![k] = "first"]
        /\ calls' = [calls EXCEPT ![k] = 1] /\ compiled' = compiled + 1
        /\ UNCHANGED <<counter_compilation, counter_compilation_total, counter_gc_total, collected,
                       handedOut>>
    BY <1>2, <2>1 DEF CompiledMethodLoad
  <2>3. /\ Cardinality(In("first")') = Cardinality(In("first")) + 1
        /\ Cardinality(In("second")') = Cardinality(In("second"))
    BY <2>2, Moves DEF CountersInv
  <2>4. CountedOnce'
    BY <1>0, <2>2, <2>3 DEF CountedOnce
  <2> QED
    BY <1>0, <2>2, <2>4 DEF CountersInv, CountersTypeOK
<1>3. ASSUME NEW k \in Compilers, IncrementCompilation(k) PROVE CountersInv'
  <2>1. /\ at[k] = "first" /\ at' = [at EXCEPT ![k] = "second"]
        /\ counter_compilation' = counter_compilation + 1
        /\ UNCHANGED <<counter_compilation_total, counter_gc_total, calls, compiled, collected,
                       handedOut>>
    BY <1>3 DEF IncrementCompilation, ubench_atomic_int_inc
  <2>2. /\ Cardinality(In("first")') = Cardinality(In("first")) - 1
        /\ Cardinality(In("second")') = Cardinality(In("second")) + 1
    BY <2>1, Moves DEF CountersInv
  <2>3. CountedOnce'
    BY <1>0, <2>1, <2>2 DEF CountedOnce
  <2> QED
    BY <1>0, <2>1, <2>3 DEF CountersInv, CountersTypeOK
<1>4. ASSUME NEW k \in Compilers, IncrementTotal(k) PROVE CountersInv'
  <2>1. /\ at[k] = "second" /\ at' = [at EXCEPT ![k] = "idle"]
        /\ counter_compilation_total' = counter_compilation_total + 1
        /\ calls' = [calls EXCEPT ![k] = calls[k] - 1]
        /\ UNCHANGED <<counter_compilation, counter_gc_total, compiled, collected, handedOut>>
    BY <1>0, <1>4 DEF IncrementTotal, ubench_atomic_int_inc
  <2>2. /\ Cardinality(In("first")') = Cardinality(In("first"))
        /\ Cardinality(In("second")') = Cardinality(In("second")) - 1
    BY <2>1, Moves DEF CountersInv
  <2>3. CountedOnce'
    BY <1>0, <2>1, <2>2 DEF CountedOnce
  <2> QED
    BY <1>0, <2>1, <2>3 DEF CountersInv, CountersTypeOK
<1>5. CASE GarbageCollectionFinish
  <2>1. Cardinality(Listeners("counters", "garbage_collection_finish")) = 1
    BY <1>5, OneListener, ContextFacts DEF GarbageCollectionFinish
  <2>2. /\ collected' = collected + 1 /\ counter_gc_total' = counter_gc_total + 1
        /\ UNCHANGED <<counter_compilation, counter_compilation_total, at, calls, compiled, handedOut>>
    BY <1>5, <2>1 DEF GarbageCollectionFinish
  <2> QED
    BY <1>0, <2>2 DEF CountersInv, CountersTypeOK, CountedOnce, In
<1>6. CASE getCompilationCountAndReset
  <2>1. /\ handedOut' = handedOut + counter_compilation /\ counter_compilation' = 0
        /\ UNCHANGED <<counter_compilation_total, counter_gc_total, at, calls, compiled, collected>>
    BY <1>6 DEF getCompilationCountAndReset, ubench_atomic_int_reset
  <2> QED
    BY <1>0, <2>1 DEF CountersInv, CountersTypeOK, CountedOnce, In
<1> QED
  BY <1>1, <1>2, <1>3, <1>4, <1>5, <1>6 DEF Next, Callback, vars

(* Every compilation and every collection the JVM tells of is counted      *)
(* exactly once, although the library may be loaded twice and the callback *)
(* and the reset of getCompilationCountAndReset interleave (counter.c).    *)
THEOREM CountsAreExact == Spec => []CountedOnce
<1>1. Init => CountersInv
  <2>1. SUFFICES ASSUME Init PROVE CountersInv
    OBVIOUS
  <2>2. In("first") = {} /\ In("second") = {}
    BY <2>1 DEF Init, In
  <2>3. Cardinality(In("first")) = 0 /\ Cardinality(In("second")) = 0
    BY <2>2, FS_EmptySet
  <2> QED
    BY <2>1, <2>3 DEF Init, CountersInv, CountersTypeOK, CountedOnce
<1>2. CountersInv => CountedOnce
  BY DEF CountersInv
<1> QED
  BY <1>1, <1>2, SpecStartupInv, CountersStep, PTL DEF Spec
=============================================================================
