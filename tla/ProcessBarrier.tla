--------------------------- MODULE ProcessBarrier ---------------------------
(***************************************************************************)
(* The barrier between processes: the ubench-barrier tool                  *)
(* (c-barrier/main.c) creates a shared memory segment and initialises a    *)
(* pthread barrier in it, JVMs map the segment (Barrier.init) and wait on  *)
(* the barrier (Barrier.barrier).                                          *)
(*                                                                         *)
(* Tool and JVMs run in any order and any of them may fail or be killed at *)
(* any step.  The tool may be run again for a name that exists; nothing    *)
(* ever removes a segment.  The segment can be opened as soon as shm_open  *)
(* has created it, long before the barrier in it is initialised.           *)
(*                                                                         *)
(* The barrier itself is external and modelled after glibc: an arriving    *)
(* thread draws the next number, the arrival that completes a round moves  *)
(* the current round up to its number, and a thread leaves when the        *)
(* current round has reached its own.                                      *)
(***************************************************************************)
EXTENDS Integers, FiniteSets

CONSTANTS
  Names,      \* barrier names, the common prefix included
  Jvms, Threads, JvmOf,   \* Java processes, their threads
  Tools,      \* runs of ubench-barrier
  Sizes,      \* sizes given to them, 0 for anything the barrier refuses
  MaxLaps     \* bound on the waits of a thread at one name

ASSUME BarrierAssumption ==
  /\ JvmOf \in [Threads -> Jvms]
  /\ IsFiniteSet(Threads)
  /\ Sizes \subseteq Nat
  /\ MaxLaps \in Nat
  /\ Names \cap {"null", "MAP_FAILED"} = {}

VARIABLES
  segment,   \* what shared memory holds under each name
  bar,       \* the pthread_barrier_t in it
  tool,      \* each run of the tool: its progress and arguments
  shared_mem_barrier,   \* the mapping of each JVM
  alive,     \* JVMs that have not crashed or been killed
  pc, arg,   \* where each thread is, and the name that it works with
  ticket,    \* the number each thread drew in the barrier it is in
  laps,      \* history: waits each thread has completed at the barrier of a name
  size,      \* history: the size of the last tool run that succeeded, by name
  disturbed, \* history: names last initialised with a thread in the barrier
  prompt     \* history: JVMs whose mapping was asked for after the tool was done

shm == <<segment, bar, tool, size, disturbed>>
jvm == <<shared_mem_barrier, alive, prompt>>
waits == <<pc, arg, ticket, laps>>
vars == <<shm, jvm, waits>>

Zeroes == [count |-> 0, in |-> 0, current_round |-> 0]

NoRun == [at |-> "shm_open", name |-> "none", size |-> 0]
Exited == [NoRun EXCEPT !.at = "exited"]
NoArg == [name |-> "none", ready |-> FALSE]

Init ==
  /\ segment = [n \in Names |-> "absent"]
  /\ bar = [n \in Names |-> Zeroes]
  /\ tool = [c \in Tools |-> NoRun]
  /\ shared_mem_barrier = [j \in Jvms |-> "null"]
  /\ alive = [j \in Jvms |-> TRUE]
  /\ pc = [t \in Threads |-> "java"]
  /\ arg = [t \in Threads |-> NoArg]
  /\ ticket = [t \in Threads |-> 0]
  /\ laps = [t \in Threads |-> [n \in Names |-> 0]]
  /\ size = [n \in Names |-> 0]
  /\ disturbed = {}
  /\ prompt = {}

Inside(t, n) == pc[t] = "wait" /\ arg[t].name = n
Lives(t) == alive[JvmOf[t]]

(* A process ends and its mapping with it.  What its threads did to the    *)
(* barrier stays, so they keep their place in it.                          *)
Dies(j) ==
  LET gone == {t \in Threads : JvmOf[t] = j /\ pc[t] # "wait"}
  IN  /\ alive' = [alive EXCEPT ![j] = FALSE]
      /\ shared_mem_barrier' = [shared_mem_barrier EXCEPT ![j] = "null"]
      /\ prompt' = prompt \ {j}
      /\ pc' = [t \in Threads |-> IF t \in gone THEN "java" ELSE pc[t]]
      /\ arg' = [t \in Threads |-> IF t \in gone THEN NoArg ELSE arg[t]]
      /\ UNCHANGED <<shm, ticket, laps>>

-----------------------------------------------------------------------------
(* ubench-barrier.  Every call may fail, which ends the tool and leaves    *)
(* the segment as it is; so does killing it.                               *)
ToolDies(c) ==
  /\ tool[c].at # "exited"
  /\ tool' = [tool EXCEPT ![c] = Exited]
  /\ UNCHANGED <<segment, bar, size, disturbed, jvm, waits>>

ToolOpens_Truncates(c, n, s) ==   \* variant
  /\ tool[c].at = "shm_open"
  /\ segment' = [segment EXCEPT ![n] = "empty"]
  /\ tool' = [tool EXCEPT ![c] = [at |-> "ftruncate", name |-> n, size |-> s]]
  /\ UNCHANGED <<bar, size, disturbed, jvm, waits>>

(* O_CREAT without O_EXCL: a segment that is there is taken over.          *)
ToolOpens(c, n, s) ==
  /\ tool[c].at = "shm_open"
  /\ segment' = [segment EXCEPT ![n] = IF @ = "absent" THEN "empty" ELSE @]
  /\ tool' = [tool EXCEPT ![c] = [at |-> "ftruncate", name |-> n, size |-> s]]
  /\ UNCHANGED <<bar, size, disturbed, jvm, waits>>

(* A segment that has its size already keeps its contents.                 *)
ToolTruncates(c) ==
  /\ tool[c].at = "ftruncate"
  /\ segment' = [segment EXCEPT ![tool[c].name] = IF @ = "empty" THEN "zeroed" ELSE @]
  /\ tool' = [tool EXCEPT ![c].at = "init"]
  /\ UNCHANGED <<bar, size, disturbed, jvm, waits>>

Fresh_OneLess(s) == [Zeroes EXCEPT !.count = s - 1]   \* variant
Fresh_CountsTool(s) == [Zeroes EXCEPT !.count = s + 1]   \* variant

(* The barrier pthread_barrier_init leaves for a valid size.               *)
Fresh(s) == [Zeroes EXCEPT !.count = s]

(* mmap, which only this run sees, and pthread_barrier_init.  Threads that *)
(* are in the barrier keep the numbers they drew from the one before;      *)
(* those that died there are forgotten with it.                            *)
ToolInits(c) ==
  LET n == tool[c].name
      dead == {t \in Threads : Inside(t, n) /\ ~Lives(t)}
  IN  /\ tool[c].at = "init"
      /\ tool[c].size > 0
      /\ segment' = [segment EXCEPT ![n] = "ready"]
      /\ bar' = [bar EXCEPT ![n] = Fresh(tool[c].size)]
      /\ tool' = [tool EXCEPT ![c] = Exited]
      /\ size' = [size EXCEPT ![n] = tool[c].size]
      /\ disturbed' = IF \E t \in Threads : Lives(t) /\ Inside(t, n)
                      THEN disturbed \cup {n} ELSE disturbed \ {n}
      /\ laps' = [t \in Threads |-> [laps[t] EXCEPT ![n] = 0]]
      /\ pc' = [t \in Threads |-> IF t \in dead THEN "java" ELSE pc[t]]
      /\ arg' = [t \in Threads |-> IF t \in dead THEN NoArg ELSE arg[t]]
      /\ UNCHANGED <<jvm, ticket>>

Tool(c) ==
  \/ \E n \in Names, s \in Sizes : ToolOpens(c, n, s)
  \/ ToolTruncates(c)
  \/ ToolInits(c)

-----------------------------------------------------------------------------
(* Barrier.init, which holds the monitor of the class, and the two calls   *)
(* of initNative.  A failure is only printed.                              *)
init(t, n) ==
  /\ Lives(t) /\ pc[t] = "java"
  /\ \A u \in Threads : JvmOf[u] = JvmOf[t] => pc[u] \notin {"shm_open", "mmap"}
  /\ pc' = [pc EXCEPT ![t] = "shm_open"]
  /\ arg' = [arg EXCEPT ![t] = [name |-> n, ready |-> segment[n] = "ready"]]
  /\ UNCHANGED <<shm, jvm, ticket, laps>>

(* When it fails, the mapping of an earlier init stays in place.           *)
InitOpens(t) ==
  /\ Lives(t) /\ pc[t] = "shm_open"
  /\ \/ /\ pc' = [pc EXCEPT ![t] = "java"]
        /\ arg' = [arg EXCEPT ![t] = NoArg]
     \/ /\ segment[arg[t].name] # "absent"
        /\ pc' = [pc EXCEPT ![t] = "mmap"]
        /\ UNCHANGED arg
  /\ UNCHANGED <<shm, jvm, ticket, laps>>

InitMaps(t) ==
  LET j == JvmOf[t]
  IN  /\ Lives(t) /\ pc[t] = "mmap"
      /\ pc' = [pc EXCEPT ![t] = "java"]
      /\ arg' = [arg EXCEPT ![t] = NoArg]
      /\ \/ /\ shared_mem_barrier' = [shared_mem_barrier EXCEPT ![j] = arg[t].name]
            /\ prompt' = IF arg[t].ready THEN prompt \cup {j} ELSE prompt \ {j}
         \/ /\ shared_mem_barrier' = [shared_mem_barrier EXCEPT ![j] = "MAP_FAILED"]
            /\ prompt' = prompt \ {j}
      /\ UNCHANGED <<shm, alive, ticket, laps>>

-----------------------------------------------------------------------------
(* pthread_barrier_wait: draw a number, complete the round if it is full.  *)
Arrived(b) ==
  LET i == b.in + 1
  IN  [b EXCEPT !.in = i,
                !.current_round = IF @ + b.count <= i THEN i ELSE @]

(* What waiting at the mapping does: an address that is none, a segment    *)
(* without pages, and a division by a count of zero all end the process.   *)
Usable(m) == m \in Names /\ segment[m] = "ready"

barrier(t) ==
  LET n == shared_mem_barrier[JvmOf[t]]
  IN  /\ Lives(t) /\ pc[t] = "java" /\ Usable(n)
      /\ laps[t][n] < MaxLaps
      /\ bar' = [bar EXCEPT ![n] = Arrived(@)]
      /\ ticket' = [ticket EXCEPT ![t] = bar[n].in + 1]
      /\ pc' = [pc EXCEPT ![t] = "wait"]
      /\ arg' = [arg EXCEPT ![t] = [name |-> n, ready |-> TRUE]]
      /\ UNCHANGED <<segment, tool, size, disturbed, jvm, laps>>

BarrierCrashes(t) ==
  /\ Lives(t) /\ pc[t] = "java"
  /\ ~Usable(shared_mem_barrier[JvmOf[t]])
  /\ Dies(JvmOf[t])

Released(t) == ticket[t] <= bar[arg[t].name].current_round

BarrierReturns(t) ==
  /\ Lives(t) /\ pc[t] = "wait" /\ Released(t)
  /\ pc' = [pc EXCEPT ![t] = "java"]
  /\ arg' = [arg EXCEPT ![t] = NoArg]
  /\ ticket' = [ticket EXCEPT ![t] = 0]
  /\ laps' = [laps EXCEPT ![t][arg[t].name] = @ + 1]
  /\ UNCHANGED <<shm, jvm>>

Kill(j) == alive[j] /\ Dies(j)

Native(t) == InitOpens(t) \/ InitMaps(t) \/ BarrierReturns(t)
Calls(t) == (\E n \in Names : init(t, n)) \/ barrier(t) \/ BarrierCrashes(t)

Next ==
  \/ \E c \in Tools : Tool(c) \/ ToolDies(c)
  \/ \E t \in Threads : Calls(t) \/ Native(t)
  \/ \E j \in Jvms : Kill(j)

Spec == Init /\ [][Next]_vars

(* The operating system runs threads that are inside a native method.      *)
FairSpec == Spec /\ \A t \in Threads : WF_vars(Native(t))

-----------------------------------------------------------------------------
Mapping == Names \cup {"null", "MAP_FAILED"}

(* The types of the variables.                                             *)
BarrierTypeOK ==
  /\ segment \in [Names -> {"absent", "empty", "zeroed", "ready"}]
  /\ bar \in [Names -> [count : Nat, in : Nat, current_round : Nat]]
  /\ tool \in [Tools -> [at : {"shm_open", "ftruncate", "init", "exited"},
                         name : Names \cup {"none"}, size : Nat]]
  /\ shared_mem_barrier \in [Jvms -> Mapping]
  /\ alive \in [Jvms -> BOOLEAN]
  /\ pc \in [Threads -> {"java", "shm_open", "mmap", "wait"}]
  /\ arg \in [Threads -> [name : Names \cup {"none"}, ready : BOOLEAN]]
  /\ ticket \in [Threads -> Nat]
  /\ laps \in [Threads -> [Names -> Nat]]
  /\ size \in [Names -> Nat]
  /\ disturbed \subseteq Names
  /\ prompt \subseteq Jvms

(* The barrier n was made for all the threads, and nobody was left in the  *)
(* one it replaced.                                                        *)
Proper(n) == size[n] = Cardinality(Threads) /\ n \notin disturbed

(* Nobody gets past the barrier before everybody has arrived: a thread is  *)
(* a lap ahead of another only while the other one has arrived too and is  *)
(* about to leave.  That holds for a barrier made anew in the segment of   *)
(* an old one, whatever its size was and whoever died in it, and JVMs that *)
(* die do not change it.                                                   *)
InStep ==
  \A n \in Names : Proper(n) =>
    \A t, u \in Threads :
      laps[t][n] > laps[u][n] =>
        laps[t][n] = laps[u][n] + 1 /\ Inside(u, n) /\ Released(u)

(* A JVM that asked for its mapping after the tool was done, and got it,   *)
(* does not crash in barrier(), whatever the tool is run for afterwards.   *)
PromptNeverCrashes ==
  [][\A t \in Threads : BarrierCrashes(t) => JvmOf[t] \notin prompt]_vars

(* Once all threads are in the barrier for the same round, each of them    *)
(* gets past it, unless its JVM is killed or the tool is run again at that *)
(* moment.  A JVM that dies after it has arrived does not hold up the      *)
(* others.                                                                 *)
TogetherTheyPass ==
  \A n \in Names, t \in Threads :
    (Proper(n) /\ \A u \in Threads : Lives(u) /\ Inside(u, n) /\ laps[u][n] = laps[t][n]) ~>
      (~Inside(t, n) \/ ~Lives(t) \/ n \in disturbed)
=============================================================================
