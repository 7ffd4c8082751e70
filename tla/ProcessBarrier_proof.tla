------------------------ MODULE ProcessBarrier_proof ------------------------
(***************************************************************************)
(* Proofs about ProcessBarrier, for any processes, threads, names, sizes   *)
(* and runs of the tool: a JVM that mapped a finished barrier does not     *)
(* crash in it, and nobody gets past a barrier made for all the threads    *)
(* before all of them have arrived.                                        *)
(***************************************************************************)
EXTENDS ProcessBarrier, FiniteSetTheorems, TLAPS

(* The names that the tool and the threads work with.                      *)
NamesInv ==
  /\ \A c \in Tools : tool[c].at \in {"ftruncate", "init"} =>
       tool[c].name \in Names /\ tool[c].size \in Sizes
  /\ \A t \in Threads : pc[t] # "java" => arg[t].name \in Names

(* A barrier that a JVM found finished stays finished, from the moment     *)
(* init is called on.                                                      *)
PromptInv ==
  /\ \A j \in prompt : /\ shared_mem_barrier[j] \in Names
                       /\ segment[shared_mem_barrier[j]] = "ready"
  /\ \A t \in Threads : pc[t] \in {"shm_open", "mmap"} /\ arg[t].ready =>
       segment[arg[t].name] = "ready"

(* The threads in the barrier n that the current round still waits for.    *)
Waiting(n) == {t \in Threads : Inside(t, n) /\ ~Released(t)}

N == Cardinality(Threads)

(* After k rounds at n: who waits for the next one or is elsewhere has k   *)
(* laps behind him, who is about to leave one less.                        *)
LapsAre(n, k) ==
  \A t \in Threads :
    laps[t][n] = IF Inside(t, n) /\ Released(t) THEN k - 1 ELSE k

(* A barrier for all the threads: as many numbers have been drawn since    *)
(* the last round as threads wait, and they are not all.                   *)
RoundInv(n) ==
  Proper(n) /\ N > 0 =>
    /\ bar[n].count = N
    /\ bar[n].current_round <= bar[n].in /\ bar[n].in < bar[n].current_round + N
    /\ Cardinality(Waiting(n)) = bar[n].in - bar[n].current_round
    /\ \A t \in Threads : Inside(t, n) => ticket[t] <= bar[n].in
    /\ \E k \in Nat : LapsAre(n, k)

BarrierInv == BarrierTypeOK /\ NamesInv /\ PromptInv /\ \A n \in Names : RoundInv(n)

-----------------------------------------------------------------------------
LEMMA ThreadCount == N \in Nat /\ IsFiniteSet(Threads)
BY BarrierAssumption, FS_CardinalityType DEF N

(* What an arrival does to the barrier.                                    *)
LEMMA ArrivedIs ==
  ASSUME NEW b \in [count : Nat, in : Nat, current_round : Nat]
  PROVE  /\ Arrived(b) \in [count : Nat, in : Nat, current_round : Nat]
         /\ Arrived(b).count = b.count
         /\ Arrived(b).in = b.in + 1
         /\ Arrived(b).current_round =
              IF b.current_round + b.count <= b.in + 1 THEN b.in + 1 ELSE b.current_round
<1> DEFINE a == [b EXCEPT !.in = b.in + 1]
<1> DEFINE r == IF b.current_round + b.count <= b.in + 1 THEN b.in + 1 ELSE b.current_round
<1>1. a \in [count : Nat, in : Nat, current_round : Nat]
  OBVIOUS
<1>2. a.count = b.count /\ a.in = b.in + 1 /\ a.current_round = b.current_round
  OBVIOUS
<1>3. r \in Nat
  OBVIOUS
<1>4. Arrived(b) = [a EXCEPT !.current_round = r]
  BY <1>2 DEF Arrived
<1> HIDE DEF a, r
<1>5. /\ [a EXCEPT !.current_round = r] \in [count : Nat, in : Nat, current_round : Nat]
      /\ [a EXCEPT !.current_round = r].count = a.count
      /\ [a EXCEPT !.current_round = r].in = a.in
      /\ [a EXCEPT !.current_round = r].current_round = r
  BY <1>1, <1>3
<1> QED
  BY <1>2, <1>4, <1>5 DEF r

LEMMA InitBarrierInv == Init => BarrierInv
<1>1. SUFFICES ASSUME Init PROVE BarrierInv
  OBVIOUS
<1>2. BarrierTypeOK
  BY <1>1 DEF Init, BarrierTypeOK, Zeroes, NoRun, NoArg, Mapping
<1>3. NamesInv /\ PromptInv
  BY <1>1 DEF Init, NamesInv, PromptInv, NoRun
<1>4. ASSUME NEW n \in Names PROVE RoundInv(n)
  <2>1. ~(Proper(n) /\ N > 0)
    BY <1>1, ThreadCount DEF Init, Proper, N
  <2> QED
    BY <2>1 DEF RoundInv
<1> QED
  BY <1>2, <1>3, <1>4 DEF BarrierInv

-----------------------------------------------------------------------------
(* Types.                                                                  *)
LEMMA ToolTypes ==
  ASSUME BarrierTypeOK, NamesInv, NEW c \in Tools, Tool(c) \/ ToolDies(c)
  PROVE  BarrierTypeOK'
<1>1. CASE ToolDies(c)
  BY <1>1 DEF BarrierTypeOK, Mapping, ToolDies, Exited, NoRun, jvm, waits
<1>2. ASSUME NEW n \in Names, NEW s \in Sizes, ToolOpens(c, n, s) PROVE BarrierTypeOK'
  BY <1>2, BarrierAssumption DEF BarrierTypeOK, Mapping, ToolOpens, jvm, waits
<1>3. CASE ToolTruncates(c)
  <2>1. tool[c].name \in Names
    BY <1>3 DEF ToolTruncates, NamesInv
  <2>2. segment' \in [Names -> {"absent", "empty", "zeroed", "ready"}]
    BY <1>3, <2>1 DEF BarrierTypeOK, ToolTruncates
  <2>3. tool' \in [Tools -> [at : {"shm_open", "ftruncate", "init", "exited"},
                             name : Names \cup {"none"}, size : Nat]]
    <3> DEFINE Run == [at : {"shm_open", "ftruncate", "init", "exited"},
                       name : Names \cup {"none"}, size : Nat]
    <3>1. tool \in [Tools -> Run]
      BY DEF BarrierTypeOK
    <3>2. ASSUME NEW r \in Run PROVE [r EXCEPT !.at = "init"] \in Run
      OBVIOUS
    <3>3. [tool[c] EXCEPT !.at = "init"] \in Run
      BY <3>1, <3>2
    <3>4. tool' = [tool EXCEPT ![c] = [tool[c] EXCEPT !.at = "init"]]
      BY <1>3 DEF ToolTruncates
    <3> HIDE DEF Run
    <3>5. tool' \in [Tools -> Run]
      BY <3>1, <3>3, <3>4
    <3> QED
      BY <3>5 DEF Run
  <2> QED
    BY <1>3, <2>2, <2>3 DEF BarrierTypeOK, Mapping, ToolTruncates, jvm, waits
<1>4. CASE ToolInits(c)
  <2>1. tool[c].name \in Names /\ tool[c].size \in Nat
    BY <1>4, BarrierAssumption DEF ToolInits, NamesInv
  <2>2. /\ segment' \in [Names -> {"absent", "empty", "zeroed", "ready"}]
        /\ bar' \in [Names -> [count : Nat, in : Nat, current_round : Nat]]
        /\ tool' \in [Tools -> [at : {"shm_open", "ftruncate", "init", "exited"},
                                name : Names \cup {"none"}, size : Nat]]
        /\ size' \in [Names -> Nat]
    BY <1>4, <2>1 DEF BarrierTypeOK, ToolInits, Fresh, Zeroes, Exited, NoRun
  <2>3. /\ pc' \in [Threads -> {"java", "shm_open", "mmap", "wait"}]
        /\ arg' \in [Threads -> [name : Names \cup {"none"}, ready : BOOLEAN]]
        /\ laps' \in [Threads -> [Names -> Nat]]
        /\ disturbed' \subseteq Names
    BY <1>4, <2>1 DEF BarrierTypeOK, ToolInits, NoArg
  <2> QED
    BY <1>4, <2>2, <2>3 DEF BarrierTypeOK, Mapping, ToolInits, jvm
<1> QED
  BY <1>1, <1>2, <1>3, <1>4 DEF Tool

LEMMA DiesTypes == ASSUME BarrierTypeOK, NEW j \in Jvms, Dies(j) PROVE BarrierTypeOK'
BY DEF BarrierTypeOK, Mapping, Dies, NoArg, shm

LEMMA ThreadTypes ==
  ASSUME BarrierTypeOK, NamesInv, NEW t \in Threads, Calls(t) \/ Native(t)
  PROVE  BarrierTypeOK'
<1>0. JvmOf[t] \in Jvms
  BY BarrierAssumption
<1>1. ASSUME NEW n \in Names, init(t, n) PROVE BarrierTypeOK'
  BY <1>1 DEF BarrierTypeOK, Mapping, init, shm, jvm
<1>2. CASE InitOpens(t)
  <2>1. pc' \in [Threads -> {"java", "shm_open", "mmap", "wait"}]
    BY <1>2 DEF BarrierTypeOK, InitOpens
  <2>2. arg' \in [Threads -> [name : Names \cup {"none"}, ready : BOOLEAN]]
    <3>1. NoArg \in [name : Names \cup {"none"}, ready : BOOLEAN]
      BY DEF NoArg
    <3>2. arg' = arg \/ arg' = [arg EXCEPT ![t] = NoArg]
      BY <1>2 DEF InitOpens
    <3> QED
      BY <3>1, <3>2 DEF BarrierTypeOK
  <2> QED
    BY <1>2, <2>1, <2>2 DEF BarrierTypeOK, Mapping, InitOpens, shm, jvm
<1>3. CASE InitMaps(t)
  <2>1. arg[t].name \in Names
    BY <1>3 DEF InitMaps, NamesInv
  <2>2. shared_mem_barrier' \in [Jvms -> Mapping] /\ prompt' \subseteq Jvms
    BY <1>0, <1>3, <2>1 DEF BarrierTypeOK, Mapping, InitMaps
  <2> QED
    BY <1>3, <2>2 DEF BarrierTypeOK, InitMaps, NoArg, shm
<1>4. CASE barrier(t)
  <2> DEFINE n == shared_mem_barrier[JvmOf[t]]
  <2>1. n \in Names
    BY <1>4 DEF barrier, Usable
  <2>2. bar[n] \in [count : Nat, in : Nat, current_round : Nat]
    BY <2>1 DEF BarrierTypeOK
  <2>3. Arrived(bar[n]) \in [count : Nat, in : Nat, current_round : Nat]
    BY <2>2, ArrivedIs
  <2>4. bar' \in [Names -> [count : Nat, in : Nat, current_round : Nat]]
    BY <1>4, <2>1, <2>3 DEF BarrierTypeOK, barrier
  <2>5. ticket' \in [Threads -> Nat]
    BY <1>4, <2>2 DEF BarrierTypeOK, barrier
  <2> QED
    BY <1>4, <2>1, <2>4, <2>5 DEF BarrierTypeOK, Mapping, barrier, jvm
<1>5. CASE BarrierCrashes(t)
  BY <1>0, <1>5, DiesTypes DEF BarrierCrashes
<1>6. CASE BarrierReturns(t)
  <2>1. arg[t].name \in Names
    BY <1>6 DEF BarrierReturns, NamesInv
  <2>2. laps' \in [Threads -> [Names -> Nat]]
    BY <1>6, <2>1 DEF BarrierTypeOK, BarrierReturns
  <2> QED
    BY <1>6, <2>2 DEF BarrierTypeOK, Mapping, BarrierReturns, NoArg, shm, jvm
<1> QED
  BY <1>1, <1>2, <1>3, <1>4, <1>5, <1>6 DEF Calls, Native

LEMMA TypesStep ==
  ASSUME BarrierTypeOK, NamesInv, [Next]_vars
  PROVE  BarrierTypeOK'
<1>1. CASE UNCHANGED vars
  BY <1>1 DEF BarrierTypeOK, vars, shm, jvm, waits
<1>2. CASE Next
  BY <1>2, ToolTypes, ThreadTypes, DiesTypes DEF Next, Kill
<1> QED
  BY <1>1, <1>2

-----------------------------------------------------------------------------
(* Names.                                                                  *)
LEMMA NamesStep ==
  ASSUME BarrierTypeOK, NamesInv, [Next]_vars
  PROVE  NamesInv'
<1>1. CASE UNCHANGED vars
  BY <1>1 DEF NamesInv, vars, shm, jvm, waits
<1>2. ASSUME NEW c \in Tools, Tool(c) \/ ToolDies(c) PROVE NamesInv'
  <2>1. \A t \in Threads : pc'[t] # "java" => pc'[t] = pc[t] /\ arg'[t] = arg[t]
    BY <1>2 DEF Tool, ToolDies, ToolOpens, ToolTruncates, ToolInits, waits
  <2>2. CASE ToolDies(c)
    BY <2>1, <2>2 DEF BarrierTypeOK, NamesInv, ToolDies, Exited, NoRun
  <2>3. ASSUME NEW n \in Names, NEW s \in Sizes, ToolOpens(c, n, s) PROVE NamesInv'
    BY <2>1, <2>3 DEF BarrierTypeOK, NamesInv, ToolOpens
  <2>4. CASE ToolTruncates(c)
    <3>1. \A d \in Tools : tool'[d].name = tool[d].name /\ tool'[d].size = tool[d].size
      BY <2>4 DEF BarrierTypeOK, ToolTruncates
    <3>2. \A d \in Tools \ {c} : tool'[d].at = tool[d].at
      BY <2>4 DEF BarrierTypeOK, ToolTruncates
    <3> QED
      BY <2>1, <2>4, <3>1, <3>2 DEF NamesInv, ToolTruncates
  <2>5. CASE ToolInits(c)
    BY <2>1, <2>5 DEF BarrierTypeOK, NamesInv, ToolInits, Exited, NoRun
  <2> QED
    BY <1>2, <2>2, <2>3, <2>4, <2>5 DEF Tool
<1>3. ASSUME NEW j \in Jvms, Dies(j) PROVE NamesInv'
  BY <1>3 DEF NamesInv, Dies, shm
<1>4. ASSUME NEW t \in Threads, Calls(t) \/ Native(t) PROVE NamesInv'
  <2>1. CASE \E n \in Names : init(t, n)
    BY <2>1 DEF BarrierTypeOK, NamesInv, init, shm
  <2>2. CASE Native(t)
    BY <2>2 DEF BarrierTypeOK, NamesInv, Native, InitOpens, InitMaps, BarrierReturns, shm
  <2>3. CASE barrier(t)
    BY <2>3 DEF BarrierTypeOK, NamesInv, barrier, Usable
  <2>4. CASE BarrierCrashes(t)
    BY <2>4, <1>3, BarrierAssumption DEF BarrierCrashes
  <2> QED
    BY <1>4, <2>1, <2>2, <2>3, <2>4 DEF Calls
<1> QED
  BY <1>1, <1>2, <1>3, <1>4 DEF Next, Kill

-----------------------------------------------------------------------------
(* Finished barriers stay finished.                                        *)
LEMMA ReadyStays ==
  ASSUME BarrierTypeOK, NamesInv, [Next]_vars, NEW n \in Names, segment[n] = "ready"
  PROVE  segment'[n] = "ready"
<1>1. ASSUME NEW c \in Tools, Tool(c) \/ ToolDies(c) PROVE segment'[n] = "ready"
  BY <1>1 DEF BarrierTypeOK, NamesInv, Tool, ToolDies, ToolOpens, ToolTruncates, ToolInits
<1>2. ASSUME NEW t \in Threads, Calls(t) \/ Native(t) PROVE segment'[n] = "ready"
  BY <1>2 DEF Calls, Native, init, barrier, BarrierCrashes, Dies, InitOpens, InitMaps,
              BarrierReturns, shm
<1>3. ASSUME NEW j \in Jvms, Kill(j) PROVE segment'[n] = "ready"
  BY <1>3 DEF Kill, Dies, shm
<1> QED
  BY <1>1, <1>2, <1>3 DEF Next, vars, shm

LEMMA PromptStep ==
  ASSUME BarrierTypeOK, NamesInv, PromptInv, [Next]_vars
  PROVE  PromptInv'
<1>0. \A n \in Names : segment[n] = "ready" => segment'[n] = "ready"
  BY ReadyStays
<1>1. CASE UNCHANGED vars
  BY <1>1 DEF PromptInv, vars, shm, jvm, waits
<1>2. ASSUME NEW c \in Tools, Tool(c) \/ ToolDies(c) PROVE PromptInv'
  <2>1. UNCHANGED <<shared_mem_barrier, prompt>>
    BY <1>2 DEF Tool, ToolDies, ToolOpens, ToolTruncates, ToolInits, jvm
  <2>2. \A t \in Threads : pc'[t] # "java" => pc'[t] = pc[t] /\ arg'[t] = arg[t]
    BY <1>2 DEF Tool, ToolDies, ToolOpens, ToolTruncates, ToolInits, waits
  <2> QED
    BY <1>0, <2>1, <2>2 DEF PromptInv, NamesInv
<1>3. ASSUME NEW j \in Jvms, Dies(j) PROVE PromptInv'
  BY <1>3 DEF BarrierTypeOK, PromptInv, Dies, shm
<1>4. ASSUME NEW t \in Threads, Calls(t) \/ Native(t) PROVE PromptInv'
  <2>0. JvmOf[t] \in Jvms
    BY BarrierAssumption
  <2>1. ASSUME NEW n \in Names, init(t, n) PROVE PromptInv'
    <3>1. UNCHANGED <<segment, shared_mem_barrier, prompt>>
      BY <2>1 DEF init, shm, jvm
    <3>2. arg'[t].name = n /\ arg'[t].ready = (segment[n] = "ready")
      BY <2>1 DEF BarrierTypeOK, init
    <3>3. \A u \in Threads \ {t} : pc'[u] = pc[u] /\ arg'[u] = arg[u]
      BY <2>1 DEF BarrierTypeOK, init
    <3> QED
      BY <3>1, <3>2, <3>3 DEF PromptInv
  <2>2. CASE InitOpens(t)
    BY <2>2 DEF BarrierTypeOK, PromptInv, InitOpens, shm, jvm
  <2>3. CASE InitMaps(t)
    <3>1. arg[t].name \in Names
      BY <2>3 DEF InitMaps, NamesInv
    <3>2. arg[t].ready => segment[arg[t].name] = "ready"
      BY <2>3 DEF InitMaps, PromptInv
    <3>3. \A u \in Threads : pc'[u] # "java" => pc'[u] = pc[u] /\ arg'[u] = arg[u]
      BY <2>3 DEF BarrierTypeOK, InitMaps
    <3>4. UNCHANGED segment
      BY <2>3 DEF InitMaps, shm
    <3>5. ASSUME NEW j \in prompt'
          PROVE  /\ shared_mem_barrier'[j] \in Names
                 /\ segment[shared_mem_barrier'[j]] = "ready"
      <4>1. CASE j = JvmOf[t]
        <5>1. arg[t].ready /\ shared_mem_barrier'[j] = arg[t].name
          BY <2>0, <2>3, <3>5, <4>1 DEF BarrierTypeOK, InitMaps
        <5> QED
          BY <3>1, <3>2, <5>1
      <4>2. CASE j # JvmOf[t]
        <5>1. j \in prompt /\ shared_mem_barrier'[j] = shared_mem_barrier[j]
          BY <2>0, <2>3, <3>5, <4>2 DEF BarrierTypeOK, InitMaps
        <5> QED
          BY <5>1 DEF PromptInv
      <4> QED
        BY <4>1, <4>2
    <3> QED
      BY <3>3, <3>4, <3>5 DEF PromptInv
  <2>4. CASE BarrierReturns(t)
    BY <2>4 DEF BarrierTypeOK, PromptInv, BarrierReturns, shm, jvm
  <2>5. CASE barrier(t)
    BY <2>5 DEF BarrierTypeOK, PromptInv, barrier, jvm
  <2>6. CASE BarrierCrashes(t)
    BY <2>0, <2>6, <1>3 DEF BarrierCrashes
  <2> QED
    BY <1>4, <2>1, <2>2, <2>3, <2>4, <2>5, <2>6 DEF Calls, Native
<1> QED
  BY <1>1, <1>2, <1>3, <1>4 DEF Next, Kill

-----------------------------------------------------------------------------
(* Rounds.  A step that is not about the barrier n leaves it as it was.    *)
LEMMA RoundKept ==
  ASSUME NEW n \in Names, RoundInv(n),
         bar'[n] = bar[n], size'[n] = size[n], n \in disturbed <=> n \in disturbed',
         \A t \in Threads : Inside(t, n)' <=> Inside(t, n),
         \A t \in Threads : Inside(t, n) => ticket'[t] = ticket[t],
         \A t \in Threads : laps'[t][n] = laps[t][n]
  PROVE  RoundInv(n)'
<1>1. SUFFICES ASSUME Proper(n)', N > 0
      PROVE  /\ bar'[n].count = N
             /\ bar'[n].current_round <= bar'[n].in /\ bar'[n].in < bar'[n].current_round + N
             /\ Cardinality(Waiting(n)') = bar'[n].in - bar'[n].current_round
             /\ \A t \in Threads : Inside(t, n)' => ticket'[t] <= bar'[n].in
             /\ \E k \in Nat : LapsAre(n, k)'
  BY DEF RoundInv, N
<1>2. Proper(n)
  BY <1>1 DEF Proper
<1>3. \A t \in Threads : Inside(t, n) => (Released(t)' <=> Released(t))
  BY DEF Inside, Released
<1>4. Waiting(n)' = Waiting(n)
  BY <1>3 DEF Waiting
<1>5. PICK k \in Nat : LapsAre(n, k)
  BY <1>1, <1>2 DEF RoundInv
<1>6. LapsAre(n, k)'
  BY <1>3, <1>5 DEF LapsAre
<1> QED
  BY <1>1, <1>2, <1>4, <1>6 DEF RoundInv

LEMMA RoundInits ==
  ASSUME BarrierTypeOK, NamesInv, NEW c \in Tools, ToolInits(c), NEW n \in Names, RoundInv(n)
  PROVE  RoundInv(n)'
<1> DEFINE m == tool[c].name
<1>0. m \in Names /\ tool[c].size \in Nat
  BY BarrierAssumption DEF ToolInits, NamesInv
<1>1. CASE n # m
  <2>1. bar'[n] = bar[n] /\ size'[n] = size[n] /\ (n \in disturbed <=> n \in disturbed')
    BY <1>1 DEF BarrierTypeOK, ToolInits
  <2>2. \A t \in Threads : Inside(t, n)' <=> Inside(t, n)
    BY <1>1 DEF ToolInits, Inside
  <2>3. ticket' = ticket
    BY DEF ToolInits
  <2>4. \A t \in Threads : laps'[t][n] = laps[t][n]
    BY <1>1 DEF BarrierTypeOK, ToolInits
  <2> QED
    BY <2>1, <2>2, <2>3, <2>4, RoundKept
<1>2. CASE n = m
  <2>1. SUFFICES ASSUME Proper(n)', N > 0
        PROVE  /\ bar'[n].count = N
               /\ bar'[n].current_round <= bar'[n].in /\ bar'[n].in < bar'[n].current_round + N
               /\ Cardinality(Waiting(n)') = bar'[n].in - bar'[n].current_round
               /\ \A t \in Threads : Inside(t, n)' => ticket'[t] <= bar'[n].in
               /\ \E k \in Nat : LapsAre(n, k)'
    BY DEF RoundInv, N
  <2>2. \A t \in Threads : ~Inside(t, n)'
    <3>1. ~ \E t \in Threads : Lives(t) /\ Inside(t, n)
      BY <1>2, <2>1 DEF BarrierTypeOK, Proper, ToolInits
    <3> QED
      BY <1>2, <3>1 DEF ToolInits, Inside
  <2>3. bar'[n] = Fresh(tool[c].size) /\ size'[n] = tool[c].size
    BY <1>2 DEF BarrierTypeOK, ToolInits
  <2>4. bar'[n].count = N /\ bar'[n].in = 0 /\ bar'[n].current_round = 0
    BY <2>1, <2>3 DEF Fresh, Zeroes, Proper, N
  <2>5. Waiting(n)' = {}
    BY <2>2 DEF Waiting
  <2>6. \A t \in Threads : laps'[t][n] = 0
    BY <1>2 DEF BarrierTypeOK, ToolInits
  <2>7. LapsAre(n, 0)'
    BY <2>2, <2>6 DEF LapsAre
  <2> QED
    BY <2>1, <2>2, <2>4, <2>5, <2>7, ThreadCount, FS_EmptySet
<1> QED
  BY <1>1, <1>2

LEMMA RoundArrives ==
  ASSUME BarrierTypeOK, NEW t \in Threads, barrier(t), NEW n \in Names, RoundInv(n)
  PROVE  RoundInv(n)'
<1> DEFINE m == shared_mem_barrier[JvmOf[t]]
<1>1. m \in Names /\ pc[t] = "java"
  BY DEF barrier, Usable
<1>2. /\ pc'[t] = "wait" /\ arg'[t].name = m /\ ticket'[t] = bar[m].in + 1
      /\ \A u \in Threads \ {t} : pc'[u] = pc[u] /\ arg'[u] = arg[u] /\ ticket'[u] = ticket[u]
      /\ laps' = laps /\ size' = size /\ disturbed' = disturbed
      /\ bar' = [bar EXCEPT ![m] = Arrived(bar[m])]
  BY DEF BarrierTypeOK, barrier
<1>3. CASE n # m
  <2>1. bar'[n] = bar[n]
    BY <1>2, <1>3 DEF BarrierTypeOK
  <2>2. \A u \in Threads : Inside(u, n)' <=> Inside(u, n)
    BY <1>1, <1>2, <1>3 DEF Inside
  <2>3. \A u \in Threads : Inside(u, n) => ticket'[u] = ticket[u]
    BY <1>1, <1>2 DEF Inside
  <2> QED
    BY <1>2, <2>1, <2>2, <2>3, RoundKept
<1>4. CASE n = m
  <2>1. SUFFICES ASSUME Proper(n)', N > 0
        PROVE  /\ bar'[n].count = N
               /\ bar'[n].current_round <= bar'[n].in /\ bar'[n].in < bar'[n].current_round + N
               /\ Cardinality(Waiting(n)') = bar'[n].in - bar'[n].current_round
               /\ \A u \in Threads : Inside(u, n)' => ticket'[u] <= bar'[n].in
               /\ \E k \in Nat : LapsAre(n, k)'
    BY DEF RoundInv, N
  <2> DEFINE b == bar[n]
  <2> DEFINE W == Waiting(n)
  <2>2. b \in [count : Nat, in : Nat, current_round : Nat]
    BY DEF BarrierTypeOK
  <2>3. /\ b.count = N /\ b.current_round <= b.in /\ b.in < b.current_round + N
        /\ Cardinality(W) = b.in - b.current_round
        /\ \A u \in Threads : Inside(u, n) => ticket[u] <= b.in
    BY <1>2, <2>1 DEF RoundInv, Proper
  <2>4. PICK k \in Nat : LapsAre(n, k)
    BY <1>2, <2>1 DEF RoundInv, Proper
  <2>5. bar'[n] = Arrived(b)
    BY <1>2, <1>4 DEF BarrierTypeOK
  <2>6. /\ bar'[n].count = N /\ bar'[n].in = b.in + 1
        /\ bar'[n].current_round = IF b.current_round + N <= b.in + 1
                                   THEN b.in + 1 ELSE b.current_round
    BY <2>2, <2>3, <2>5, ArrivedIs
  <2>7. ~Inside(t, n) /\ Inside(t, n)' /\ ticket'[t] = b.in + 1
    BY <1>1, <1>2, <1>4 DEF Inside
  <2>8. \A u \in Threads \ {t} : (Inside(u, n)' <=> Inside(u, n)) /\ ticket'[u] = ticket[u]
    BY <1>2 DEF Inside
  <2>9. W \subseteq Threads /\ t \notin W /\ W \cup {t} \subseteq Threads
    BY <2>7 DEF Waiting
  <2>10. /\ IsFiniteSet(W \cup {t})
         /\ Cardinality(W \cup {t}) = b.in - b.current_round + 1
    BY <2>3, <2>9, ThreadCount, FS_Subset, FS_AddElement
  <2>11. \A u \in Threads : ticket[u] \in Nat /\ laps[u][n] \in Nat
    BY DEF BarrierTypeOK
  <2>12. \A u \in Threads : Inside(u, n)' => ticket'[u] <= bar'[n].in
    BY <2>2, <2>3, <2>6, <2>7, <2>8, <2>11
  <2>13. \A u \in Threads : Inside(u, n) => (Released(u) <=> ticket[u] <= b.current_round)
    BY DEF Inside, Released
  <2>14. \A u \in Threads : Inside(u, n)' =>
           (Released(u)' <=> ticket'[u] <= bar'[n].current_round)
    BY DEF Inside, Released
  <2> HIDE DEF b, W
  <2>15. CASE b.current_round + N <= b.in + 1
    <3>1. b.in + 1 = b.current_round + N
      BY <2>2, <2>3, <2>15, ThreadCount
    <3>2. Cardinality(W \cup {t}) = N
      BY <2>2, <2>10, <3>1, ThreadCount
    <3>3. W \cup {t} = Threads
      BY <2>9, <3>2, ThreadCount, FS_Subset DEF N
    <3>4. bar'[n].current_round = b.in + 1
      BY <2>6, <2>15
    <3>5. \A u \in Threads : Inside(u, n)'
      BY <2>7, <2>8, <3>3 DEF W, Waiting
    <3>6. \A u \in Threads : Released(u)'
      BY <2>6, <2>12, <2>14, <3>4, <3>5
    <3>7. Waiting(n)' = {}
      BY <3>6 DEF Waiting
    <3>8. \A u \in Threads : laps[u][n] = k
      BY <2>4, <2>7, <3>3 DEF LapsAre, W, Waiting
    <3>9. LapsAre(n, k + 1)'
      BY <1>2, <3>5, <3>6, <3>8 DEF LapsAre
    <3>10. Cardinality(Waiting(n)') = bar'[n].in - bar'[n].current_round
      BY <2>2, <2>6, <3>4, <3>7, FS_EmptySet
    <3> QED
      BY <2>1, <2>2, <2>6, <2>12, <3>4, <3>9, <3>10, ThreadCount
  <2>16. CASE ~(b.current_round + N <= b.in + 1)
    <3>1. bar'[n].current_round = b.current_round
      BY <2>6, <2>16
    <3>2. ~Released(t)'
      BY <2>2, <2>3, <2>7, <2>14, <3>1
    <3>3. \A u \in Threads : u # t => (Inside(u, n) => (Released(u)' <=> Released(u)))
      BY <2>8, <2>13, <2>14, <3>1
    <3>4. Waiting(n)' = W \cup {t}
      BY <2>7, <2>8, <3>2, <3>3 DEF W, Waiting
    <3>5. LapsAre(n, k)'
      BY <1>2, <2>4, <2>7, <2>8, <3>2, <3>3 DEF LapsAre
    <3>6. Cardinality(Waiting(n)') = bar'[n].in - bar'[n].current_round
      BY <2>2, <2>6, <2>10, <3>1, <3>4
    <3> QED
      BY <2>2, <2>3, <2>6, <2>12, <2>16, <3>1, <3>5, <3>6, ThreadCount
  <2> QED
    BY <2>15, <2>16
<1> QED
  BY <1>3, <1>4

LEMMA RoundReturns ==
  ASSUME BarrierTypeOK, NamesInv, NEW t \in Threads, BarrierReturns(t),
         NEW n \in Names, RoundInv(n)
  PROVE  RoundInv(n)'
<1> DEFINE m == arg[t].name
<1>1. /\ m \in Names /\ Inside(t, m) /\ Released(t)
      /\ bar' = bar /\ size' = size /\ disturbed' = disturbed
  BY DEF BarrierReturns, NamesInv, Inside, shm
<1>2. /\ pc'[t] = "java"
      /\ \A u \in Threads \ {t} : /\ pc'[u] = pc[u] /\ arg'[u] = arg[u]
                                  /\ ticket'[u] = ticket[u] /\ laps'[u] = laps[u]
      /\ laps'[t] = [laps[t] EXCEPT ![m] = laps[t][m] + 1]
  BY DEF BarrierTypeOK, BarrierReturns
<1>3. laps[t] \in [Names -> Nat]
  BY DEF BarrierTypeOK
<1>4. CASE n # m
  <2>1. ~Inside(t, n)
    BY <1>4 DEF Inside
  <2>2. \A u \in Threads : Inside(u, n)' <=> Inside(u, n)
    BY <1>2, <2>1 DEF Inside
  <2>3. \A u \in Threads : laps'[u][n] = laps[u][n]
    BY <1>2, <1>3, <1>4
  <2> QED
    BY <1>1, <1>2, <2>1, <2>2, <2>3, RoundKept
<1>5. CASE n = m
  <2>1. SUFFICES ASSUME Proper(n)', N > 0
        PROVE  /\ bar'[n].count = N
               /\ bar'[n].current_round <= bar'[n].in /\ bar'[n].in < bar'[n].current_round + N
               /\ Cardinality(Waiting(n)') = bar'[n].in - bar'[n].current_round
               /\ \A u \in Threads : Inside(u, n)' => ticket'[u] <= bar'[n].in
               /\ \E k \in Nat : LapsAre(n, k)'
    BY DEF RoundInv, N
  <2>2. Proper(n)
    BY <1>1, <2>1 DEF Proper
  <2>3. PICK k \in Nat : LapsAre(n, k)
    BY <2>1, <2>2 DEF RoundInv
  <2>4. ~Inside(t, n)'
    BY <1>2 DEF Inside
  <2>5. \A u \in Threads \ {t} : /\ Inside(u, n)' <=> Inside(u, n)
                                 /\ Released(u)' <=> Released(u)
    BY <1>1, <1>2 DEF Inside, Released
  <2>6. Waiting(n)' = Waiting(n)
    BY <1>1, <2>4, <2>5 DEF Waiting
  <2>7. laps'[t][n] = k
    BY <1>1, <1>2, <1>3, <1>5, <2>3 DEF LapsAre
  <2>8. LapsAre(n, k)'
    BY <1>2, <2>3, <2>4, <2>5, <2>7 DEF LapsAre
  <2> QED
    BY <1>1, <1>2, <2>1, <2>2, <2>4, <2>5, <2>6, <2>8 DEF RoundInv
<1> QED
  BY <1>4, <1>5

LEMMA RoundStep ==
  ASSUME BarrierTypeOK, NamesInv, [Next]_vars, NEW n \in Names, RoundInv(n)
  PROVE  RoundInv(n)'
<1>1. CASE UNCHANGED vars
  BY <1>1, RoundKept DEF vars, shm, jvm, waits, Inside
<1>2. ASSUME NEW c \in Tools, Tool(c) \/ ToolDies(c) PROVE RoundInv(n)'
  <2>1. CASE ToolInits(c)
    BY <2>1, RoundInits
  <2>2. CASE ~ToolInits(c)
    <3>1. UNCHANGED <<bar, size, disturbed, waits>>
      BY <1>2, <2>2 DEF Tool, ToolDies, ToolOpens, ToolTruncates
    <3> QED
      BY <3>1, RoundKept DEF waits, Inside
  <2> QED
    BY <2>1, <2>2
<1>3. ASSUME NEW j \in Jvms, Dies(j) PROVE RoundInv(n)'
  <2>1. UNCHANGED <<bar, size, disturbed, ticket, laps>>
    BY <1>3 DEF Dies, shm
  <2>2. \A t \in Threads : Inside(t, n)' <=> Inside(t, n)
    BY <1>3 DEF Dies, Inside
  <2> QED
    BY <2>1, <2>2, RoundKept
<1>4. ASSUME NEW t \in Threads, Calls(t) \/ Native(t) PROVE RoundInv(n)'
  <2>1. CASE barrier(t)
    BY <2>1, RoundArrives
  <2>2. CASE BarrierReturns(t)
    BY <2>2, RoundReturns
  <2>3. CASE BarrierCrashes(t)
    BY <1>3, <2>3, BarrierAssumption DEF BarrierCrashes
  <2>4. CASE (\E p \in Names : init(t, p)) \/ InitOpens(t) \/ InitMaps(t)
    <3>1. UNCHANGED <<bar, size, disturbed, ticket, laps>>
      BY <2>4 DEF init, InitOpens, InitMaps, shm
    <3>2. \A u \in Threads : Inside(u, n)' <=> Inside(u, n)
      BY <2>4 DEF BarrierTypeOK, init, InitOpens, InitMaps, Inside
    <3> QED
      BY <3>1, <3>2, RoundKept
  <2> QED
    BY <1>4, <2>1, <2>2, <2>3, <2>4 DEF Calls, Native
<1> QED
  BY <1>1, <1>2, <1>3, <1>4 DEF Next, Kill

-----------------------------------------------------------------------------
LEMMA BarrierInvStep == BarrierInv /\ [Next]_vars => BarrierInv'
BY TypesStep, NamesStep, PromptStep, RoundStep DEF BarrierInv

LEMMA BarrierInvHolds == Spec => []BarrierInv
<1>1. Init => BarrierInv
  BY InitBarrierInv
<1>2. BarrierInv /\ [Next]_vars => BarrierInv'
  BY BarrierInvStep
<1> QED
  BY <1>1, <1>2, PTL DEF Spec

(* Segments, barriers, tools, mappings and threads keep their types.       *)
THEOREM BarrierTypes == Spec => []BarrierTypeOK
<1>1. BarrierInv => BarrierTypeOK
  BY DEF BarrierInv
<1> QED
  BY <1>1, BarrierInvHolds, PTL

(* Nobody gets past a barrier made for all the threads (barrier.c:80)      *)
(* before every one of them has arrived, whoever dies and however often    *)
(* the tool replaces a barrier that nobody is in.                          *)
THEOREM NobodyAhead == Spec => []InStep
<1>1. ASSUME BarrierInv PROVE InStep
  <2>1. SUFFICES ASSUME NEW n \in Names, Proper(n), NEW t \in Threads, NEW u \in Threads,
                        laps[t][n] > laps[u][n]
                 PROVE  laps[t][n] = laps[u][n] + 1 /\ Inside(u, n) /\ Released(u)
    BY DEF InStep
  <2>2. N > 0
    <3>1. N # 0
      BY <2>1, ThreadCount, FS_EmptySet DEF N
    <3> QED
      BY <3>1, ThreadCount
  <2>3. PICK k \in Nat : LapsAre(n, k)
    BY <1>1, <2>1, <2>2 DEF BarrierInv, RoundInv
  <2> QED
    BY <2>1, <2>3 DEF LapsAre
<1> QED
  BY <1>1, BarrierInvHolds, PTL

(* A JVM whose initNative ran after the tool had finished does not crash   *)
(* in barrier(), whatever the tool is run for later.                       *)
THEOREM PromptIsSafe == Spec => PromptNeverCrashes
<1>1. ASSUME BarrierInv
      PROVE  \A t \in Threads : BarrierCrashes(t) => JvmOf[t] \notin prompt
  BY <1>1 DEF BarrierInv, PromptInv, BarrierCrashes, Usable
<1>2. BarrierInv => [\A t \in Threads : BarrierCrashes(t) => JvmOf[t] \notin prompt]_vars
  BY <1>1
<1> QED
  BY <1>2, BarrierInvHolds, PTL DEF PromptNeverCrashes
=============================================================================
