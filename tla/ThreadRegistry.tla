--------------------------- MODULE ThreadRegistry ---------------------------
(***************************************************************************)
(* What the thread map of the agent (threads.c) promises: a set of entries *)
(* with at most one per Java thread, and operations that take effect at    *)
(* one instant between their call and their return.  ThreadMap implements  *)
(* it with an array and a spinlock.                                        *)
(***************************************************************************)
CONSTANTS
  Threads,     \* Java threads, also their java ids
  Natives,     \* native ids
  Invalid      \* UBENCH_THREAD_ID_INVALID

VARIABLES
  registered,  \* the entries
  request,     \* the operation each thread has called
  outcome      \* the result of that operation, until it returns

vars == <<registered, request, outcome>>

NoCall == [op |-> "none", java |-> "none", native |-> Invalid]
NoResult == [rc |-> "none", native |-> Invalid]

Init ==
  /\ registered = {}
  /\ request = [t \in Threads |-> NoCall]
  /\ outcome = [t \in Threads |-> NoResult]

Ask(t, r) ==
  /\ request[t] = NoCall
  /\ request' = [request EXCEPT ![t] = r]
  /\ UNCHANGED <<registered, outcome>>

Pending(t, op) == request[t].op = op /\ outcome[t] = NoResult

Answer(t, rc, native) ==
  /\ outcome' = [outcome EXCEPT ![t] = [rc |-> rc, native |-> native]]
  /\ UNCHANGED request

OfJava(j) == {e \in registered : e.java_id = j}
OfNative(n) == {e \in registered : e.native_id = n}

(* The first registration of a Java thread wins.                           *)
Register(t) ==
  /\ Pending(t, "register")
  /\ LET j == request[t].java
     IN  \/ /\ OfJava(j) # {}
            /\ Answer(t, "EEXIST", Invalid)
            /\ UNCHANGED registered
         \/ /\ OfJava(j) = {}
            /\ Answer(t, "ok", Invalid)
            /\ registered' = registered \cup {[java_id |-> j, native_id |-> request[t].native]}
         \/ /\ OfJava(j) = {}
            /\ Answer(t, "ENOMEM", Invalid)
            /\ UNCHANGED registered

(* One entry with the native id goes, whichever.                           *)
Unregister(t) ==
  /\ Pending(t, "unregister")
  /\ LET n == request[t].native
     IN  \/ /\ OfNative(n) = {}
            /\ Answer(t, "ENOENT", Invalid)
            /\ UNCHANGED registered
         \/ \E e \in OfNative(n) :
              /\ Answer(t, "ok", Invalid)
              /\ registered' = registered \ {e}

GetNativeId(t) ==
  /\ Pending(t, "get")
  /\ LET j == request[t].java
     IN  \/ OfJava(j) = {} /\ Answer(t, "ok", Invalid)
         \/ \E e \in OfJava(j) : Answer(t, "ok", e.native_id)
  /\ UNCHANGED registered

Return(t) ==
  /\ outcome[t] # NoResult
  /\ request' = [request EXCEPT ![t] = NoCall]
  /\ outcome' = [outcome EXCEPT ![t] = NoResult]
  /\ UNCHANGED registered

Requests == [op : {"register", "unregister", "get"}, java : Threads, native : Natives]

Next ==
  \E t \in Threads :
    \/ \E r \in Requests : Ask(t, r)
    \/ Register(t) \/ Unregister(t) \/ GetNativeId(t)
    \/ Return(t)

Spec == Init /\ [][Next]_vars
=============================================================================
