--------------------------- MODULE LifespanProofs ---------------------------
(* Proofs about Lifespan, for any number of providers and any loops that can die.      *)
EXTENDS Lifespan, TLAPS

-----------------------------------------------------------------------------
(* The inductive invariant: what each stage of lifespan says of the client and of the  *)
(* tasks.                                                                              *)

Unmonitored == client = "none" /\ \A t \in Task : task[t] = "none"
Monitored == client = "open" /\ \A t \in Task : task[t] # "none"
Over == client = "open" /\ \A t \in Task : task[t] = "cancelled"

Stage ==
    /\ main \in {"starting", "failed"} => Unmonitored
    /\ main = "serving" => Unmonitored \/ Monitored
    /\ main \in {"starting", "failed", "serving"} => \A t \in Task : ~asked[t]
    /\ main = "awaiting credit" => Monitored /\ ~asked["health"]
    /\ main = "awaiting health" => Monitored /\ task["credit"] = "cancelled"
    /\ main = "closing" => Unmonitored \/ Over
    /\ main = "ended" => /\ client # "open"
                         /\ \A t \in Task : task[t] \in {"none", "cancelled"}
    /\ main = "raised" => /\ Monitored
                          /\ \/ task["credit"] = "dead" /\ ~asked["health"]
                             \/ task["credit"] = "cancelled" /\ task["health"] = "dead"
    /\ client = "closed" => main = "ended"

\* Only what can die is dead.
Mortal == \A t \in Task : task[t] = "dead" => t \in Lethal

IInv == TypeOK /\ Stage /\ Mortal

LEMMA IInvInit == Init => IInv
<1> SUFFICES ASSUME Init PROVE IInv
  OBVIOUS
<1>1. TypeOK
  BY LifespanAssumption DEF Init, TypeOK, Starting
<1>2. Stage /\ Mortal
  BY DEF Init, Stage, Mortal, Unmonitored
<1> QED  BY <1>1, <1>2 DEF IInv

\* A step of lifespan: the tasks run on by themselves.
LEMMA MainStep == ASSUME IInv, Main PROVE IInv'
<1>0. TypeOK /\ Stage /\ Mortal
  BY DEF IInv
<1>1. CASE StartFails
  BY <1>0, <1>1 DEF StartFails, IInv, TypeOK, Stage, Mortal, Unmonitored, Starting
<1>2. CASE StartsUnmonitored
  BY <1>0, <1>2 DEF StartsUnmonitored, IInv, TypeOK, Stage, Mortal, Unmonitored, Starting
<1>3. CASE Start
  <2>1. \A t \in Task : task'[t] = "created"
    BY <1>3 DEF Start
  <2>2. \A t \in Task : rest[t] = 0 /\ ~asked[t]
    BY <1>0, <1>3 DEF Start, TypeOK, Stage, Unmonitored
  <2>3. TypeOK'
    BY <1>0, <1>3, <2>1, <2>2 DEF Start, TypeOK, Starting
  <2>4. Stage' /\ Mortal'
    BY <1>3, <2>1, <2>2 DEF Start, Stage, Mortal, Monitored
  <2> QED  BY <2>3, <2>4 DEF IInv
<1>4. CASE Shutdown
  <2>1. UNCHANGED <<client, task, rest>> /\ main = "serving" /\ \A t \in Task : ~asked[t]
    BY <1>0, <1>4 DEF Shutdown, Stage
  <2>2. CASE task["credit"] = "none"
    <3>1. Unmonitored /\ main' = "closing" /\ asked' = asked
      BY <1>0, <1>4, <2>1, <2>2 DEF Shutdown, Stage, Monitored, Task
    <3> QED  BY <1>0, <2>1, <3>1 DEF IInv, TypeOK, Stage, Mortal, Unmonitored, Stopping
  <2>3. CASE task["credit"] # "none"
    <3>1. Monitored /\ main' = "awaiting credit" /\ asked' = [asked EXCEPT !["credit"] = live("credit")]
      BY <1>0, <1>4, <2>1, <2>3 DEF Shutdown, Stage, Unmonitored, Task, cancel
    <3>2. asked' \in [Task -> BOOLEAN] /\ ~asked'["health"]
      <4>1. live("credit") \in BOOLEAN
        BY DEF live
      <4>2. asked' \in [Task -> BOOLEAN] /\ asked'["health"] = asked["health"]
        BY <1>0, <3>1, <4>1 DEF TypeOK, Task
      <4> QED  BY <2>1, <4>2 DEF Task
    <3> QED  BY <1>0, <2>1, <3>1, <3>2 DEF IInv, TypeOK, Stage, Mortal, Monitored, Stopping
  <2> QED  BY <2>2, <2>3
<1>5. CASE CreditEnds
  <2>1. /\ main = "awaiting credit" /\ Monitored /\ ~asked["health"] /\ UNCHANGED <<client, task, rest>>
        /\ task["credit"] \in {"cancelled", "dead"}
    <3>1. main = "awaiting credit" /\ ~live("credit") /\ Monitored /\ ~asked["health"]
      BY <1>0, <1>5 DEF CreditEnds, Stage
    <3>2. task["credit"] \in {"cancelled", "dead"}
      BY <1>0, <3>1 DEF TypeOK, Monitored, live, Task
    <3> QED  BY <1>5, <3>1, <3>2 DEF CreditEnds
  <2>2. CASE task["credit"] = "dead"
    <3>1. main' = "raised" /\ asked' = asked
      BY <1>5, <2>2 DEF CreditEnds
    <3> QED  BY <1>0, <2>1, <2>2, <3>1 DEF IInv, TypeOK, Stage, Mortal, Monitored
  <2>3. CASE task["credit"] # "dead"
    <3>1. main' = "awaiting health" /\ asked' = [asked EXCEPT !["health"] = live("health")]
      BY <1>5, <2>3 DEF CreditEnds, cancel
    <3>2. asked' \in [Task -> BOOLEAN]
      <4>1. live("health") \in BOOLEAN
        BY DEF live
      <4> QED  BY <1>0, <3>1, <4>1 DEF TypeOK
    <3> QED  BY <1>0, <2>1, <2>3, <3>1, <3>2 DEF IInv, TypeOK, Stage, Mortal, Monitored, Stopping
  <2> QED  BY <2>2, <2>3
<1>6. CASE HealthEnds
  <2>1. /\ main = "awaiting health" /\ Monitored /\ task["credit"] = "cancelled"
        /\ task["health"] \in {"cancelled", "dead"} /\ UNCHANGED <<client, task, rest, asked>>
    <3>1. main = "awaiting health" /\ ~live("health") /\ Monitored /\ task["credit"] = "cancelled"
      BY <1>0, <1>6 DEF HealthEnds, Stage
    <3>2. task["health"] \in {"cancelled", "dead"}
      BY <1>0, <3>1 DEF TypeOK, Monitored, live, Task
    <3> QED  BY <1>6, <3>1, <3>2 DEF HealthEnds
  <2>2. main' = IF task["health"] = "dead" THEN "raised" ELSE "closing"
    BY <1>6 DEF HealthEnds
  <2>3. main' = "closing" => Over
    BY <2>1, <2>2 DEF Monitored, Over, Task
  <2> QED  BY <1>0, <2>1, <2>2, <2>3 DEF IInv, TypeOK, Stage, Mortal, Monitored, Over, Stopping
<1>7. CASE Close
  <2>1. /\ main' = "ended" /\ client' # "open" /\ client' \in {"none", "closed"}
        /\ UNCHANGED <<task, rest, asked>> /\ \A t \in Task : task[t] \in {"none", "cancelled"}
    BY <1>0, <1>7 DEF Close, Stage, Unmonitored, Over
  <2> QED  BY <1>0, <2>1 DEF IInv, TypeOK, Stage, Mortal
<1> QED  BY <1>1, <1>2, <1>3, <1>4, <1>5, <1>6, <1>7 DEF Main

\* A step of a task, which is one of a task that runs.
LEMMA LoopStep == ASSUME IInv, NEW t \in Task, Dies(t) \/ BeginRound(t) \/ Answered(t) \/ Cancelled(t)
                  PROVE  IInv'
<1>0. TypeOK /\ Stage /\ Mortal
  BY DEF IInv
<1>1. PICK state \in {"sleeping", "awaiting", "cancelled", "dead"}, n \in 0..MaxRows :
         /\ Becomes(t, state, n) /\ live(t)
         /\ state = "awaiting" <=> n > 0
         /\ state = "dead" => t \in Lethal
         /\ state = "cancelled" => asked[t]
  <2>0. MaxRows \in Nat /\ 0 \in 0..MaxRows /\ rest[t] \in 0..MaxRows
    BY <1>0, LifespanAssumption DEF TypeOK
  <2>1. CASE Dies(t)
    BY <2>0, <2>1 DEF Dies, Turn
  <2>2. CASE BeginRound(t)
    <3>1. PICK n \in 0..MaxRows : Becomes(t, IF n = 0 THEN "sleeping" ELSE "awaiting", n)
      BY <2>2 DEF BeginRound
    <3>2. live(t)
      BY <2>2 DEF BeginRound, Turn
    <3> DEFINE state == IF n = 0 THEN "sleeping" ELSE "awaiting"
    <3>3. state \in {"sleeping", "awaiting"} /\ (state = "awaiting" <=> n > 0)
      BY <2>0
    <3>4. Becomes(t, state, n)
      BY <3>1
    <3> HIDE DEF state
    <3> QED  BY <3>2, <3>3, <3>4
  <2>3. CASE Answered(t)
    <3>1. CASE rest[t] > 1 /\ Becomes(t, "awaiting", rest[t] - 1)
      <4>1. rest[t] - 1 \in 0..MaxRows /\ rest[t] - 1 > 0
        BY <2>0, <3>1
      <4> QED  BY <2>3, <3>1, <4>1 DEF Answered, Turn
    <3>2. CASE Becomes(t, "sleeping", 0)
      BY <2>0, <2>3, <3>2 DEF Answered, Turn
    <3> QED  BY <2>3, <3>1, <3>2 DEF Answered
  <2>4. CASE Cancelled(t)
    BY <2>0, <2>4 DEF Cancelled
  <2> QED  BY <2>1, <2>2, <2>3, <2>4
<1>2. /\ task' = [task EXCEPT ![t] = state] /\ rest' = [rest EXCEPT ![t] = n]
      /\ UNCHANGED <<main, client, asked>>
      /\ task[t] \in {"created", "sleeping", "awaiting"}
  BY <1>1 DEF Becomes, live
<1>3. /\ task'[t] = state /\ rest'[t] = n
      /\ \A u \in Task : u # t => task'[u] = task[u] /\ rest'[u] = rest[u]
  BY <1>0, <1>2 DEF TypeOK
<1>4. TypeOK'
  <2>1. task' \in [Task -> {"none", "created", "sleeping", "awaiting", "cancelled", "dead"}]
    BY <1>0, <1>2 DEF TypeOK
  <2>2. rest' \in [Task -> 0..MaxRows]
    BY <1>0, <1>2 DEF TypeOK
  <2>3. \A u \in Task : task'[u] = "awaiting" <=> rest'[u] > 0
    BY <1>0, <1>1, <1>3 DEF TypeOK
  <2> QED  BY <1>0, <1>2, <2>1, <2>2, <2>3 DEF TypeOK
<1>5. Mortal'
  BY <1>0, <1>1, <1>3 DEF Mortal
<1>6. Monitored => Monitored'
  BY <1>2, <1>3 DEF Monitored
<1>7. ~Unmonitored /\ ~Over
  BY <1>2 DEF Unmonitored, Over
<1>8. main \in {"serving", "awaiting credit", "awaiting health", "raised"}
         /\ (main \in {"awaiting health", "raised"} => t # "credit" \/ task["credit"] = "dead")
  BY <1>0, <1>2, <1>7 DEF TypeOK, Stage, Starting, Stopping, Task
<1>9. Stage'
  BY <1>0, <1>2, <1>3, <1>6, <1>7, <1>8 DEF Stage, Task
<1> QED  BY <1>4, <1>5, <1>9 DEF IInv

LEMMA IInvStep == IInv /\ [Next]_vars => IInv'
<1> SUFFICES ASSUME IInv, [Next]_vars PROVE IInv'
  OBVIOUS
<1>1. CASE Main
  BY <1>1, MainStep
<1>2. CASE Loops
  BY <1>2, LoopStep DEF Loops
<1>3. CASE UNCHANGED vars
  BY <1>3 DEF vars, IInv, TypeOK, Stage, Mortal, Unmonitored, Monitored, Over
<1> QED  BY <1>1, <1>2, <1>3 DEF Next

-----------------------------------------------------------------------------
(* Theorems.                                                               *)

\* Every stage of the start and the stop finds the tasks and the client as it expects them,
\* however many providers there are.
THEOREM Invariance == Spec => []IInv
  BY IInvInit, IInvStep, PTL DEF Spec

\* A task awaits an answer exactly while its round has a provider left to ask.
THEOREM TypeCorrect == Spec => []TypeOK
<1>1. IInv => TypeOK
  BY DEF IInv
<1> QED  BY <1>1, Invariance, PTL

\* lifespan closes the shared client after both loops have ended, not before.
THEOREM ClosedAfterUse == Spec => []ClosedUnused
<1>1. IInv => ClosedUnused
  BY DEF IInv, Stage, ClosedUnused, live
<1> QED  BY <1>1, Invariance, PTL

\* What a shutdown leaves running or open, and for which cause.
THEOREM CleanShutdown == Spec => []NothingLeftBehind
<1>1. IInv => NothingLeftBehind
  BY DEF IInv, Stage, Monitored, NothingLeftBehind
<1> QED  BY <1>1, Invariance, PTL

\* If nothing can kill a loop, no exception leaves lifespan at shutdown.
THEOREM NeverRaised == ASSUME Lethal = {} PROVE Spec => [](main # "raised")
<1>1. IInv => main # "raised"
  BY DEF IInv, Stage, Mortal, Task
<1> QED  BY <1>1, Invariance, PTL

-----------------------------------------------------------------------------
(* The safety half of ShutdownEnds: what lifespan waits for can only end.              *)

Awaits(t) == main = (IF t = "credit" THEN "awaiting credit" ELSE "awaiting health")

\* Lifespan waits for a task only after cancelling it.
Asked == \A t \in Task : Awaits(t) /\ live(t) => asked[t]

LEMMA AskedInit == Init => Asked
BY DEF Init, Asked, Awaits

LEMMA AskedStep == IInv /\ Asked /\ [Next]_vars => Asked'
<1> SUFFICES ASSUME IInv, Asked, [Next]_vars PROVE Asked'
  OBVIOUS
<1>0. TypeOK /\ asked \in [Task -> BOOLEAN]
  BY DEF IInv, TypeOK
<1>1. CASE StartFails \/ StartsUnmonitored \/ Start \/ HealthEnds \/ Close
  <2>1. main' \notin {"awaiting credit", "awaiting health"}
    BY <1>1 DEF StartFails, StartsUnmonitored, Start, HealthEnds, Close
  <2> QED  BY <2>1 DEF Asked, Awaits
<1>2. CASE Shutdown
  <2>1. /\ main' = "awaiting credit" => asked'["credit"] = live("credit")
        /\ main' # "awaiting health" /\ task' = task
    <3>1. main' = "awaiting credit" => asked' = [asked EXCEPT !["credit"] = live("credit")]
      BY <1>2 DEF Shutdown, cancel
    <3>2. main' # "awaiting health" /\ task' = task
      BY <1>2 DEF Shutdown
    <3> QED  BY <1>0, <3>1, <3>2 DEF Task
  <2> QED  BY <2>1 DEF Asked, Awaits, live, Task
<1>3. CASE CreditEnds
  <2>1. /\ main' = "awaiting health" => asked'["health"] = live("health")
        /\ main' # "awaiting credit" /\ task' = task
    <3>1. main' = "awaiting health" => asked' = [asked EXCEPT !["health"] = live("health")]
      BY <1>3 DEF CreditEnds, cancel
    <3>2. main' # "awaiting credit" /\ task' = task
      BY <1>3 DEF CreditEnds
    <3> QED  BY <1>0, <3>1, <3>2 DEF Task
  <2> QED  BY <2>1 DEF Asked, Awaits, live, Task
<1>4. ASSUME NEW t \in Task, Dies(t) \/ BeginRound(t) \/ Answered(t) \/ Cancelled(t) PROVE Asked'
  <2>1. UNCHANGED <<main, asked>> /\ \A u \in Task : u # t => task'[u] = task[u]
    BY <1>0, <1>4 DEF TypeOK, Dies, BeginRound, Answered, Cancelled, Becomes
  <2>2. Turn(t) \/ task'[t] = "cancelled"
    BY <1>0, <1>4 DEF TypeOK, Dies, BeginRound, Answered, Cancelled, Becomes
  <2>3. Awaits(t) /\ Turn(t) => FALSE
    BY DEF Asked, Turn
  <2> QED  BY <2>1, <2>2, <2>3 DEF Asked, Awaits, live
<1>5. CASE UNCHANGED vars
  BY <1>5 DEF vars, Asked, Awaits, live
<1> QED  BY <1>1, <1>2, <1>3, <1>4, <1>5 DEF Next, Main, Loops

\* While lifespan waits for a loop, the one thing the loop can do is to end by its
\* cancellation: it begins no round, asks no further provider and dies of nothing.  With
\* the fairness of Spec this is why ShutdownEnds.
THEOREM AwaitedOnlyEnds ==
    Spec => [][\A t \in Task : Awaits(t) /\ task'[t] # task[t]
                  => asked[t] /\ task'[t] = "cancelled"]_vars
<1> DEFINE OnlyEnds == \A t \in Task : Awaits(t) /\ task'[t] # task[t]
                                          => asked[t] /\ task'[t] = "cancelled"
<1>1. IInv /\ Asked /\ [Next]_vars => [OnlyEnds]_vars
  <2> SUFFICES ASSUME IInv, Asked, Next PROVE OnlyEnds
    OBVIOUS
  <2>1. CASE Main
    <3>1. task' = task \/ main = "starting"
      BY <2>1 DEF Main, StartFails, StartsUnmonitored, Start, Shutdown, CreditEnds, HealthEnds, Close
    <3> QED  BY <3>1 DEF Awaits
  <2>2. ASSUME NEW t \in Task, Dies(t) \/ BeginRound(t) \/ Answered(t) \/ Cancelled(t)
        PROVE  OnlyEnds
    <3>0. task \in [Task -> {"none", "created", "sleeping", "awaiting", "cancelled", "dead"}]
      BY DEF IInv, TypeOK
    <3>1. \A u \in Task : u # t => task'[u] = task[u]
      BY <2>2, <3>0 DEF Dies, BeginRound, Answered, Cancelled, Becomes
    <3>2. Turn(t) \/ (asked[t] /\ task'[t] = "cancelled")
      BY <2>2, <3>0 DEF Dies, BeginRound, Answered, Cancelled, Becomes
    <3>3. Awaits(t) /\ Turn(t) => FALSE
      BY DEF Asked, Turn
    <3> QED  BY <3>1, <3>2, <3>3
  <2> QED  BY <2>1, <2>2 DEF Next, Loops
<1>2. Spec => []Asked
  BY Invariance, AskedInit, AskedStep, PTL DEF Spec
<1> HIDE DEF OnlyEnds
<1>3. Spec => [][OnlyEnds]_vars
  BY <1>1, <1>2, Invariance, PTL DEF Spec
<1> QED  BY <1>3 DEF OnlyEnds
=============================================================================
