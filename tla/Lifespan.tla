------------------------------ MODULE Lifespan ------------------------------
(***************************************************************************)
(* Start and stop of the router (lifespan of src/router/main.py): one       *)
(* coroutine that opens an HTTP client, starts the credit and the health    *)
(* loop on it, and at shutdown cancels them one after the other, awaiting   *)
(* each, before it closes the client they share.  Of the loops only what    *)
(* matters here is kept: where they await, how they take a cancellation     *)
(* and what kills them (HealthLoop and CreditLoop open the rest).           *)
(***************************************************************************)
EXTENDS Naturals

CONSTANTS
    Lethal,   \* the loops that something can kill: see Dies
    MaxRows   \* bound: the providers in the table

Task == {"credit", "health"}

ASSUME LifespanAssumption == Lethal \subseteq Task /\ MaxRows \in Nat

VARIABLES
    main,    \* where lifespan stands
    client,  \* shared_client: "none", "open", "closed"
    task,    \* each asyncio task: "none", "created" (not yet stepped), "sleeping", "awaiting"
             \* an answer on the client, "cancelled", "dead" (of an exception)
    rest,    \* the providers its round has still to ask, the one it awaits included
    asked    \* cancel() was called on it

vars == <<main, client, task, rest, asked>>

Starting == {"starting", "serving", "failed"}
Stopping == {"awaiting credit", "awaiting health", "closing"}

live(t) == task[t] \in {"created", "sleeping", "awaiting"}

TypeOK ==
    /\ main \in Starting \cup Stopping \cup {"ended", "raised"}
    /\ client \in {"none", "open", "closed"}
    /\ task \in [Task -> {"none", "created", "sleeping", "awaiting", "cancelled", "dead"}]
    /\ rest \in [Task -> 0..MaxRows]
    /\ asked \in [Task -> BOOLEAN]
    /\ \A t \in Task : task[t] = "awaiting" <=> rest[t] > 0

Init ==
    /\ main = "starting"
    /\ client = "none"
    /\ task = [t \in Task |-> "none"]
    /\ rest = [t \in Task |-> 0]
    /\ asked = [t \in Task |-> FALSE]

-----------------------------------------------------------------------------
(* lifespan.                                                               *)

\* init_db or bootstrap_from_config raises: the application does not start.
StartFails ==
    /\ main = "starting"
    /\ main' = "failed"
    /\ UNCHANGED <<client, task, rest, asked>>

\* The client cannot be made (a certificate bundle that is not there, say): the exception
\* is dropped and the router serves without its loops.
StartsUnmonitored ==
    /\ main = "starting"
    /\ main' = "serving"
    /\ UNCHANGED <<client, task, rest, asked>>

Start ==
    /\ main = "starting"
    /\ main' = "serving"
    /\ client' = "open"
    /\ task' = [t \in Task |-> "created"]
    /\ UNCHANGED <<rest, asked>>

\* cancel() takes effect on a task that still runs.
cancel(t) == asked' = [asked EXCEPT ![t] = live(t)]

\* The server shuts down: credit_task.cancel(), and on to the await, or past it when there
\* is no task.
Shutdown ==
    /\ main = "serving"
    /\ IF task["credit"] = "none"
       THEN main' = "closing" /\ UNCHANGED asked
       ELSE main' = "awaiting credit" /\ cancel("credit")
    /\ UNCHANGED <<client, task, rest>>

\* Mutant: every task is cancelled, and only the first one awaited.
CreditEnds_NoWait ==
    /\ main = "awaiting credit" /\ ~live("credit")
    /\ IF task["credit"] = "dead" THEN main' = "raised" /\ UNCHANGED asked
                                  ELSE main' = "closing" /\ cancel("health")
    /\ UNCHANGED <<client, task, rest>>

\* await credit_task: a CancelledError is expected and dropped; what a dead task died of is
\* raised here and leaves lifespan, the health task running and the client open.
CreditEnds ==
    /\ main = "awaiting credit" /\ ~live("credit")
    /\ IF task["credit"] = "dead" THEN main' = "raised" /\ UNCHANGED asked
                                  ELSE main' = "awaiting health" /\ cancel("health")
    /\ UNCHANGED <<client, task, rest>>

HealthEnds ==
    /\ main = "awaiting health" /\ ~live("health")
    /\ main' = IF task["health"] = "dead" THEN "raised" ELSE "closing"
    /\ UNCHANGED <<client, task, rest, asked>>

\* Mutant: the client is left to the garbage collector.
Close_Leaks ==
    /\ main = "closing"
    /\ main' = "ended"
    /\ UNCHANGED <<client, task, rest, asked>>

Close ==
    /\ main = "closing"
    /\ main' = "ended"
    /\ client' = IF client = "open" THEN "closed" ELSE client
    /\ UNCHANGED <<task, rest, asked>>

-----------------------------------------------------------------------------
(* The loops.                                                              *)

Turn(t) == live(t) /\ ~asked[t]

Becomes(t, state, n) ==
    /\ task' = [task EXCEPT ![t] = state]
    /\ rest' = [rest EXCEPT ![t] = n]
    /\ UNCHANGED <<main, client, asked>>

\* What no try of the loops catches: sqlite3.Error from the table, for the credit loop an
\* error in the import of the monitors before its first round, for the health loop
\* httpx.InvalidURL where it asks the next provider.
Dies(t) ==
    /\ Turn(t) /\ t \in Lethal
    /\ task[t] = "awaiting" => t = "health" /\ rest[t] > 1
    /\ Becomes(t, "dead", 0)

\* Mutant: a round over an empty table awaits all the same.
BeginRound_Unchecked(t) ==
    /\ Turn(t) /\ task[t] \in {"created", "sleeping"}
    /\ \E n \in 0..MaxRows : Becomes(t, "awaiting", n)

\* A round: the table is read and the first provider asked.  A credit round asks only those
\* with a billing API.
BeginRound(t) ==
    /\ Turn(t) /\ task[t] \in {"created", "sleeping"}
    /\ \E n \in 0..MaxRows : Becomes(t, IF n = 0 THEN "sleeping" ELSE "awaiting", n)

\* An answer arrives, or a time limit does: on to the next provider.  A round also ends on
\* what the loop catches.
Answered(t) ==
    /\ Turn(t) /\ task[t] = "awaiting"
    /\ \/ rest[t] > 1 /\ Becomes(t, "awaiting", rest[t] - 1)
       \/ Becomes(t, "sleeping", 0)

\* Mutant: the loop treats a cancellation as one more error of the round.
Cancelled_Swallowed(t) ==
    /\ live(t) /\ asked[t]
    /\ task' = [task EXCEPT ![t] = IF @ = "awaiting" THEN "sleeping" ELSE "cancelled"]
    /\ rest' = [rest EXCEPT ![t] = 0]
    /\ asked' = [asked EXCEPT ![t] = FALSE]
    /\ UNCHANGED <<main, client>>

\* The next step of a task that cancel() was called on raises CancelledError where it
\* awaits, or instead of its first step; both loops let it pass.
Cancelled(t) ==
    /\ live(t) /\ asked[t]
    /\ Becomes(t, "cancelled", 0)

Loops == \E t \in Task : Dies(t) \/ BeginRound(t) \/ Answered(t) \/ Cancelled(t)

Main == StartFails \/ StartsUnmonitored \/ Start \/ Shutdown \/ CreditEnds \/ HealthEnds \/ Close

Next == Main \/ Loops

\* The event loop comes round to every coroutine that is ready.  Nobody is obliged to stop
\* the server.
Fairness ==
    /\ WF_vars(CreditEnds \/ HealthEnds \/ Close)
    /\ \A t \in Task : WF_vars(Cancelled(t))

Spec == Init /\ [][Next]_vars /\ Fairness

-----------------------------------------------------------------------------
(* Properties.                                                             *)

\* The shared client is closed only when neither loop can use it any more: a probe through
\* a closed client would raise what the loops do not catch.
ClosedUnused == client = "closed" => \A t \in Task : ~live(t)

\* A shutdown that runs to its end leaves nothing behind.  One that is left by an exception
\* leaves the client open, and the loop that was not yet cancelled running: this happens
\* when, and only when, a loop had died of one before, however long ago.
NothingLeftBehind ==
    /\ main = "ended" => /\ client # "open"
                         /\ \A t \in Task : task[t] \in {"none", "cancelled"}
    /\ main = "raised" => /\ client = "open"
                          /\ \/ task["credit"] = "dead" /\ ~asked["health"]
                             \/ task["credit"] = "cancelled" /\ task["health"] = "dead"

\* A shutdown comes to an end, whatever the loops are doing when it begins: neither of them
\* takes the cancellation for an error and goes on.
ShutdownEnds == main \in Stopping ~> main \in {"ended", "raised"}
=============================================================================
