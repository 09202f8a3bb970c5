---------------------------- MODULE TruckPositions ----------------------------
(***************************************************************************)
(* The positions that the worker fetches from the provider of the trackers  *)
(* (workers/celery_app.py, services/truckcontrol.py).  Every 30 seconds a   *)
(* task takes a lock that expires by itself after 25, asks the provider for *)
(* the messages after the stored cursor, and commits the positions of the   *)
(* company's own vehicles together with the new cursor.  Which units these  *)
(* are another task looks up, every 300 seconds.                            *)
(*                                                                         *)
(* The lock may expire while the provider is still answering, so that two   *)
(* tasks work on the same messages; a task or its answer may be lost at any *)
(* point.  The cursor stands for last_message_id, which starts at 1.        *)
(***************************************************************************)
EXTENDS Integers, FiniteSets

CONSTANTS
    Units,        \* the provider's vehicles
    Tasks,        \* tasks that may run at the same time
    MaxMessage,   \* bound: the highest id of a message
    Limits,       \* how many messages may fill the 5 MB that an answer may have
    MaxFaults     \* bound: tasks that die and requests that fail

ASSUME BoundsAssumption == MaxMessage \in Nat /\ Limits \subseteq Nat /\ MaxFaults \in Nat

VARIABLES
    enabled,    \* tracking_integrations.enabled
    limit,      \* how many do: it depends on how long the provider's messages are
    fleet,      \* units whose plate is on an active vehicle of the company
    linked,     \* units with provider_vehicles.vehicle_id
    messages,   \* the provider's messages, by id
    cursor,     \* last_message_id
    stored,     \* ids in provider_vehicle_positions
    settled,    \* history: messages whose unit was linked to a vehicle of the company
                \* when they were sent, and has been ever since
    lock,       \* the task that holds lock:truckcontrol:positions
    task,       \* per task: where it is and what it has read
    faults      \* history: tasks and requests that failed so far

truckVars == <<enabled, limit, fleet, linked, messages, cursor, stored, settled, lock, task, faults>>

Nobody == "nobody"
Ids == 2..MaxMessage
Kinds == {"placed", "nowhere", "undated"}   \* without coordinates, with a date that cannot be read
NoMessage == [unit |-> Nobody, kind |-> "none"]
Sent == {m \in Ids : messages[m] # NoMessage}

Idle == [phase |-> "idle", read |-> 1, answer |-> {}, batch |-> {}]

TruckTypeOK ==
    /\ enabled \in BOOLEAN /\ limit \in Limits /\ fleet \subseteq Units /\ linked \subseteq Units
    /\ messages \in [Ids -> [unit: Units, kind: Kinds] \cup {NoMessage}]
    /\ cursor \in {1} \cup Sent /\ stored \subseteq Sent /\ settled \subseteq Sent
    /\ lock \in Tasks \cup {Nobody} /\ faults \in 0..MaxFaults
    /\ \A t \in Tasks : /\ task[t].phase \in {"idle", "asked", "answered", "ready"}
                        /\ task[t].read \in {1} \cup Sent /\ task[t].answer \subseteq Sent
                        /\ task[t].batch \subseteq task[t].answer

\* The integration is switched on; no unit has been looked up yet.
TruckInit ==
    /\ enabled \in BOOLEAN /\ limit \in Limits /\ fleet \in SUBSET Units /\ linked = {}
    /\ messages = [m \in Ids |-> NoMessage]
    /\ cursor = 1 /\ stored = {} /\ settled = {}
    /\ lock = Nobody /\ task = [t \in Tasks |-> Idle] /\ faults = 0

-----------------------------------------------------------------------------

\* The provider numbers its messages in order.
Message(u, kind) ==
    /\ \E m \in Ids : /\ messages[m] = NoMessage
                      /\ \A n \in Ids : n < m => messages[n] # NoMessage
                      /\ messages' = [messages EXCEPT ![m] = [unit |-> u, kind |-> kind]]
                      /\ settled' = IF u \in linked \cap fleet THEN settled \cup {m} ELSE settled
    /\ enabled
    /\ UNCHANGED <<enabled, limit, fleet, linked, cursor, stored, lock, task, faults>>

Settled(units) == {m \in settled : messages[m].unit \in units}

\* A vehicle is registered or activated; only the next synchronisation links its unit.
VehicleJoins(u) ==
    /\ enabled /\ u \notin fleet
    /\ fleet' = fleet \cup {u}
    /\ UNCHANGED <<enabled, limit, linked, messages, cursor, stored, settled, lock, task, faults>>

\* A vehicle leaves the company's active fleet; its unit stays linked for a while.
VehicleLeaves(u) ==
    /\ enabled /\ u \in fleet
    /\ fleet' = fleet \ {u}
    /\ settled' = Settled(fleet')
    /\ UNCHANGED <<enabled, limit, linked, messages, cursor, stored, lock, task, faults>>

\* sync_vehicles: the link of every unit of the provider is made anew from the register.
SyncVehicles ==
    /\ enabled /\ linked # fleet
    /\ linked' = fleet
    /\ settled' = Settled(linked')
    /\ UNCHANGED <<enabled, limit, fleet, messages, cursor, stored, lock, task, faults>>

\* The lock goes with the task that holds it; one that has expired is not released.
Ended(t) ==
    /\ task' = [task EXCEPT ![t] = Idle]
    /\ lock' = IF lock = t THEN Nobody ELSE lock

\* A task that finds the lock taken is skipped.
Start(t) ==
    /\ enabled /\ task[t].phase = "idle" /\ lock = Nobody
    /\ lock' = t
    /\ task' = [task EXCEPT ![t] = [Idle EXCEPT !.phase = "asked", !.read = cursor]]
    /\ UNCHANGED <<enabled, limit, fleet, linked, messages, cursor, stored, settled, faults>>

After(c) == {m \in Sent : m > c}
TooLarge(answer) == Cardinality(answer) > limit

\* RequestMensagemCB: the messages after the cursor.  An answer that is too large ends
\* the task, and the next one asks for the same again.
Answered(t) ==
    /\ task[t].phase = "asked"
    /\ IF TooLarge(After(task[t].read))
       THEN Ended(t)
       ELSE /\ task' = [task EXCEPT ![t].phase = "answered", ![t].answer = After(task[t].read)]
            /\ UNCHANGED lock
    /\ UNCHANGED <<enabled, limit, fleet, linked, messages, cursor, stored, settled, faults>>

\* The messages of the answer without a stored position.
NewIn(answer) == answer \ stored

\* What is stored: a message with coordinates, of a unit that is linked to a vehicle
\* which is still one of the company's.  The others are passed by for good, those of
\* a vehicle that is registered and not yet linked among them.
Wanted(m) == messages[m].kind # "nowhere" /\ messages[m].unit \in linked \cap fleet

\* The positions are made, not yet written; a date that cannot be read ends the task.
Process(t) ==
    /\ task[t].phase = "answered"
    /\ LET batch == {m \in NewIn(task[t].answer) : Wanted(m)}
       IN IF \E m \in batch : messages[m].kind = "undated"
          THEN Ended(t)
          ELSE /\ task' = [task EXCEPT ![t].phase = "ready", ![t].batch = batch]
               /\ UNCHANGED lock
    /\ UNCHANGED <<enabled, limit, fleet, linked, messages, cursor, stored, settled, faults>>

Highest(t) == CHOOSE m \in {task[t].read} \cup task[t].answer : \A n \in task[t].answer : n <= m

\* Variant: the cursor is written although the positions are not.
CursorAfter_Always(t, written) == Highest(t)

\* Only a cursor other than the one that was read is written, with the positions.
CursorAfter(t, written) == IF written /\ Highest(t) # task[t].read THEN Highest(t) ELSE cursor

\* Positions and cursor in one transaction; external_message_id is unique.
Commit(t) ==
    /\ task[t].phase = "ready"
    /\ LET written == task[t].batch \cap stored = {}
       IN /\ stored' = IF written THEN stored \cup task[t].batch ELSE stored
          /\ cursor' = CursorAfter(t, written)
    /\ Ended(t)
    /\ UNCHANGED <<enabled, limit, fleet, linked, messages, settled, faults>>

\* The request fails or times out: nothing but the error is written.
RequestFails(t) ==
    /\ task[t].phase = "asked" /\ faults < MaxFaults
    /\ faults' = faults + 1
    /\ Ended(t)
    /\ UNCHANGED <<enabled, limit, fleet, linked, messages, cursor, stored, settled>>

\* The worker dies: its lock stays until it expires.
Dies(t) ==
    /\ task[t].phase # "idle" /\ faults < MaxFaults
    /\ faults' = faults + 1
    /\ task' = [task EXCEPT ![t] = Idle]
    /\ UNCHANGED <<enabled, limit, fleet, linked, messages, cursor, stored, settled, lock>>

\* Variant: a lock without a time.
LockExpires_Never == FALSE

\* After 25 seconds, whatever its task is doing.
LockExpires ==
    /\ lock # Nobody
    /\ lock' = Nobody
    /\ UNCHANGED <<enabled, limit, fleet, linked, messages, cursor, stored, settled, task, faults>>

TaskStep(t) == Start(t) \/ Answered(t) \/ Process(t) \/ Commit(t)

TruckNext ==
    \/ \E u \in Units : VehicleJoins(u) \/ VehicleLeaves(u) \/ \E k \in Kinds : Message(u, k)
    \/ SyncVehicles
    \/ \E t \in Tasks : TaskStep(t) \/ RequestFails(t) \/ Dies(t)
    \/ LockExpires

\* The beat starts a task every 30 seconds, the provider answers or the request times
\* out, and Redis drops the lock after its time.
TruckFairness == WF_truckVars(LockExpires) /\ \A t \in Tasks : WF_truckVars(TaskStep(t))

TruckSpec == TruckInit /\ [][TruckNext]_truckVars /\ TruckFairness

-----------------------------------------------------------------------------

\* Behind the cursor no position is missing of a vehicle that was registered and linked
\* when its tracker sent it, and has been since: such a message will not be asked
\* for again and has its position, however tasks overlap or die and vehicles come
\* and go (sync_positions).  It says nothing of the messages that a vehicle sent
\* before it was linked: the cursor may pass those for ever.
NothingMissed ==
    \A m \in settled : m <= cursor /\ messages[m].kind # "nowhere" => m \in stored

\* What no later task gets past: an answer that is too large, which only grows, or a
\* message with a date that cannot be read.
InTheWay == TooLarge(After(cursor)) \/ \E n \in After(cursor) : messages[n].kind = "undated"

\* The cursor passes every message at last, though tasks die, requests fail and locks
\* expire, unless something stands in the way that fails each time (_truckcontrol_sync,
\* sync_positions).
MessagesDealtWith == \A m \in Ids : m \in Sent ~> m <= cursor \/ InTheWay
=============================================================================
