-------------------------- MODULE LiveTracking_proofs --------------------------
(***************************************************************************)
(* The two sources of positions.  The cursor of the provider's positions    *)
(* passes no message by of a vehicle that is linked, for any number of      *)
(* tasks, vehicles and messages; the telephone is never watched once the    *)
(* driver has left the page.                                                *)
(***************************************************************************)
EXTENDS MCLiveTracking, TLAPS

Numbered == \E k \in Nat : k >= 1 /\ Sent = 2..k

\* What is owed a position: sent by a vehicle that was linked and has been since.
Owed == {m \in settled : messages[m].kind # "nowhere"}

\* Behind c every message that is owed a position has it.
DealtUpTo(c) == \A m \in Owed : m <= c => m \in stored

SettledSound == settled \subseteq Sent /\ \A m \in settled : messages[m].unit \in linked \cap fleet

\* What a task knows: everything up to where it has read is dealt with, its answer
\* is what was sent next, and before it commits each message of the answer that is
\* owed a position has one or is about to.
Reading(t) ==
    /\ task[t].read \in Nat /\ DealtUpTo(task[t].read)
    /\ task[t].read = 1 \/ task[t].read \in Sent
Informed(t) ==
    \E h \in Nat : /\ h >= task[t].read /\ task[t].answer = (task[t].read + 1)..h
                   /\ task[t].answer \subseteq Sent
Sorted(t) == task[t].answer \cap Owed \subseteq stored \cup task[t].batch

TaskSound(t) ==
    /\ task[t].phase # "idle" => Reading(t)
    /\ task[t].phase \in {"answered", "ready"} => Informed(t)
    /\ task[t].phase = "ready" => Sorted(t)

TaskRow == [phase: {"idle", "asked", "answered", "ready"}, read: Nat,
            answer: SUBSET Nat, batch: SUBSET Nat]

CursorSound ==
    /\ messages \in [Ids -> [unit: Units, kind: Kinds] \cup {NoMessage}]
    /\ task \in [Tasks -> TaskRow]
    /\ cursor \in Nat /\ (cursor = 1 \/ cursor \in Sent)
    /\ Numbered /\ SettledSound
    /\ DealtUpTo(cursor)
    /\ \A t \in Tasks : TaskSound(t)

LEMMA CursorSoundInit == TruckInit => CursorSound
<1> SUFFICES ASSUME TruckInit PROVE CursorSound
  OBVIOUS
<1>1. Sent = {}
  BY DEF TruckInit, Sent
<1>2. Sent = 2..1
  BY <1>1
<1>3. Numbered
  BY <1>2 DEF Numbered
<1>4. task \in [Tasks -> TaskRow] /\ \A t \in Tasks : task[t].phase = "idle"
  BY DEF TruckInit, Idle, TaskRow
<1>5. messages \in [Ids -> [unit: Units, kind: Kinds] \cup {NoMessage}]
  BY DEF TruckInit
<1> QED BY <1>1, <1>3, <1>4, <1>5 DEF TruckInit, CursorSound, SettledSound, DealtUpTo, Owed, TaskSound

\* A step of the register or of the links sends nothing and leaves the tasks alone.
LEMMA TasksKept ==
    ASSUME CursorSound, UNCHANGED <<messages, cursor, task, stored>>,
           settled' \subseteq settled, \A m \in settled' : messages[m].unit \in linked' \cap fleet'
    PROVE  CursorSound'
<1>0. Sent' = Sent
  BY DEF Sent
<1>1. Sent' = Sent /\ Owed' \subseteq Owed /\ SettledSound'
  BY <1>0 DEF Owed, SettledSound, CursorSound
<1>2. ASSUME NEW c \in Nat, DealtUpTo(c) PROVE DealtUpTo(c)'
  BY <1>1, <1>2 DEF DealtUpTo
<1>3. Numbered'
  BY <1>1 DEF CursorSound, Numbered
<1>4. ASSUME NEW t \in Tasks PROVE TaskSound(t)'
  <2>1. TaskSound(t)
    BY DEF CursorSound
  <2>2. Reading(t) => Reading(t)'
    BY <1>1, <1>2 DEF Reading
  <2>3. Informed(t) => Informed(t)'
    BY <1>1 DEF Informed
  <2>4. Sorted(t) => Sorted(t)'
    BY <1>1 DEF Sorted
  <2> QED BY <2>1, <2>2, <2>3, <2>4 DEF TaskSound
<1> QED BY <1>1, <1>2, <1>3, <1>4 DEF CursorSound

\* A step of one task that only changes its row, the lock or what is dealt with.
LEMMA OneTaskKept ==
    ASSUME CursorSound, NEW t \in Tasks, NEW r \in TaskRow,
           task' = [task EXCEPT ![t] = r], TaskSound(t)',
           UNCHANGED <<messages, settled, linked, fleet>>, stored \subseteq stored',
           cursor' \in Nat, cursor' = 1 \/ cursor' \in Sent', DealtUpTo(cursor)'
    PROVE  CursorSound'
<1>1. Sent' = Sent /\ Owed' = Owed
  BY DEF Sent, Owed
<1>2. Numbered' /\ SettledSound'
  BY <1>1 DEF CursorSound, Numbered, SettledSound
<1>3. ASSUME NEW u \in Tasks PROVE TaskSound(u)'
  <2>1. CASE u = t
    BY <2>1
  <2>2. CASE u # t
    <3>1. task'[u] = task[u] /\ TaskSound(u)
      BY <2>2 DEF CursorSound
    <3>2. Reading(u) => Reading(u)'
      BY <1>1, <3>1 DEF Reading, DealtUpTo
    <3>3. Informed(u) => Informed(u)'
      BY <1>1, <3>1 DEF Informed
    <3>4. Sorted(u) => Sorted(u)'
      BY <1>1, <3>1 DEF Sorted
    <3> QED BY <3>1, <3>2, <3>3, <3>4 DEF TaskSound
  <2> QED BY <2>1, <2>2
<1>4. task' \in [Tasks -> TaskRow] /\ messages' \in [Ids -> [unit: Units, kind: Kinds] \cup {NoMessage}]
  BY DEF CursorSound
<1> QED BY <1>2, <1>3, <1>4 DEF CursorSound

\* The provider's next message comes after all the others.
LEMMA MessageSound ==
    ASSUME CursorSound, NEW u \in Units, NEW kind \in Kinds, Message(u, kind)
    PROVE  CursorSound'
<1>1. PICK m \in Ids : /\ messages[m] = NoMessage
                       /\ \A n \in Ids : n < m => messages[n] # NoMessage
                       /\ messages' = [messages EXCEPT ![m] = [unit |-> u, kind |-> kind]]
                       /\ settled' = IF u \in linked \cap fleet THEN settled \cup {m} ELSE settled
  BY DEF Message
<1>2. PICK k \in Nat : k >= 1 /\ Sent = 2..k
  BY DEF CursorSound, Numbered
<1>3. m \in Nat /\ m >= 2 /\ Ids \subseteq Nat
  BY BoundsAssumption DEF Ids
<1>4. Sent' = Sent \cup {m}
  <2>1. [unit |-> u, kind |-> kind] # NoMessage
    BY DEF NoMessage, Kinds
  <2> QED BY <1>1, <2>1 DEF Sent, CursorSound
<1>5. m = k + 1
  <2>1. m \notin 2..k
    BY <1>1, <1>2 DEF Sent
  <2>2. \A n \in Ids : n < m => n \in 2..k
    BY <1>1, <1>2 DEF Sent
  <2>3. ASSUME m > k + 1 PROVE FALSE
    <3>1. k + 1 \in Ids
      BY <1>2, <1>3, <2>3, BoundsAssumption DEF Ids
    <3> QED BY <2>2, <2>3, <3>1, <1>2
  <2> QED BY <1>2, <1>3, <2>1, <2>3
<1>6. Sent' = 2..(k + 1)
  BY <1>2, <1>4, <1>5
<1>12. /\ settled \subseteq Sent /\ settled' \subseteq settled \cup {m}
       /\ m \in settled' => u \in linked \cap fleet
       /\ UNCHANGED <<linked, fleet, stored>>
  <2>1. settled \subseteq Sent /\ m \notin Sent
    BY <1>1 DEF CursorSound, SettledSound, Sent
  <2>2. UNCHANGED <<linked, fleet, stored>>
    BY DEF Message
  <2>3. m \in settled' => u \in linked \cap fleet
    BY <1>1, <2>1
  <2> QED BY <1>1, <2>1, <2>2, <2>3
<1>13. /\ \A n \in Sent : messages'[n] = messages[n]
       /\ messages'[m].unit = u
  BY <1>1 DEF CursorSound, Sent
<1>14. Owed' \subseteq Owed \cup {m} /\ SettledSound'
  <2>1. \A n \in settled : messages[n].unit \in linked \cap fleet
    BY DEF CursorSound, SettledSound
  <2>2. Owed' \subseteq Owed \cup {m}
    BY <1>12, <1>13 DEF Owed
  <2>3. \A n \in settled' : messages'[n].unit \in linked' \cap fleet'
    BY <1>12, <1>13, <2>1
  <2>4. settled' \subseteq Sent'
    BY <1>4, <1>12
  <2> QED BY <2>2, <2>3, <2>4 DEF SettledSound
<1>7. ASSUME NEW c \in Nat, c = 1 \/ c \in Sent, DealtUpTo(c) PROVE DealtUpTo(c)'
  <2>1. c <= k
    BY <1>2, <1>7
  <2> QED BY <1>2, <1>5, <1>7, <1>12, <1>14, <2>1 DEF DealtUpTo
<1>8. Numbered'
  BY <1>2, <1>6 DEF Numbered
<1>9. ASSUME NEW t \in Tasks PROVE TaskSound(t)'
  <2>1. TaskSound(t) /\ task' = task /\ stored' = stored
    BY DEF CursorSound, Message
  <2>2. Reading(t) => Reading(t)'
    BY <1>4, <1>7, <2>1 DEF Reading
  <2>3. Informed(t) => Informed(t)'
    BY <1>4, <2>1 DEF Informed
  <2>4. task[t].phase = "ready" /\ Sorted(t) => Sorted(t)'
    <3>1. task[t].phase = "ready" => task[t].answer \subseteq Sent
      BY <2>1 DEF TaskSound, Informed
    <3>2. m \notin Sent
      BY <1>1 DEF Sent
    <3> QED BY <1>14, <2>1, <3>1, <3>2 DEF Sorted
  <2> QED BY <2>1, <2>2, <2>3, <2>4 DEF TaskSound
<1>10. cursor' = cursor /\ task' = task
  BY DEF Message
<1>11. messages' \in [Ids -> [unit: Units, kind: Kinds] \cup {NoMessage}]
  BY <1>1 DEF CursorSound
<1> QED BY <1>4, <1>7, <1>8, <1>9, <1>10, <1>11, <1>14 DEF CursorSound

\* A task that ends leaves nothing behind.
LEMMA EndedSound ==
    ASSUME CursorSound, NEW t \in Tasks, task' = [task EXCEPT ![t] = Idle],
           UNCHANGED <<messages, settled, linked, fleet>>, stored \subseteq stored',
           cursor' \in Nat, cursor' = 1 \/ cursor' \in Sent', DealtUpTo(cursor)'
    PROVE  CursorSound'
<1>1. Idle \in TaskRow /\ Idle.phase = "idle"
  BY DEF Idle, TaskRow
<1>2. TaskSound(t)'
  BY <1>1 DEF TaskSound, CursorSound
<1> QED BY <1>1, <1>2, OneTaskKept

\* Up to the highest message of the answer everything is dealt with once the
\* positions of the batch are written.
LEMMA CommitSound ==
    ASSUME CursorSound, NEW t \in Tasks, Commit(t)
    PROVE  CursorSound'
<1> DEFINE written == task[t].batch \cap stored = {}
<1>1. /\ task[t].phase = "ready"
      /\ stored' = IF written THEN stored \cup task[t].batch ELSE stored
      /\ cursor' = IF written /\ Highest(t) # task[t].read THEN Highest(t) ELSE cursor
      /\ task' = [task EXCEPT ![t] = Idle]
      /\ UNCHANGED <<messages, settled, linked, fleet>>
  BY DEF Commit, CursorAfter, Ended
<1>2. Reading(t) /\ Informed(t) /\ Sorted(t)
  BY <1>1 DEF CursorSound, TaskSound
<1>3. PICK h \in Nat : /\ h >= task[t].read /\ task[t].answer = (task[t].read + 1)..h
                       /\ task[t].answer \subseteq Sent
  BY <1>2 DEF Informed
<1>4. task[t].read \in Nat
  BY <1>2 DEF Reading
<1>5. Highest(t) = h
  <2>1. h \in {task[t].read} \cup task[t].answer /\ \A n \in task[t].answer : n <= h
    BY <1>3, <1>4
  <2>2. ASSUME NEW m \in {task[t].read} \cup task[t].answer, \A n \in task[t].answer : n <= m
        PROVE  m = h
    <3>1. m \in Nat /\ m <= h
      BY <1>3, <1>4
    <3>2. CASE h = task[t].read
      BY <3>2, <1>3, <1>4
    <3>3. CASE h > task[t].read
      <4>1. h \in task[t].answer
        BY <3>3, <1>3, <1>4
      <4> QED BY <4>1, <3>1, <2>2
    <3> QED BY <3>2, <3>3, <1>3, <1>4
  <2> QED BY <2>1, <2>2 DEF Highest
<1>6. Sent' = Sent /\ Owed' = Owed /\ Owed \subseteq Sent
  BY <1>1 DEF Sent, Owed, CursorSound, SettledSound
<1>7. cursor' \in Nat /\ (cursor' = 1 \/ cursor' \in Sent')
  BY <1>1, <1>2, <1>3, <1>4, <1>5, <1>6 DEF CursorSound, Reading
<1>8. stored \subseteq stored'
  BY <1>1
<1>9. DealtUpTo(cursor)'
  <2>1. CASE written
    <3>1. ASSUME NEW m \in Owed, m <= h PROVE m \in stored'
      <4>1. PICK k \in Nat : Sent = 2..k
        BY DEF CursorSound, Numbered
      <4>2. CASE m <= task[t].read
        BY <4>2, <1>2, <1>8 DEF Reading, DealtUpTo
      <4>3. CASE m > task[t].read
        <5>1. m \in task[t].answer
          BY <4>1, <4>3, <3>1, <1>3, <1>4, <1>6
        <5> QED BY <5>1, <1>2, <1>1, <2>1 DEF Sorted
      <4> QED BY <4>1, <4>2, <4>3, <1>4, <1>6
    <3>2. DealtUpTo(cursor)
      BY DEF CursorSound
    <3>3. ASSUME NEW m \in Owed, m <= cursor' PROVE m \in stored'
      BY <1>1, <1>5, <1>8, <3>1, <3>2, <3>3 DEF DealtUpTo
    <3> QED BY <3>3, <1>6 DEF DealtUpTo
  <2>2. CASE ~written
    BY <2>2, <1>1, <1>6 DEF CursorSound, DealtUpTo
  <2> QED BY <2>1, <2>2
<1> QED BY <1>1, <1>7, <1>8, <1>9, EndedSound

LEMMA TaskStepSound ==
    ASSUME CursorSound, NEW t \in Tasks, TaskStep(t) \/ RequestFails(t) \/ Dies(t)
    PROVE  CursorSound'
<1>a. UNCHANGED <<messages, stored, settled, cursor, linked, fleet>> =>
          /\ Sent' = Sent /\ cursor' \in Nat /\ (cursor' = 1 \/ cursor' \in Sent') /\ DealtUpTo(cursor)'
          /\ stored \subseteq stored' /\ Owed' = Owed
  BY DEF Sent, DealtUpTo, Owed, CursorSound
<1>b. task[t] \in TaskRow /\ TaskSound(t)
  BY DEF CursorSound
<1>1. CASE Start(t)
  <2> DEFINE r == [Idle EXCEPT !.phase = "asked", !.read = cursor]
  <2>1. r \in TaskRow /\ r.phase = "asked" /\ r.read = cursor
    BY DEF TaskRow, Idle, CursorSound
  <2>2. task' = [task EXCEPT ![t] = r] /\ UNCHANGED <<messages, stored, settled, cursor, linked, fleet>>
    BY <1>1 DEF Start
  <2>3. task'[t] = r
    BY <2>2 DEF CursorSound
  <2> HIDE DEF r
  <2>4. Reading(t)'
    BY <2>1, <2>2, <2>3, <1>a DEF Reading, CursorSound
  <2>5. TaskSound(t)'
    BY <2>1, <2>3, <2>4 DEF TaskSound
  <2> QED BY <2>1, <2>2, <2>5, <1>a, OneTaskKept
<1>7. CASE Answered(t) /\ TooLarge(After(task[t].read))
  BY <1>7, <1>a, EndedSound DEF Answered, Ended
<1>2. CASE Answered(t) /\ ~TooLarge(After(task[t].read))
  <2> DEFINE next == After(task[t].read)
             r == [task[t] EXCEPT !.phase = "answered", !.answer = next]
  <2>1. task' = [task EXCEPT ![t] = r] /\ UNCHANGED <<messages, stored, settled, cursor, linked, fleet>>
        /\ task[t].phase = "asked"
    BY <1>2 DEF Answered, CursorSound
  <2>2. PICK k \in Nat : k >= 1 /\ Sent = 2..k
    BY DEF CursorSound, Numbered
  <2>3. Reading(t)
    BY <1>b, <2>1 DEF TaskSound
  <2>m. next \subseteq Nat
    BY <2>2 DEF After
  <2> HIDE DEF next
  <2>4. r \in TaskRow /\ r.phase = "answered" /\ r.read = task[t].read /\ r.answer = next
    BY <1>b, <2>m DEF TaskRow
  <2>5. task'[t] = r
    BY <2>1 DEF CursorSound
  <2> HIDE DEF r
  <2>6. Reading(t)'
    BY <2>1, <2>3, <2>4, <2>5, <1>a DEF Reading, DealtUpTo
  <2>7. Informed(t)'
    <3>1. k >= task[t].read /\ task[t].read \in Nat /\ task[t].read >= 1
      BY <2>2, <2>3 DEF Reading
    <3>2. r.answer = (task[t].read + 1)..k /\ r.answer \subseteq Sent
      BY <2>2, <2>4, <3>1 DEF next, After
    <3> QED BY <3>1, <3>2, <2>1, <2>4, <2>5, <1>a DEF Informed
  <2>8. TaskSound(t)'
    BY <2>4, <2>5, <2>6, <2>7 DEF TaskSound
  <2> QED BY <2>1, <2>4, <2>8, <1>a, OneTaskKept
<1>3. CASE Process(t)
  <2> DEFINE batch == {m \in NewIn(task[t].answer) : Wanted(m)}
  <2>1. CASE \E m \in batch : messages[m].kind = "undated"
    BY <2>1, <1>3, <1>a, EndedSound DEF Process, Ended
  <2>2. CASE ~\E m \in batch : messages[m].kind = "undated"
    <3> DEFINE r == [task[t] EXCEPT !.phase = "ready", !.batch = batch]
    <3>1. task' = [task EXCEPT ![t] = r] /\ UNCHANGED <<messages, stored, settled, cursor, linked, fleet>>
          /\ task[t].phase = "answered"
      BY <2>2, <1>3 DEF Process, CursorSound
    <3>2. Reading(t) /\ Informed(t)
      BY <1>b, <3>1 DEF TaskSound
    <3>3. r \in TaskRow /\ r.phase = "ready" /\ r.read = task[t].read /\ r.answer = task[t].answer
          /\ r.batch = batch
      BY <1>b DEF TaskRow, NewIn
    <3>4. task'[t] = r
      BY <3>1 DEF CursorSound
    <3> HIDE DEF r
    <3>5. Reading(t)' /\ Informed(t)'
      BY <3>1, <3>2, <3>3, <3>4, <1>a DEF Reading, Informed, DealtUpTo
    <3>6. Sorted(t)'
      <4>1. \A m \in Owed : Wanted(m)
        BY DEF Owed, Wanted, CursorSound, SettledSound
      <4> QED BY <1>a, <3>1, <3>3, <3>4, <4>1 DEF Sorted, NewIn
    <3>7. TaskSound(t)'
      BY <3>5, <3>6 DEF TaskSound
    <3> QED BY <3>1, <3>3, <3>7, <1>a, OneTaskKept
  <2> QED BY <2>1, <2>2
<1>4. CASE Commit(t)
  BY <1>4, CommitSound
<1>5. CASE RequestFails(t)
  BY <1>5, <1>a, EndedSound DEF RequestFails, Ended
<1>6. CASE Dies(t)
  BY <1>6, <1>a, EndedSound DEF Dies
<1> QED BY <1>1, <1>2, <1>3, <1>4, <1>5, <1>6, <1>7 DEF TaskStep

LEMMA CursorSoundStep ==
    ASSUME CursorSound, [TruckNext]_truckVars
    PROVE  CursorSound'
<1>0. \A m \in settled : messages[m].unit \in linked \cap fleet
  BY DEF CursorSound, SettledSound
<1>1. ASSUME NEW u \in Units, VehicleJoins(u) \/ VehicleLeaves(u) PROVE CursorSound'
  <2>1. CASE VehicleJoins(u)
    BY <1>0, <2>1, TasksKept DEF VehicleJoins
  <2>2. CASE VehicleLeaves(u)
    BY <1>0, <2>2, TasksKept DEF VehicleLeaves, Settled
  <2> QED BY <1>1, <2>1, <2>2
<1>2. ASSUME NEW u \in Units, NEW k \in Kinds, Message(u, k) PROVE CursorSound'
  BY <1>2, MessageSound
<1>3. CASE SyncVehicles
  BY <1>0, <1>3, TasksKept DEF SyncVehicles, Settled
<1>4. ASSUME NEW t \in Tasks, TaskStep(t) \/ RequestFails(t) \/ Dies(t) PROVE CursorSound'
  BY <1>4, TaskStepSound
<1>5. CASE LockExpires
  BY <1>0, <1>5, TasksKept DEF LockExpires
<1>6. CASE UNCHANGED truckVars
  BY <1>0, <1>6, TasksKept DEF truckVars
<1> QED BY <1>1, <1>2, <1>3, <1>4, <1>5, <1>6 DEF TruckNext

\* Behind the cursor no position is missing of a vehicle that was linked when it sent it
\* and has been since, for any number of tasks that overlap because the lock expires
\* under them, of messages, and of vehicles that come and go (sync_positions).
THEOREM NothingMissedAlways == TruckSpec => []NothingMissed
<1>1. CursorSound => NothingMissed
  BY DEF CursorSound, DealtUpTo, Owed, NothingMissed
<1> QED BY <1>1, CursorSoundInit, CursorSoundStep, PTL DEF TruckSpec

-----------------------------------------------------------------------------
(* The loop of the driver's page: a poll of the effect in force has its page. *)

WatchSound ==
    /\ open \in BOOLEAN /\ watch \in BOOLEAN /\ tracking \in BOOLEAN
    /\ polls \in [Phone!Effects -> Phone!Steps]
    /\ (watch => open) /\ (watch <=> tracking)
    /\ polls["now"] # "idle" => open

LEMMA WatchSoundInit == Phone!DriverInit => WatchSound
BY DEF Phone!DriverInit, WatchSound, Phone!Effects, Phone!Steps

\* A poll that ends, or goes on to another step.
LEMMA PollMoved ==
    ASSUME WatchSound, NEW e \in Phone!Effects, NEW step \in Phone!Steps,
           polls' = [polls EXCEPT ![e] = step], polls[e] # "idle", open' = open,
           watch' \in BOOLEAN, tracking' \in BOOLEAN,
           watch' <=> tracking', watch' => watch \/ e = "now"
    PROVE  WatchSound'
<1>1. e = "now" => open
  BY DEF WatchSound
<1>2. polls' \in [Phone!Effects -> Phone!Steps]
  BY DEF WatchSound
<1>3. polls'["now"] # "idle" => open
  BY DEF WatchSound, Phone!Effects
<1> QED BY <1>1, <1>2, <1>3 DEF WatchSound

LEMMA PollSound ==
    ASSUME WatchSound, NEW e \in Phone!Effects, Phone!PollStep(e) \/ Phone!PollFails(e)
    PROVE  WatchSound'
<1>0. watch \in BOOLEAN /\ tracking \in BOOLEAN /\ (watch <=> tracking)
  BY DEF WatchSound
<1>1. CASE Phone!Answered(e)
  <2>1. PICK step \in {"active", "none"} : polls' = [polls EXCEPT ![e] = step]
    BY <1>1 DEF Phone!Answered
  <2> QED BY <1>0, <1>1, <2>1, PollMoved DEF Phone!Answered, Phone!Steps
<1>2. CASE Phone!StopsTracking(e)
  BY <1>2, PollMoved DEF Phone!StopsTracking, Phone!Stopped, Phone!PollEnds, Phone!Steps
<1>3. CASE Phone!StartsTracking(e)
  <2>1. CASE tracking \/ e = "old"
    <3>1. /\ polls[e] # "idle" /\ polls' = [polls EXCEPT ![e] = "idle"] /\ open' = open
          /\ UNCHANGED <<watch, tracking>>
      BY <1>3, <2>1 DEF Phone!StartsTracking, Phone!PollEnds
    <3> QED BY <1>0, <3>1, PollMoved DEF Phone!Steps
  <2>2. CASE ~(tracking \/ e = "old")
    BY <1>3, <2>2, PollMoved DEF Phone!StartsTracking, Phone!Stopped, Phone!Steps
  <2> QED BY <2>1, <2>2
<1>4. CASE Phone!ConsentHandled(e)
  BY <1>0, <1>4, PollMoved DEF Phone!ConsentHandled, Phone!Steps
<1>5. CASE Phone!Watches(e)
  <2>1. /\ watch' \in BOOLEAN /\ tracking' \in BOOLEAN /\ (watch' <=> tracking')
        /\ watch' => watch \/ e = "now"
    BY <1>0, <1>5 DEF Phone!Watches, Phone!GoesOn
  <2> QED BY <1>5, <2>1, PollMoved DEF Phone!Watches, Phone!PollEnds, Phone!Steps
<1>6. CASE Phone!PollFails(e)
  BY <1>0, <1>6, PollMoved DEF Phone!PollFails, Phone!PollEnds, Phone!Steps
<1> QED BY <1>1, <1>2, <1>3, <1>4, <1>5, <1>6 DEF Phone!PollStep

LEMMA PageSound ==
    ASSUME WatchSound, Phone!Opens \/ Phone!Leaves \/ Phone!Hides \/ Phone!Shows \/ Phone!Timer
    PROVE  WatchSound'
<1>1. ASSUME open' = open, polls' = polls \/ (open /\ Phone!Refreshed), UNCHANGED <<watch, tracking>>
      PROVE  WatchSound'
  BY <1>1 DEF WatchSound, Phone!Refreshed, Phone!Effects, Phone!Steps
<1>2. CASE Phone!Opens
  BY <1>2 DEF WatchSound, Phone!Opens, Phone!Refreshed, Phone!Effects, Phone!Steps
<1>3. CASE Phone!Leaves
  <2>1. /\ open' = FALSE /\ watch' = FALSE /\ tracking' = FALSE
        /\ polls' = [now |-> "idle", old |-> polls["now"]]
    BY <1>3 DEF Phone!Leaves, Phone!Stopped
  <2>2. polls["now"] \in Phone!Steps
    BY DEF WatchSound, Phone!Effects
  <2>3. polls' \in [Phone!Effects -> Phone!Steps] /\ polls'["now"] = "idle"
    BY <2>1, <2>2 DEF Phone!Effects, Phone!Steps
  <2> QED BY <2>1, <2>3 DEF WatchSound
<1>4. CASE Phone!Hides
  BY <1>1, <1>4 DEF Phone!Hides
<1>5. CASE Phone!Shows
  BY <1>1, <1>5 DEF Phone!Shows, Phone!Shown
<1>6. CASE Phone!Timer
  BY <1>1, <1>6 DEF Phone!Timer, Phone!CanRefresh
<1> QED BY <1>2, <1>3, <1>4, <1>5, <1>6

LEMMA WatchSoundStep == WatchSound /\ [Next]_vars => WatchSound'
<1> SUFFICES ASSUME WatchSound, [Next]_vars PROVE WatchSound'
  OBVIOUS
<1>1. ASSUME UNCHANGED <<open, polls, watch, tracking>> PROVE WatchSound'
  BY <1>1 DEF WatchSound
<1>2. CASE Phone!DriverNext
  <2>1. ASSUME NEW c, Phone!Handled(c) \/ Phone!Lost(c) PROVE WatchSound'
    BY <1>1, <2>1 DEF Phone!Handled, Phone!Lost, Phone!page
  <2>2. CASE Phone!RouteChanges \/ Phone!Reports
    BY <1>1, <2>2 DEF Phone!RouteChanges, Phone!Reports, Phone!page
  <2> QED BY <1>2, <2>1, <2>2, PollSound, PageSound DEF Phone!DriverNext
<1> QED BY <1>1, <1>2 DEF Next, vars, phoneVars

\* A driver who leaves while his consent or his routes are still asked for is not
\* watched afterwards: the answer finds the effect disposed of.
THEOREM NoWatchLeftAlways == Spec => []NoWatchLeft
<1>1. Init => WatchSound
  BY WatchSoundInit DEF Init
<1>2. WatchSound => NoWatchLeft
  BY DEF WatchSound, NoWatchLeft, Phone!NoWatchLeft
<1> QED BY <1>1, <1>2, WatchSoundStep, PTL DEF Spec

=============================================================================
