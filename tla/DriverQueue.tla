------------------------------ MODULE DriverQueue ------------------------------
(***************************************************************************)
(* The driver's application without a signal.  A request of the driver that *)
(* gets no answer is kept in the phone's database, and replayed in order    *)
(* with an action id when the network is back; the server keeps a receipt   *)
(* of every action id it has applied.  Every open page (a tab, the web view *)
(* of the Android shell) has its own replay loop over the one database.     *)
(*                                                                         *)
(* Between them: requests that never leave the phone, that run on at the    *)
(* server after the phone has given up on them, answers that are lost,      *)
(* server errors, pages that are closed half way.                           *)
(***************************************************************************)
EXTENDS Naturals, Sequences, FiniteSets

CONSTANTS
    Pages,      \* the open pages that share the phone's database
    Front,      \* the page the driver works on
    MaxTaps,    \* bound: requests the driver makes
    Acts,       \* the requests considered
    MaxFaults   \* bound: losses, server errors and closed pages in a behaviour

AllActs == {"checkin", "deliver", "close", "position"}

ASSUME PagesAssumption == Front \in Pages /\ "gone" \notin Pages
ASSUME BoundsAssumption == MaxTaps \in Nat /\ MaxFaults \in Nat /\ Acts \subseteq AllActs

Taps == 1..MaxTaps

VARIABLES
    taps,      \* per request of the driver: its act, and what became of it
    born,      \* queued requests in the order of their createdAt
    store,     \* object store "actions": the requests that wait on the phone
    sync,      \* per page: its replay loop
    copies,    \* requests on their way to, at, or back from the server
    done,      \* the steps of the stop and the route the server has recorded
    effects,   \* per request: how often the server has applied it (up to twice)
    receipts,  \* client_action_receipts
    faults,    \* history: losses, errors and closed pages so far
    raced      \* history: requests whose repetition could not be recognised

vars == <<taps, born, store, sync, copies, done, effects, receipts, faults, raced>>
phone == <<taps, born, store, sync>>
server == <<done, effects, receipts>>

\* "accepted", "rejected": answered by the server.  "queued": saved offline.
\* "merged": dropped in favour of one that waits.  "dropped": its page closed.
Outcomes == {"accepted", "rejected", "queued", "merged", "dropped"}
TapStates == {"idle", "sending", "failed", "saving"} \cup Outcomes

\* The batch that the loop has read, what of it was taken off the phone, and the
\* action that it waits for (NoAction: it is between two).
NoAction == 0
NoSync == [batch |-> {}, past |-> {}, action |-> NoAction]

\* A copy with an action id is a replay by its page; "gone": nobody waits for it.
Copies == [tap: Taps, id: BOOLEAN, page: Pages \cup {"gone"},
           pc: {"sent", "looked", "applied", "ok", "refused"}]

\* One row per action id: a second receipt of it changes nothing.
ClientActionReceipts == SUBSET Taps

TypeOK ==
    /\ taps \in [Taps -> [act: Acts \cup {"none"}, state: TapStates]]
    /\ born \in Seq(Taps) /\ \A t \in store : \E i \in 1..Len(born) : born[i] = t
    /\ \A i, j \in 1..Len(born) : born[i] = born[j] => i = j
    /\ store \subseteq {t \in Taps : taps[t].state = "queued"}
    /\ sync \in [Pages -> [batch: SUBSET Taps, past: SUBSET Taps, action: Taps \cup {NoAction}]]
    /\ copies \subseteq Copies
    /\ done \subseteq AllActs
    /\ effects \in [Taps -> 0..2]
    /\ receipts \in ClientActionReceipts /\ raced \subseteq Taps
    /\ faults \in 0..MaxFaults

Init ==
    /\ taps = [t \in Taps |-> [act |-> "none", state |-> "idle"]]
    /\ born = <<>> /\ store = {}
    /\ sync = [p \in Pages |-> NoSync]
    /\ copies = {}
    /\ done = {} /\ effects = [t \in Taps |-> 0] /\ receipts = {}
    /\ faults = 0 /\ raced = {}

-----------------------------------------------------------------------------
(* Reading the state *)

\* The order of createdAt.
Before(t, u) == \E i, j \in 1..Len(born) : i < j /\ born[i] = t /\ born[j] = u
First(t, ts) == t \in ts /\ \A u \in ts \ {t} : Before(t, u)

Replaying(p) == sync[p].past # sync[p].batch
Waiting(p) == sync[p].action # NoAction

Fault == faults < MaxFaults /\ faults' = faults + 1

\* A first attempt that the phone gives up on may still take effect, unseen; it
\* carries no action id, so no receipt will tell.
Unseen(cs) == {c.tap : c \in {x \in cs : ~x.id /\ x.pc # "refused"}}

\* Nobody waits for the copies cs any longer: those answered already vanish.
\* (Two abandoned copies of one action at the same step count as one.)
Abandon(cs) ==
    (copies \ cs) \cup {[c EXCEPT !.page = "gone"] : c \in {x \in cs : x.pc \notin {"ok", "refused"}}}

-----------------------------------------------------------------------------
(* The driver's request: interceptor of api.ts, queueOfflineRequest           *)

\* A request of the driver goes straight to the server, whatever waits; without
\* a signal it fails at once, and serialize gives it its id and its createdAt.
Tap(t, a, signal) ==
    /\ taps[t].state = "idle"
    /\ \A u \in Taps : u < t => taps[u].state # "idle"
    /\ IF signal
       THEN /\ taps' = [taps EXCEPT ![t].act = a, ![t].state = "sending"]
            /\ copies' = copies \cup {[tap |-> t, id |-> FALSE, page |-> Front, pc |-> "looked"]}
            /\ UNCHANGED born
       ELSE /\ taps' = [taps EXCEPT ![t].act = a, ![t].state = "failed"]
            /\ born' = Append(born, t)
            /\ UNCHANGED copies
    /\ UNCHANGED <<store, sync, done, effects, receipts, faults, raced>>

TapAnswered(t) ==
    /\ \E c \in copies :
         /\ c.tap = t /\ ~c.id /\ c.page # "gone" /\ c.pc \in {"ok", "refused"}
         /\ taps' = [taps EXCEPT ![t].state = IF c.pc = "ok" THEN "accepted" ELSE "rejected"]
         /\ copies' = copies \ {c}
    /\ UNCHANGED <<born, store, sync, server, faults, raced>>

\* The line is lost before the answer.
TapLost(t) ==
    /\ \E c \in copies :
         /\ c.tap = t /\ ~c.id /\ c.page # "gone"
         /\ copies' = Abandon({c})
         /\ raced' = raced \cup Unseen({c})
    /\ Fault
    /\ taps' = [taps EXCEPT ![t].state = "failed"]
    /\ born' = Append(born, t)
    /\ UNCHANGED <<store, sync, server>>

\* Same method and path; positions are never taken for each other.
SamePath(t, u) == taps[t].act # "position" /\ taps[u].act = taps[t].act

CheckDuplicate(t) ==
    /\ taps[t].state = "failed"
    /\ taps' = [taps EXCEPT ![t].state =
                    IF \E u \in store : SamePath(t, u) THEN "merged" ELSE "saving"]
    /\ UNCHANGED <<born, store, sync, copies, server, faults, raced>>

PutAction(t) ==
    /\ taps[t].state = "saving"
    /\ taps' = [taps EXCEPT ![t].state = "queued"]
    /\ store' = store \cup {t}
    /\ UNCHANGED <<born, sync, copies, server, faults, raced>>

-----------------------------------------------------------------------------
(* The replay loop: syncOfflineQueue, one per page                            *)

\* At start, on the browser's online event, or when the driver taps the banner.
StartSync(p) ==
    /\ ~Replaying(p) /\ store # {}
    /\ sync' = [sync EXCEPT ![p] = [NoSync EXCEPT !.batch = store]]
    /\ UNCHANGED <<taps, born, store, copies, server, faults, raced>>

\* The loop after an action; after the last one it ends.
NextAction(p) ==
    LET past == sync[p].past \cup {sync[p].action}
    IN  IF past = sync[p].batch THEN NoSync ELSE [sync[p] EXCEPT !.past = past, !.action = NoAction]

\* The action stays in the store with its error, and the loop ends.
StopSync(p) ==
    /\ store' = store \cup {sync[p].action}
    /\ sync' = [sync EXCEPT ![p] = NoSync]

\* Variant: the loop goes on with the next action.
AfterError_Continue(p) ==
    /\ UNCHANGED store
    /\ sync' = [sync EXCEPT ![p] = NextAction(p)]

AfterError(p) == StopSync(p)

SendReplay(p) ==
    /\ ~Waiting(p)
    /\ \E t \in sync[p].batch \ sync[p].past :
         /\ First(t, sync[p].batch \ sync[p].past)
         /\ copies' = copies \cup {[tap |-> t, id |-> TRUE, page |-> p, pc |-> "sent"]}
         /\ sync' = [sync EXCEPT ![p].action = t]
    /\ UNCHANGED <<taps, born, store, server, faults, raced>>

\* Variant: any answer of the server takes the action off the phone.
Deletes_AnyAnswer(pc) == pc \in {"ok", "refused"}

\* 2xx, and so 208 as well.
Deletes(pc) == pc = "ok"

ReplayAnswered(p) ==
    /\ Waiting(p)
    /\ \E c \in copies :
         /\ c.id /\ c.page = p /\ c.pc \in {"ok", "refused"}
         /\ copies' = copies \ {c}
         /\ IF Deletes(c.pc)
            THEN /\ store' = store \ {sync[p].action}
                 /\ sync' = [sync EXCEPT ![p] = NextAction(p)]
            ELSE AfterError(p)
    /\ UNCHANGED <<taps, born, server, faults, raced>>

\* The line is lost on the way to the server or on the way back.
ReplayLost(p, arrived) ==
    /\ Waiting(p)
    /\ \E c \in copies :
         /\ c.id /\ c.page = p
         /\ copies' = IF arrived THEN Abandon({c}) ELSE copies \ {c}
         /\ arrived \/ c.pc = "sent"
    /\ Fault
    /\ AfterError(p)
    /\ UNCHANGED <<taps, born, server, raced>>

-----------------------------------------------------------------------------
(* The server: middleware idempotent_offline_actions around the handlers      *)

\* The handlers' own guards, for one stop of a route that has left.  A
\* delivery checks in by itself; the route closes once the stop has ended.
Accepts(a) ==
    /\ "close" \notin done
    /\ a = "checkin" => "checkin" \notin done
    /\ a = "deliver" => "deliver" \notin done
    /\ a = "close" => "deliver" \in done

Recorded(a) ==
    CASE a = "position" -> done
      [] a = "deliver"  -> done \cup {"checkin", "deliver"}
      [] OTHER          -> done \cup {a}

\* The answer to a copy nobody waits for goes nowhere.
Moved(c, pc) ==
    (copies \ {c}) \cup
    IF c.page = "gone" /\ pc \in {"ok", "refused"} THEN {} ELSE {[c EXCEPT !.pc = pc]}

\* Variant: the receipt is not looked up.
KnownReceipt_Never(c) == FALSE

KnownReceipt(c) == c.id /\ c.tap \in receipts

\* Another copy of the same action is already past its own look-up.
Overlaps(c) == \E x \in copies \ {c} : x.tap = c.tap /\ x.pc \in {"looked", "applied"}

LookUp(c) ==
    /\ c.pc = "sent"
    /\ copies' = Moved(c, IF KnownReceipt(c) THEN "ok" ELSE "looked")
    /\ raced' = IF Overlaps(c) THEN raced \cup {c.tap} ELSE raced
    /\ UNCHANGED <<phone, server, faults>>

Handle(c) ==
    /\ c.pc = "looked"
    /\ IF Accepts(taps[c.tap].act)
       THEN /\ done' = Recorded(taps[c.tap].act)
            /\ effects' = [effects EXCEPT ![c.tap] = IF @ = 2 THEN 2 ELSE @ + 1]
            /\ copies' = Moved(c, IF c.id THEN "applied" ELSE "ok")
       ELSE /\ copies' = Moved(c, "refused")
            /\ UNCHANGED <<done, effects>>
    /\ UNCHANGED <<phone, receipts, faults, raced>>

\* The receipt has a transaction of its own; a failure of it is only logged.
Receipt(c, written) ==
    /\ c.pc = "applied"
    /\ IF written THEN UNCHANGED faults ELSE Fault
    /\ receipts' = IF written THEN receipts \cup {c.tap} ELSE receipts
    /\ raced' = IF written THEN raced ELSE raced \cup {c.tap}
    /\ copies' = Moved(c, "ok")
    /\ UNCHANGED <<phone, done, effects>>

\* The worker dies or the connection pool is exhausted: an error answer, with
\* nothing done, or with the action committed and its receipt not.
ServerFails(c) ==
    /\ c.pc \in {"looked", "applied"}
    /\ Fault
    /\ raced' = IF c.pc = "applied" THEN raced \cup {c.tap} ELSE raced
    /\ copies' = Moved(c, "refused")
    /\ UNCHANGED <<phone, server>>

-----------------------------------------------------------------------------
(* The surroundings                                                           *)

\* The page is closed or the phone restarts: what was not yet in the phone's
\* database is gone, the replay loop forgets its batch.
ClosePage(p) ==
    LET mine == {c \in copies : c.page = p}
        busy == {t \in Taps : p = Front /\ taps[t].state \in {"sending", "failed", "saving"}}
    IN  /\ busy # {} \/ Replaying(p)
        /\ Fault
        /\ taps' = [t \in Taps |->
                        IF t \in busy
                        THEN [taps[t] EXCEPT !.state = "dropped"] ELSE taps[t]]
        /\ sync' = [sync EXCEPT ![p] = NoSync]
        /\ copies' = Abandon(mine)
        /\ raced' = raced \cup Unseen(mine)
        /\ UNCHANGED <<born, store, server>>

Serve(p) ==
    \E c \in copies : c.page = p /\ (LookUp(c) \/ Handle(c) \/ Receipt(c, TRUE))
React(t) == TapAnswered(t) \/ CheckDuplicate(t) \/ PutAction(t)
Replay(p) == StartSync(p) \/ SendReplay(p) \/ ReplayAnswered(p)

Next ==
    \/ \E t \in Taps, a \in Acts, signal \in BOOLEAN : Tap(t, a, signal)
    \/ \E t \in Taps : TapAnswered(t)
    \/ \E t \in Taps : TapLost(t)
    \/ \E t \in Taps : CheckDuplicate(t)
    \/ \E t \in Taps : PutAction(t)
    \/ \E p \in Pages : StartSync(p)
    \/ \E p \in Pages : SendReplay(p)
    \/ \E p \in Pages : ReplayAnswered(p)
    \/ \E p \in Pages, arrived \in BOOLEAN : ReplayLost(p, arrived)
    \/ \E c \in copies : LookUp(c)
    \/ \E c \in copies : Handle(c)
    \/ \E c \in copies, written \in BOOLEAN : Receipt(c, written)
    \/ \E c \in copies : ServerFails(c)
    \/ \E p \in Pages : ClosePage(p)

\* The server and the phone's loops run on; the signal comes back for good once
\* the faults are spent; a replay is started again (online event, next start, or
\* the banner, which stays on the screen while something waits).  Nobody owes a
\* request, and nothing owes a fault.
Fairness ==
    /\ \A p \in Pages \cup {"gone"} : WF_vars(Serve(p))
    /\ \A t \in Taps : WF_vars(React(t))
    /\ \A p \in Pages : WF_vars(Replay(p))

Spec == Init /\ [][Next]_vars /\ Fairness

-----------------------------------------------------------------------------
(* Properties *)

\* The request of t takes effect sooner or later, or has done so.
Kept(t) == t \in store \/ effects[t] > 0

\* Whenever the driver was told "saved" (202 of queueOfflineRequest), the phone
\* holds a request of that method and path, or the server has applied it (deleteAction
\* only after a 2xx; 208 only with a receipt), whichever page replays it, whatever is
\* lost, closed or broken on the way: the request itself when it was put in the
\* store, another that was saved before when it was ignored as a duplicate.  (The
\* duplicates are told by method and path, whatever their bodies: what the
\* ignored one carried is not kept.)
NothingLost ==
    /\ \A t \in Taps : taps[t].state = "queued" => Kept(t)
    /\ \A t \in Taps : taps[t].state = "merged" =>
          \E u \in Taps \ {t} : taps[u].state = "queued" /\ SamePath(t, u) /\ Kept(u)

\* The receipts recognise every repetition except where the code leaves them a
\* window: a first attempt (it has no action id) whose answer was lost, two
\* copies past the look-up at once, a receipt that was not written.
OnceUnlessRaced == \A t \in Taps : effects[t] > 1 => t \in raced

\* The replay keeps the order of operation: an action is replayed only when
\* every earlier one of its batch has been applied ("a delivery must not
\* overtake its check-in", the comment at the break of the loop).
ReplayInOrder ==
    \A p \in Pages : \A t \in sync[p].batch :
        Waiting(p) /\ Before(t, sync[p].action) => effects[t] > 0

\* The head of the queue is refused by the rules of the business.
Blocked ==
    \E t \in store : First(t, store) /\ t \notin receipts /\ ~Accepts(taps[t].act)

\* Whatever waits leaves the phone, unless the head of the queue is an action
\* that the rules refuse: lost answers, restarts and server errors do not
\* strand it (the finally of the loop, the receipts, the break).
Drains == \A t \in Taps : t \in store ~> (t \notin store \/ Blocked)

=============================================================================
