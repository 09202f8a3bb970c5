-------------------------- MODULE DriverQueue_proofs --------------------------
(***************************************************************************)
(* Proofs about the driver's offline queue, for any number of pages, of     *)
(* requests and of faults: whenever the driver was told "saved", a request  *)
(* like that one is kept, an action takes effect once unless a window of    *)
(* the receipts was hit, and a replay never overtakes an earlier action.    *)
(***************************************************************************)
EXTENDS DriverQueue, SequenceTheorems, TLAPS

InBorn(t) == \E i \in 1..Len(born) : born[i] = t

\* Who has a createdAt: all that wait or will wait, and none that the server has
\* answered at the first attempt.
BornSound ==
    \A t \in Taps : /\ taps[t].state \in {"failed", "saving", "queued"} => InBorn(t)
                    /\ InBorn(t) => taps[t].state \notin {"idle", "sending", "accepted", "rejected"}
                    /\ taps[t].state # "idle" => taps[t].act \in Acts

\* What is behind a loop has been applied; what is earlier than the action that it
\* waits for is behind it.
LoopSound(p) ==
    /\ sync[p].past \subseteq sync[p].batch
    /\ \A t \in sync[p].batch : taps[t].state = "queued"
    /\ \A t \in sync[p].past : effects[t] > 0
    /\ Waiting(p) => /\ sync[p].action \in sync[p].batch \ sync[p].past
                     /\ \A t \in sync[p].batch : Before(t, sync[p].action) => t \in sync[p].past
LoopsSound == \A p \in Pages : LoopSound(p)

\* A replay belongs to the loop that waits for it, a first attempt to the page the
\* driver works on; one that nobody waits for may take effect unseen.
Owned(c) ==
    IF c.id THEN /\ taps[c.tap].state = "queued"
                 /\ c.page # "gone" => sync[c.page].action = c.tap
    ELSE IF c.page = "gone" THEN c.tap \in raced /\ taps[c.tap].state # "idle"
    ELSE c.page = Front /\ taps[c.tap].state = "sending"
CopySound(c) ==
    /\ c.pc \in {"applied", "ok"} => effects[c.tap] > 0
    /\ c.pc \in {"sent", "applied"} => c.id
    /\ Owned(c)
CopiesSound ==
    /\ \A c \in copies : CopySound(c)
    /\ \A c, d \in copies : c.page = d.page /\ c.page # "gone" /\ c.id = d.id /\ c.tap = d.tap => c = d

EffectsSound ==
    \A t \in Taps : /\ t \in receipts => effects[t] > 0
                    /\ taps[t].state = "idle" => effects[t] = 0
                    /\ taps[t].state = "queued" => t \in store \/ effects[t] > 0

Busy(c) == c.pc \in {"looked", "applied"}

\* As long as no window was hit, the effect of an action leaves a trace that its
\* next look-up will find, and only one copy is past that look-up.
Traced(t) ==
    \/ t \in receipts
    \/ taps[t].state = "accepted"
    \/ \E c \in copies : c.tap = t /\ (c.pc = "applied" \/ (~c.id /\ c.pc = "ok"))
OnceSound(t) ==
    /\ effects[t] <= 1
    /\ \A c, d \in copies : c.tap = t /\ d.tap = t /\ Busy(c) /\ Busy(d) => c = d
    /\ \A c \in copies : c.tap = t /\ c.pc = "looked" => effects[t] = 0
    /\ effects[t] > 0 => Traced(t)

QueueSound ==
    /\ TypeOK /\ BornSound /\ LoopsSound /\ CopiesSound /\ EffectsSound
    /\ \A t \in Taps \ raced : OnceSound(t)

-----------------------------------------------------------------------------

LEMMA QueueSoundInit == Init => QueueSound
<1> SUFFICES ASSUME Init PROVE QueueSound
  OBVIOUS
<1>1. TypeOK
  BY BoundsAssumption DEF Init, TypeOK, TapStates, NoSync, NoAction, ClientActionReceipts, Taps
<1>2. BornSound
  BY DEF Init, BornSound, InBorn
<1>3. LoopsSound
  BY DEF Init, LoopsSound, LoopSound, NoSync, NoAction, Waiting
<1>4. CopiesSound /\ EffectsSound
  BY DEF Init, CopiesSound, EffectsSound
<1>5. \A t \in Taps : OnceSound(t)
  BY DEF Init, OnceSound
<1> QED BY <1>1, <1>2, <1>3, <1>4, <1>5 DEF QueueSound

-----------------------------------------------------------------------------
(* The server                                                                *)

\* What Moved leaves, and what becomes of the copy.
LEMMA MovedCopies ==
    ASSUME NEW c \in copies, NEW pc, copies' = Moved(c, pc), TypeOK, NEW x \in copies'
    PROVE  \/ x \in copies \ {c}
           \/ /\ x = [c EXCEPT !.pc = pc] /\ ~(c.page = "gone" /\ pc \in {"ok", "refused"})
              /\ x.tap = c.tap /\ x.id = c.id /\ x.page = c.page /\ x.pc = pc
  BY DEF Moved, TypeOK, Copies

\* A step of the server moves one copy on, and takes nothing back.
ServerMoves(c, pc) ==
    /\ copies' = Moved(c, pc)
    /\ UNCHANGED phone
    /\ effects' \in [Taps -> 0..2] /\ \A t \in Taps : effects'[t] >= effects[t]
    /\ \A t \in Taps \ {c.tap} : effects'[t] = effects[t]
    /\ receipts \subseteq receipts' /\ receipts' \subseteq receipts \cup {c.tap}
    /\ raced \subseteq raced' /\ raced' \subseteq raced \cup {c.tap}

LEMMA ServerMovesSound ==
    ASSUME QueueSound, NEW c \in copies, NEW pc \in {"looked", "applied", "ok", "refused"},
           ServerMoves(c, pc), faults' \in 0..MaxFaults, done' \subseteq AllActs,
           pc = "applied" => c.id,
           pc \in {"applied", "ok"} => effects'[c.tap] > 0,
           c.tap \in receipts' => effects'[c.tap] > 0
    PROVE  TypeOK' /\ BornSound' /\ LoopsSound' /\ CopiesSound' /\ EffectsSound'
<1>0. TypeOK /\ c \in Copies /\ c.tap \in Taps
  BY DEF QueueSound, TypeOK, Copies
<1>1. copies' \subseteq Copies
  <2>1. copies \subseteq Copies /\ copies' = Moved(c, pc)
    BY <1>0 DEF ServerMoves, TypeOK
  <2>2. \A x \in copies' : x \in copies \/ x = [c EXCEPT !.pc = pc]
    BY <1>0, <2>1, MovedCopies
  <2>3. [c EXCEPT !.pc = pc] \in Copies
    BY <1>0 DEF Copies
  <2> QED BY <2>1, <2>2, <2>3
<1>2. UNCHANGED <<taps, born, store, sync>>
  BY DEF ServerMoves, phone
<1>3. TypeOK'
  BY <1>0, <1>1, <1>2 DEF TypeOK, ServerMoves, ClientActionReceipts
<1>4. BornSound'
  BY <1>2 DEF QueueSound, BornSound, InBorn
<1>5. LoopsSound'
  <2> SUFFICES ASSUME NEW p \in Pages PROVE LoopSound(p)'
    BY DEF LoopsSound
  <2>1. LoopSound(p)
    BY DEF QueueSound, LoopsSound
  <2>2. sync[p].batch \subseteq Taps
    BY <1>0 DEF TypeOK
  <2> QED BY <1>0, <1>2, <2>1, <2>2 DEF LoopSound, Waiting, Before, ServerMoves, TypeOK
<1>6. CopiesSound'
  <2>1. ASSUME NEW x \in copies' PROVE CopySound(x)'
    <3>1. \A y \in copies : CopySound(y) /\ y.tap \in Taps
      BY <1>0 DEF QueueSound, CopiesSound, TypeOK, Copies
    <3>2. CASE x \in copies \ {c}
      BY <3>1, <3>2, <1>0, <1>2 DEF CopySound, Owned, ServerMoves, TypeOK
    <3>3. CASE x.tap = c.tap /\ x.id = c.id /\ x.page = c.page /\ x.pc = pc
      BY <3>1, <3>3, <1>0, <1>2 DEF CopySound, Owned, ServerMoves, TypeOK
    <3> QED BY <3>2, <3>3, <1>0, MovedCopies DEF ServerMoves
  <2>2. ASSUME NEW x \in copies', NEW y \in copies', x.page = y.page, x.page # "gone",
               x.id = y.id, x.tap = y.tap
        PROVE  x = y
    <3>1. \A a, b \in copies : a.page = b.page /\ a.page # "gone" /\ a.id = b.id /\ a.tap = b.tap => a = b
      BY DEF QueueSound, CopiesSound
    <3> QED BY <2>2, <3>1, <1>0, MovedCopies DEF ServerMoves
  <2> QED BY <2>1, <2>2 DEF CopiesSound
<1>7. EffectsSound'
  BY <1>0, <1>2, <1>6 DEF QueueSound, EffectsSound, ServerMoves, TypeOK, CopiesSound, CopySound, Owned
<1> QED BY <1>3, <1>4, <1>5, <1>6, <1>7

\* A copy of one action does not concern the others.
LEMMA OthersOnce ==
    ASSUME QueueSound, NEW c \in copies, NEW pc \in {"looked", "applied", "ok", "refused"},
           ServerMoves(c, pc), NEW t \in Taps \ raced, t # c.tap
    PROVE  OnceSound(t)'
<1>1. OnceSound(t) /\ TypeOK
  BY DEF QueueSound
<1>2. \A x \in copies' : x.tap = t => x \in copies
  BY <1>1, MovedCopies DEF ServerMoves
<1>3. \A x \in copies : x.tap = t => x \in copies'
  BY DEF ServerMoves, Moved
<1>4. UNCHANGED taps /\ effects'[t] = effects[t] /\ (t \in receipts => t \in receipts')
  BY DEF ServerMoves, phone
<1> QED BY <1>1, <1>2, <1>3, <1>4 DEF OnceSound, Busy, Traced

\* A copy with an action id is of an action that waits, and no first attempt of that
\* is under way unless nobody waits for it any longer.
LEMMA ReplayTraced ==
    ASSUME QueueSound, NEW c \in copies, c.id, c.tap \notin raced, effects[c.tap] > 0
    PROVE  \/ c.tap \in receipts
           \/ \E x \in copies : x.tap = c.tap /\ x.pc = "applied"
<1>1. c.tap \in Taps
  BY DEF QueueSound, TypeOK, Copies
<1>2. Traced(c.tap)
  BY <1>1 DEF QueueSound, OnceSound
<1>3. \A x \in copies : Owned(x)
  BY DEF QueueSound, CopiesSound, CopySound
<1>4. taps[c.tap].state = "queued"
  BY <1>3 DEF Owned
<1> QED BY <1>2, <1>3, <1>4 DEF Traced, Owned

\* A copy that is refused, or answered because its receipt is written, is out of the way.
LEMMA RefusedOnce ==
    ASSUME QueueSound, NEW c \in copies, NEW pc \in {"ok", "refused"}, ServerMoves(c, pc),
           effects' = effects, c.pc \notin {"ok", "refused"},
           c.pc = "applied" => c.tap \in receipts' \cup raced',
           NEW t \in Taps \ raced'
    PROVE  OnceSound(t)'
<1>1. t \in Taps \ raced /\ OnceSound(t) /\ TypeOK
  BY DEF QueueSound, ServerMoves
<1>2. CASE t # c.tap
  BY <1>1, <1>2, OthersOnce
<1>3. CASE t = c.tap
  <2>1. \A x \in copies' : x \in copies \ {c} \/ x.pc = pc
    BY <1>1, MovedCopies DEF ServerMoves
  <2>2. \A x \in copies : x # c => x \in copies'
    BY DEF ServerMoves, Moved
  <2>3. UNCHANGED taps /\ (t \in receipts => t \in receipts')
    BY DEF ServerMoves, phone
  <2>4. \A x, y \in copies' : x.tap = t /\ y.tap = t /\ Busy(x) /\ Busy(y) => x = y
    BY <1>1, <2>1 DEF OnceSound, Busy
  <2>5. \A x \in copies' : x.tap = t /\ x.pc = "looked" => effects'[t] = 0
    BY <1>1, <2>1 DEF OnceSound
  <2>6. Traced(t) => Traced(t)'
    BY <1>3, <2>2, <2>3 DEF Traced
  <2> QED BY <1>1, <2>4, <2>5, <2>6 DEF OnceSound, Busy
<1> QED BY <1>2, <1>3

LEMMA LookUpSound ==
    ASSUME QueueSound, NEW c \in copies, LookUp(c)
    PROVE  QueueSound'
<1> DEFINE pc == IF KnownReceipt(c) THEN "ok" ELSE "looked"
<1>1. TypeOK /\ CopySound(c) /\ c.tap \in Taps /\ c.pc = "sent" /\ c.id
  BY DEF QueueSound, CopiesSound, CopySound, TypeOK, Copies, LookUp
<1>2. ServerMoves(c, pc)
  BY <1>1 DEF ServerMoves, LookUp, server, TypeOK
<1>3. c.tap \in receipts => effects[c.tap] > 0
  BY <1>1 DEF QueueSound, EffectsSound
<1>4. TypeOK' /\ BornSound' /\ LoopsSound' /\ CopiesSound' /\ EffectsSound'
  <2>1. faults' = faults /\ done' = done /\ effects' = effects /\ receipts' = receipts
    BY DEF LookUp, server
  <2>2. faults \in 0..MaxFaults /\ done \subseteq AllActs
    BY <1>1 DEF TypeOK
  <2>3. pc \in {"looked", "applied", "ok", "refused"} /\ pc # "applied"
    OBVIOUS
  <2>4. pc = "ok" => effects'[c.tap] > 0
    BY <2>1, <1>3 DEF KnownReceipt
  <2> HIDE DEF pc
  <2> QED BY <1>2, <1>3, <2>1, <2>2, <2>3, <2>4, ServerMovesSound
<1>5. ASSUME NEW t \in Taps \ raced' PROVE OnceSound(t)'
  <2>1. t \notin raced /\ OnceSound(t)
    BY DEF QueueSound, LookUp
  <2>2. CASE t # c.tap
    BY <2>1, <2>2, <1>2, OthersOnce
  <2>3. CASE t = c.tap
    <3>1. \A x \in copies : x.tap = t /\ x # c => ~Busy(x)
      BY <1>1, <2>3, <1>5 DEF LookUp, Overlaps, Busy
    <3>2. UNCHANGED <<taps, effects, receipts>>
      BY DEF LookUp, phone, server
    <3>3. \A x \in copies' : \/ x \in copies \ {c}
                             \/ x = [c EXCEPT !.pc = pc] /\ x.pc = pc
      BY <1>1, MovedCopies DEF LookUp
    <3>4. \A x, y \in copies' : x.tap = t /\ y.tap = t /\ Busy(x) /\ Busy(y) => x = y
      BY <3>1, <3>3
    <3>5. ASSUME NEW x \in copies', x.tap = t, x.pc = "looked" PROVE effects[t] = 0
      <4>1. CASE x \in copies \ {c}
        BY <2>1, <3>5, <4>1 DEF OnceSound
      <4>2. CASE x.pc = pc
        <5>1. t \notin receipts
          BY <4>2, <3>5, <1>1, <2>3 DEF KnownReceipt
        <5>2. ~\E y \in copies : y.tap = t /\ y.pc = "applied"
          BY <3>1, <1>1 DEF Busy
        <5>3. ~(effects[c.tap] > 0)
          BY <5>1, <5>2, <1>1, <2>1, <2>3, ReplayTraced
        <5>4. effects[c.tap] \in 0..2 /\ c.tap = t
          BY <1>1, <2>3 DEF TypeOK
        <5> QED BY <5>3, <5>4
      <4> QED BY <4>1, <4>2, <3>3
    <3>6. \A x \in copies : x # c => x \in copies'
      BY DEF LookUp, Moved
    <3>7. Traced(t) => Traced(t)'
      BY <3>2, <3>6, <1>1 DEF Traced
    <3> QED BY <2>1, <3>2, <3>4, <3>5, <3>7 DEF OnceSound, Busy
  <2> QED BY <2>2, <2>3
<1> QED BY <1>4, <1>5 DEF QueueSound

LEMMA HandleSound ==
    ASSUME QueueSound, NEW c \in copies, Handle(c)
    PROVE  QueueSound'
<1>1. TypeOK /\ CopySound(c) /\ c.tap \in Taps /\ c.pc = "looked"
  BY DEF QueueSound, CopiesSound, TypeOK, Copies, Handle
<1>2. taps[c.tap].act \in Acts /\ Acts \subseteq AllActs
  BY <1>1, BoundsAssumption DEF CopySound, Owned, QueueSound, BornSound
<1>3. raced' = raced /\ receipts' = receipts /\ taps' = taps /\ faults' = faults /\ UNCHANGED phone
  BY DEF Handle, phone
<1>4. CASE Accepts(taps[c.tap].act)
  <2> DEFINE pc == IF c.id THEN "applied" ELSE "ok"
  <2>1. /\ done' = Recorded(taps[c.tap].act) /\ copies' = Moved(c, pc)
        /\ effects' = [effects EXCEPT ![c.tap] = IF @ = 2 THEN 2 ELSE @ + 1]
    BY <1>4 DEF Handle
  <2>2. done' \subseteq AllActs
    BY <2>1, <1>1, <1>2 DEF Recorded, TypeOK, AllActs
  <2>3. /\ effects' \in [Taps -> 0..2] /\ \A t \in Taps : effects'[t] >= effects[t]
        /\ \A t \in Taps \ {c.tap} : effects'[t] = effects[t]
        /\ effects'[c.tap] > 0
    <3>1. effects \in [Taps -> 0..2] /\ c.tap \in Taps
      BY <1>1 DEF TypeOK
    <3>2. effects[c.tap] \in 0..2
      BY <3>1
    <3>3. /\ (IF effects[c.tap] = 2 THEN 2 ELSE effects[c.tap] + 1) \in 0..2
          /\ (IF effects[c.tap] = 2 THEN 2 ELSE effects[c.tap] + 1) >= effects[c.tap]
          /\ (IF effects[c.tap] = 2 THEN 2 ELSE effects[c.tap] + 1) > 0
      BY <3>2
    <3>4. \A t \in Taps : effects[t] >= effects[t]
      BY <3>1
    <3> QED BY <3>1, <3>3, <3>4, <2>1
  <2>4. ServerMoves(c, pc)
    BY <2>1, <2>3, <1>3 DEF ServerMoves
  <2>5. pc \in {"looked", "applied", "ok", "refused"} /\ (pc = "applied" => c.id)
        /\ (pc = "applied" \/ (~c.id /\ pc = "ok"))
    OBVIOUS
  <2> HIDE DEF pc
  <2>6. TypeOK' /\ BornSound' /\ LoopsSound' /\ CopiesSound' /\ EffectsSound'
    BY <1>1, <1>3, <2>2, <2>3, <2>4, <2>5, ServerMovesSound DEF TypeOK
  <2>7. ASSUME NEW t \in Taps \ raced', t = c.tap PROVE OnceSound(t)'
    <3>1. OnceSound(t)
      BY <1>3 DEF QueueSound
    <3>2. effects[t] = 0
      BY <3>1, <2>7, <1>1 DEF OnceSound
    <3>3. effects'[t] = 1
      BY <3>2, <2>1, <2>7, <1>1 DEF TypeOK
    <3>4. \A x \in copies : x.tap = t /\ x # c => ~Busy(x)
      BY <3>1, <1>1, <2>7 DEF OnceSound, Busy
    <3>5. \A x \in copies' : \/ x \in copies \ {c}
                             \/ x = [c EXCEPT !.pc = pc] /\ x.pc = pc
      BY <1>1, <2>1, MovedCopies
    <3>6. \A x, y \in copies' : x.tap = t /\ y.tap = t /\ Busy(x) /\ Busy(y) => x = y
      BY <3>4, <3>5
    <3>7. \A x \in copies' : x.tap = t => x.pc # "looked"
      BY <3>4, <3>5, <2>5 DEF Busy
    <3>8. Traced(t)'
      <4>1. CASE c.page = "gone" /\ pc = "ok"
        BY <4>1, <1>1, <2>5, <2>7, <1>3 DEF CopySound, Owned
      <4>2. CASE ~(c.page = "gone" /\ pc = "ok")
        <5>1. [c EXCEPT !.pc = pc] \in copies'
          BY <4>2, <2>1, <2>5 DEF Moved
        <5>2. [c EXCEPT !.pc = pc].pc = pc /\ [c EXCEPT !.pc = pc].tap = t /\ [c EXCEPT !.pc = pc].id = c.id
          BY <1>1, <2>7 DEF TypeOK, Copies
        <5> QED BY <5>1, <5>2, <2>5 DEF Traced
      <4> QED BY <4>1, <4>2
    <3> QED BY <3>3, <3>6, <3>7, <3>8 DEF OnceSound, Busy
  <2>8. \A t \in Taps \ raced' : t # c.tap => OnceSound(t)'
    BY <1>3, <2>4, <2>5, OthersOnce
  <2> QED BY <2>6, <2>7, <2>8 DEF QueueSound
<1>5. CASE ~Accepts(taps[c.tap].act)
  <2>1. copies' = Moved(c, "refused") /\ done' = done /\ effects' = effects
    BY <1>5 DEF Handle
  <2>2. ServerMoves(c, "refused")
    <3>1. effects \in [Taps -> 0..2]
      BY <1>1 DEF TypeOK
    <3>2. \A t \in Taps : effects[t] \in 0..2
      BY <3>1
    <3>3. \A t \in Taps : effects[t] >= effects[t]
      BY <3>2
    <3> QED BY <3>1, <3>3, <2>1, <1>3 DEF ServerMoves
  <2>3. TypeOK' /\ BornSound' /\ LoopsSound' /\ CopiesSound' /\ EffectsSound'
    <3>1. c.tap \in receipts => effects[c.tap] > 0
      BY <1>1 DEF QueueSound, EffectsSound
    <3> QED BY <3>1, <1>1, <1>3, <2>1, <2>2, ServerMovesSound DEF TypeOK
  <2>4. \A t \in Taps \ raced' : OnceSound(t)'
    BY <1>1, <1>3, <2>1, <2>2, RefusedOnce DEF Busy
  <2> QED BY <2>3, <2>4 DEF QueueSound
<1> QED BY <1>4, <1>5

LEMMA ReceiptSound ==
    ASSUME QueueSound, NEW c \in copies, NEW written \in BOOLEAN, Receipt(c, written)
    PROVE  QueueSound'
<1>1. TypeOK /\ CopySound(c) /\ c.tap \in Taps /\ c.pc = "applied" /\ effects[c.tap] > 0
  BY DEF QueueSound, CopiesSound, CopySound, TypeOK, Copies, Receipt
<1>2. faults' \in 0..MaxFaults /\ done' \subseteq AllActs /\ effects' = effects
  BY <1>1, BoundsAssumption DEF Receipt, Fault, TypeOK
<1>3. ServerMoves(c, "ok")
  BY <1>1, <1>2 DEF ServerMoves, Receipt, TypeOK
<1>4. TypeOK' /\ BornSound' /\ LoopsSound' /\ CopiesSound' /\ EffectsSound'
  BY <1>1, <1>2, <1>3, ServerMovesSound
<1>5. c.tap \in receipts' \cup raced'
  BY DEF Receipt
<1>6. \A t \in Taps \ raced' : OnceSound(t)'
  BY <1>1, <1>2, <1>3, <1>5, RefusedOnce
<1> QED BY <1>4, <1>6 DEF QueueSound

LEMMA ServerFailsSound ==
    ASSUME QueueSound, NEW c \in copies, ServerFails(c)
    PROVE  QueueSound'
<1>1. TypeOK /\ c.tap \in Taps /\ c.pc \in {"looked", "applied"}
  BY DEF QueueSound, TypeOK, Copies, ServerFails
<1>2. faults' \in 0..MaxFaults /\ done' \subseteq AllActs /\ effects' = effects /\ receipts' = receipts
  BY <1>1, BoundsAssumption DEF ServerFails, server, Fault, TypeOK
<1>3. ServerMoves(c, "refused")
  BY <1>1, <1>2 DEF ServerMoves, ServerFails, TypeOK
<1>4. c.tap \in receipts' => effects'[c.tap] > 0
  BY <1>1, <1>2 DEF QueueSound, EffectsSound
<1>5. TypeOK' /\ BornSound' /\ LoopsSound' /\ CopiesSound' /\ EffectsSound'
  BY <1>2, <1>3, <1>4, ServerMovesSound
<1>6. c.pc = "applied" => c.tap \in receipts' \cup raced'
  BY DEF ServerFails
<1>7. \A t \in Taps \ raced' : OnceSound(t)'
  BY <1>1, <1>2, <1>3, <1>6, RefusedOnce
<1> QED BY <1>5, <1>7 DEF QueueSound

-----------------------------------------------------------------------------
(* The phone                                                                 *)

\* createdAt is a strict order of what waits.
LEMMA BeforeIsAsymmetric ==
    ASSUME TypeOK, NEW t, NEW u, Before(t, u)
    PROVE  ~Before(u, t)
<1>1. PICK i, j \in 1..Len(born) : i < j /\ born[i] = t /\ born[j] = u
  BY DEF Before
<1>2. ASSUME NEW k \in 1..Len(born), NEW l \in 1..Len(born), k < l, born[k] = u, born[l] = t
      PROVE  FALSE
  <2>1. k = j /\ l = i
    BY <1>1, <1>2 DEF TypeOK
  <2> QED BY <2>1, <1>1, <1>2
<1> QED BY <1>2 DEF Before

\* A new createdAt is later than every other.
LEMMA BornLast ==
    ASSUME TypeOK, NEW t \in Taps, ~InBorn(t), born' = Append(born, t)
    PROVE  /\ born' \in Seq(Taps) /\ \A i, j \in 1..Len(born') : born'[i] = born'[j] => i = j
           /\ \A u : InBorn(u)' <=> InBorn(u) \/ u = t
           /\ \A u, v : InBorn(v) /\ Before(u, v)' => Before(u, v)
<1>1. born \in Seq(Taps) /\ Len(born) \in Nat
  BY DEF TypeOK
<1>2. /\ born' \in Seq(Taps) /\ Len(born') = Len(born) + 1 /\ born'[Len(born) + 1] = t
      /\ \A i \in 1..Len(born) : born'[i] = born[i]
  BY <1>1
<1>3. \A i \in 1..Len(born') : i \in 1..Len(born) \/ i = Len(born) + 1
  BY <1>1, <1>2
<1>4. \A i, j \in 1..Len(born') : born'[i] = born'[j] => i = j
  BY <1>1, <1>2, <1>3 DEF InBorn, TypeOK
<1>5. ASSUME NEW u PROVE InBorn(u)' <=> InBorn(u) \/ u = t
  BY <1>1, <1>2, <1>3 DEF InBorn
<1>6. ASSUME NEW u, NEW v, InBorn(v), Before(u, v)' PROVE Before(u, v)
  <2>1. PICK i, j \in 1..Len(born') : i < j /\ born'[i] = u /\ born'[j] = v
    BY <1>6 DEF Before
  <2>2. j # Len(born) + 1
    BY <1>2, <1>6, <2>1
  <2>3. i \in 1..Len(born) /\ j \in 1..Len(born)
    BY <1>1, <1>3, <2>1, <2>2
  <2> QED BY <1>2, <2>1, <2>3 DEF Before
<1> QED BY <1>2, <1>4, <1>5, <1>6

\* What becomes of the copies that nobody waits for any longer.
LEMMA Abandoned ==
    ASSUME TypeOK, NEW cs \in SUBSET copies, NEW x \in Abandon(cs)
    PROVE  \/ x \in copies \ cs
           \/ \E c \in cs : /\ x = [c EXCEPT !.page = "gone"] /\ c.pc \notin {"ok", "refused"}
                            /\ x.tap = c.tap /\ x.id = c.id /\ x.pc = c.pc /\ x.page = "gone"
  BY DEF Abandon, TypeOK, Copies

LEMMA AbandonedType ==
    ASSUME TypeOK, NEW cs \in SUBSET copies
    PROVE  /\ Abandon(cs) \subseteq Copies
           /\ Unseen(cs) \subseteq Taps
<1>1. \A c \in Copies : [c EXCEPT !.page = "gone"] \in Copies /\ c.tap \in Taps
  BY DEF Copies
<1>2. copies \subseteq Copies
  BY DEF TypeOK
<1>3. Abandon(cs) \subseteq Copies
  BY <1>1, <1>2 DEF Abandon
<1>4. Unseen(cs) \subseteq Taps
  BY <1>1, <1>2 DEF Unseen
<1> QED BY <1>3, <1>4

\* Giving up on requests costs no trace, except that of a first attempt.
LEMMA AbandonOnce ==
    ASSUME QueueSound, NEW cs \in SUBSET copies, copies' = Abandon(cs),
           raced' = raced \cup Unseen(cs), effects' = effects, receipts' = receipts,
           NEW t \in Taps \ raced', taps[t].state = "accepted" => taps'[t].state = "accepted"
    PROVE  OnceSound(t)'
<1>1. TypeOK /\ OnceSound(t)
  BY DEF QueueSound
<1>2. \A x \in copies' : \/ x \in copies \ cs
                         \/ \E c \in cs : x = [c EXCEPT !.page = "gone"] /\ x.tap = c.tap /\ x.pc = c.pc
  BY <1>1, Abandoned
<1>3. ASSUME NEW x \in copies', NEW y \in copies', x.tap = t, y.tap = t, Busy(x), Busy(y) PROVE x = y
  <2>1. \A c, d \in copies : c.tap = t /\ d.tap = t /\ Busy(c) /\ Busy(d) => c = d
    BY <1>1 DEF OnceSound
  <2>2. PICK c \in copies : \/ c = x /\ c \notin cs
                            \/ c \in cs /\ x = [c EXCEPT !.page = "gone"] /\ x.tap = c.tap /\ x.pc = c.pc
    BY <1>2
  <2>3. PICK d \in copies : \/ d = y /\ d \notin cs
                            \/ d \in cs /\ y = [d EXCEPT !.page = "gone"] /\ y.tap = d.tap /\ y.pc = d.pc
    BY <1>2
  <2>4. c = d
    BY <2>1, <2>2, <2>3, <1>3 DEF Busy
  <2> QED BY <2>2, <2>3, <2>4
<1>4. \A x \in copies' : x.tap = t /\ x.pc = "looked" => effects[t] = 0
  BY <1>1, <1>2 DEF OnceSound
<1>5. ASSUME NEW c \in copies, c.tap = t, c.pc = "applied" \/ (~c.id /\ c.pc = "ok")
      PROVE  \E x \in copies' : x.tap = t /\ (x.pc = "applied" \/ (~x.id /\ x.pc = "ok"))
  <2>1. CASE c \notin cs
    BY <1>5, <2>1 DEF Abandon
  <2>2. CASE c \in cs /\ c.pc = "applied"
    <3>1. [c EXCEPT !.page = "gone"] \in copies'
      BY <2>2 DEF Abandon
    <3>2. [c EXCEPT !.page = "gone"].tap = t /\ [c EXCEPT !.page = "gone"].pc = "applied"
      BY <1>1, <1>5, <2>2 DEF TypeOK, Copies
    <3> QED BY <3>1, <3>2
  <2>3. CASE c \in cs /\ ~c.id /\ c.pc = "ok"
    BY <1>5, <2>3 DEF Unseen
  <2> QED BY <1>5, <2>1, <2>2, <2>3
<1>6. Traced(t) => Traced(t)'
  BY <1>5 DEF Traced
<1> QED BY <1>1, <1>3, <1>4, <1>6 DEF OnceSound

\* Nor does the end of a request that left none, or that the driver was told of.
LEMMA EndOnce ==
    ASSUME QueueSound, NEW c \in copies, copies' = copies \ {c}, c.pc # "applied",
           ~c.id /\ c.pc = "ok" => taps'[c.tap].state = "accepted",
           raced' = raced, effects' = effects, receipts' = receipts,
           NEW t \in Taps \ raced', taps[t].state = "accepted" => taps'[t].state = "accepted"
    PROVE  OnceSound(t)'
<1>1. OnceSound(t)
  BY DEF QueueSound
<1>2. Traced(t) => Traced(t)'
  BY DEF Traced
<1> QED BY <1>1, <1>2 DEF OnceSound, Busy

\* A request of the driver goes from one state to the next before it is replayed.
LEMMA TapMoves ==
    ASSUME QueueSound, NEW t \in Taps, NEW s \in TapStates \ {"idle"},
           taps[t].state \in {"sending", "failed", "saving"},
           taps' = [taps EXCEPT ![t].state = s],
           \/ born' = born
           \/ born' = Append(born, t) /\ taps[t].state = "sending",
           s \in {"failed", "saving", "queued"} => InBorn(t)',
           InBorn(t)' => s \notin {"sending", "accepted", "rejected"},
           \/ store' = store /\ s # "queued"
           \/ store' = store \cup {t} /\ s = "queued",
           UNCHANGED <<sync, effects, receipts>>
    PROVE  /\ BornSound' /\ LoopsSound' /\ EffectsSound'
           /\ born' \in Seq(Taps) /\ \A u \in store' : InBorn(u)'
           /\ \A i, j \in 1..Len(born') : born'[i] = born'[j] => i = j
           /\ taps' \in [Taps -> [act: Acts \cup {"none"}, state: TapStates]]
           /\ store' \subseteq {u \in Taps : taps'[u].state = "queued"}
           /\ \A u \in Taps : taps'[u].act = taps[u].act
           /\ taps'[t].state = s /\ \A u \in Taps \ {t} : taps'[u] = taps[u]
<1>1. TypeOK
  BY DEF QueueSound
<1>2. /\ taps' \in [Taps -> [act: Acts \cup {"none"}, state: TapStates]]
      /\ taps'[t].state = s /\ \A u \in Taps \ {t} : taps'[u] = taps[u]
      /\ \A u \in Taps : taps'[u].act = taps[u].act
  <2>1. taps \in [Taps -> [act: Acts \cup {"none"}, state: TapStates]]
    BY <1>1 DEF TypeOK
  <2> QED BY <2>1
<1>3. /\ born' \in Seq(Taps) /\ \A i, j \in 1..Len(born') : born'[i] = born'[j] => i = j
      /\ \A u : InBorn(u)' => InBorn(u) \/ u = t
      /\ \A u : InBorn(u) => InBorn(u)'
      /\ \A u, v : InBorn(v) /\ Before(u, v)' => Before(u, v)
  <2>1. CASE born' = born
    BY <1>1, <2>1 DEF InBorn, Before, TypeOK
  <2>2. CASE born' = Append(born, t) /\ taps[t].state = "sending"
    <3>1. ~InBorn(t)
      BY <2>2 DEF QueueSound, BornSound
    <3> QED BY <1>1, <2>2, <3>1, BornLast
  <2> QED BY <2>1, <2>2
<1>4. BornSound'
  <2> SUFFICES ASSUME NEW u \in Taps
               PROVE  /\ taps'[u].state \in {"failed", "saving", "queued"} => InBorn(u)'
                      /\ InBorn(u)' => taps'[u].state \notin {"idle", "sending", "accepted", "rejected"}
                      /\ taps'[u].state # "idle" => taps'[u].act \in Acts
    BY DEF BornSound
  <2>1. /\ taps[u].state \in {"failed", "saving", "queued"} => InBorn(u)
        /\ InBorn(u) => taps[u].state \notin {"idle", "sending", "accepted", "rejected"}
        /\ taps[u].state # "idle" => taps[u].act \in Acts
    BY DEF QueueSound, BornSound
  <2>2. CASE u = t
    BY <1>2, <2>1, <2>2
  <2>3. CASE u # t
    BY <1>2, <1>3, <2>1, <2>3
  <2> QED BY <2>2, <2>3
<1>5. LoopsSound'
  <2> SUFFICES ASSUME NEW p \in Pages PROVE LoopSound(p)'
    BY DEF LoopsSound
  <2>1. LoopSound(p) /\ sync[p].batch \subseteq Taps
    BY <1>1 DEF QueueSound, LoopsSound, TypeOK
  <2>2. \A u \in sync[p].batch : u # t /\ InBorn(u)
    BY <2>1 DEF LoopSound, QueueSound, BornSound
  <2> QED BY <1>2, <1>3, <2>1, <2>2 DEF LoopSound, Waiting
<1>6. EffectsSound'
  BY <1>2 DEF QueueSound, EffectsSound
<1>7. \A u \in store' : InBorn(u)'
  BY <1>1, <1>3 DEF TypeOK, InBorn
<1>8. store' \subseteq {u \in Taps : taps'[u].state = "queued"}
  BY <1>1, <1>2 DEF TypeOK
<1> QED BY <1>2, <1>3, <1>4, <1>5, <1>6, <1>7, <1>8

LEMMA TapAnsweredSound ==
    ASSUME QueueSound, NEW t \in Taps, TapAnswered(t)
    PROVE  QueueSound'
<1>1. PICK c \in copies : /\ c.tap = t /\ ~c.id /\ c.page # "gone" /\ c.pc \in {"ok", "refused"}
                          /\ taps' = [taps EXCEPT ![t].state = IF c.pc = "ok" THEN "accepted" ELSE "rejected"]
                          /\ copies' = copies \ {c}
  BY DEF TapAnswered
<1> DEFINE s == IF c.pc = "ok" THEN "accepted" ELSE "rejected"
<1>2. TypeOK /\ \A d \in copies : CopySound(d) /\ d.tap \in Taps
  BY DEF QueueSound, CopiesSound, TypeOK, Copies
<1>3. taps[t].state = "sending" /\ ~InBorn(t) /\ c.page = Front
  BY <1>1, <1>2 DEF CopySound, Owned, QueueSound, BornSound
<1>4. UNCHANGED <<born, store, sync, done, effects, receipts, faults, raced>>
  BY DEF TapAnswered, server
<1>5. s \in TapStates \ {"idle"} /\ s \notin {"failed", "saving", "queued"} /\ taps' = [taps EXCEPT ![t].state = s]
  BY <1>1 DEF TapStates, Outcomes
<1>6. ~InBorn(t)'
  BY <1>3, <1>4 DEF InBorn
<1> HIDE DEF s
<1>7. /\ BornSound' /\ LoopsSound' /\ EffectsSound'
      /\ born' \in Seq(Taps) /\ \A u \in store' : InBorn(u)'
      /\ \A i, j \in 1..Len(born') : born'[i] = born'[j] => i = j
      /\ taps' \in [Taps -> [act: Acts \cup {"none"}, state: TapStates]]
      /\ store' \subseteq {u \in Taps : taps'[u].state = "queued"}
      /\ taps'[t].state = s /\ \A u \in Taps \ {t} : taps'[u] = taps[u]
  BY <1>3, <1>4, <1>5, <1>6, TapMoves
<1>8. TypeOK'
  BY <1>1, <1>2, <1>4, <1>7 DEF TypeOK, InBorn
<1>9. CopiesSound'
  <2>1. \A d, e \in copies : d.page = e.page /\ d.page # "gone" /\ d.id = e.id /\ d.tap = e.tap => d = e
    BY DEF QueueSound, CopiesSound
  <2>2. ASSUME NEW d \in copies' PROVE CopySound(d)'
    <3>1. CopySound(d) /\ d \in copies /\ d # c
      BY <1>1, <1>2
    <3>2. d.tap = t => d.page = "gone" /\ ~d.id
      <4>1. c.id \in BOOLEAN /\ d.id \in BOOLEAN
        BY <1>1, <1>2, <3>1 DEF TypeOK, Copies
      <4> QED BY <1>1, <1>3, <2>1, <3>1, <4>1 DEF CopySound, Owned
    <3> QED BY <1>2, <1>4, <1>5, <1>7, <3>1, <3>2 DEF CopySound, Owned
  <2> QED BY <1>1, <2>1, <2>2 DEF CopiesSound
<1>10. \A u \in Taps \ raced' : OnceSound(u)'
  <2> SUFFICES ASSUME NEW u \in Taps \ raced' PROVE OnceSound(u)'
    OBVIOUS
  <2>1. taps[u].state = "accepted" => taps'[u].state = "accepted"
    BY <1>3, <1>7
  <2>2. ~c.id /\ c.pc = "ok" => taps'[c.tap].state = "accepted"
    BY <1>1, <1>7 DEF s
  <2> QED BY <1>1, <1>4, <2>1, <2>2, EndOnce
<1> QED BY <1>7, <1>8, <1>9, <1>10 DEF QueueSound

LEMMA TapLostSound ==
    ASSUME QueueSound, NEW t \in Taps, TapLost(t)
    PROVE  QueueSound'
<1>1. PICK c \in copies : /\ c.tap = t /\ ~c.id /\ c.page # "gone"
                          /\ copies' = Abandon({c}) /\ raced' = raced \cup Unseen({c})
  BY DEF TapLost
<1>2. TypeOK /\ \A d \in copies : CopySound(d) /\ d.tap \in Taps
  BY DEF QueueSound, CopiesSound, TypeOK, Copies
<1>3. taps[t].state = "sending" /\ ~InBorn(t) /\ c.page = Front
  BY <1>1, <1>2 DEF CopySound, Owned, QueueSound, BornSound
<1>4. /\ UNCHANGED <<store, sync, done, effects, receipts>> /\ faults' \in 0..MaxFaults
      /\ taps' = [taps EXCEPT ![t].state = "failed"] /\ born' = Append(born, t)
  BY <1>2, BoundsAssumption DEF TapLost, server, Fault, TypeOK
<1>5. InBorn(t)'
  BY <1>2, <1>3, <1>4, BornLast
<1>6. "failed" \in TapStates \ {"idle"}
  BY DEF TapStates
<1>7. /\ BornSound' /\ LoopsSound' /\ EffectsSound'
      /\ born' \in Seq(Taps) /\ \A u \in store' : InBorn(u)'
      /\ \A i, j \in 1..Len(born') : born'[i] = born'[j] => i = j
      /\ taps' \in [Taps -> [act: Acts \cup {"none"}, state: TapStates]]
      /\ store' \subseteq {u \in Taps : taps'[u].state = "queued"}
      /\ taps'[t].state = "failed" /\ \A u \in Taps \ {t} : taps'[u] = taps[u]
  BY <1>3, <1>4, <1>5, <1>6, TapMoves
<1>8. TypeOK'
  <2>1. copies' \subseteq Copies /\ raced' \subseteq Taps
    BY <1>1, <1>2, AbandonedType DEF TypeOK
  <2> QED BY <1>2, <1>4, <1>7, <2>1 DEF TypeOK, InBorn
<1>9. CopiesSound'
  <2>1. \A d, e \in copies : d.page = e.page /\ d.page # "gone" /\ d.id = e.id /\ d.tap = e.tap => d = e
    BY DEF QueueSound, CopiesSound
  <2>2. \A d \in copies' : \/ d \in copies \ {c}
                           \/ /\ d.page = "gone" /\ d.tap = t /\ ~d.id /\ d.pc = c.pc
                              /\ c.pc \notin {"ok", "refused"}
    BY <1>1, <1>2, Abandoned
  <2>3. ASSUME NEW d \in copies' PROVE CopySound(d)'
    <3>1. CASE d \in copies \ {c}
      <4>1. CopySound(d)
        BY <1>2, <3>1
      <4>2. d.tap = t => d.page = "gone" /\ ~d.id
        <5>1. c.id \in BOOLEAN /\ d.id \in BOOLEAN
          BY <1>2, <3>1 DEF TypeOK, Copies
        <5> QED BY <1>1, <1>3, <2>1, <3>1, <4>1, <5>1 DEF CopySound, Owned
      <4> QED BY <1>1, <1>2, <1>4, <1>7, <3>1, <4>1, <4>2 DEF CopySound, Owned
    <3>2. CASE /\ d.page = "gone" /\ d.tap = t /\ ~d.id /\ d.pc = c.pc
               /\ c.pc \notin {"ok", "refused"}
      <4>1. t \in raced'
        BY <1>1, <3>2 DEF Unseen
      <4> QED BY <1>1, <1>2, <1>4, <1>7, <3>2, <4>1 DEF CopySound, Owned
    <3> QED BY <2>2, <3>1, <3>2
  <2>4. ASSUME NEW d \in copies', NEW e \in copies', d.page = e.page, d.page # "gone", d.id = e.id, d.tap = e.tap
        PROVE  d = e
    BY <2>1, <2>2, <2>4
  <2> QED BY <2>3, <2>4 DEF CopiesSound
<1>10. \A u \in Taps \ raced' : OnceSound(u)'
  <2> SUFFICES ASSUME NEW u \in Taps \ raced' PROVE OnceSound(u)'
    OBVIOUS
  <2>1. taps[u].state = "accepted" => taps'[u].state = "accepted"
    BY <1>3, <1>7
  <2> QED BY <1>1, <1>4, <2>1, AbandonOnce
<1> QED BY <1>7, <1>8, <1>9, <1>10 DEF QueueSound

\* The two steps between the failure and the phone's database.
LEMMA SaveSound ==
    ASSUME QueueSound, NEW t \in Taps, CheckDuplicate(t) \/ PutAction(t)
    PROVE  QueueSound'
<1> DEFINE s == IF taps[t].state = "saving" THEN "queued"
                ELSE IF \E u \in store : SamePath(t, u) THEN "merged" ELSE "saving"
<1>1. TypeOK /\ \A d \in copies : CopySound(d) /\ d.tap \in Taps
  BY DEF QueueSound, CopiesSound, TypeOK, Copies
<1>2. /\ taps[t].state \in {"failed", "saving"} /\ taps' = [taps EXCEPT ![t].state = s]
      /\ store' = IF taps[t].state = "saving" THEN store \cup {t} ELSE store
      /\ UNCHANGED <<born, sync, copies, done, effects, receipts, faults, raced>>
  BY DEF CheckDuplicate, PutAction, server
<1>3. InBorn(t) /\ (\A u : InBorn(u)' <=> InBorn(u))
  BY <1>2 DEF QueueSound, BornSound, InBorn
<1>4. s \in TapStates \ {"idle"} /\ s \notin {"sending", "accepted", "rejected"} /\ (s = "queued" <=> taps[t].state = "saving")
  BY <1>2 DEF TapStates, Outcomes
<1> HIDE DEF s
<1>5. /\ BornSound' /\ LoopsSound' /\ EffectsSound'
      /\ born' \in Seq(Taps) /\ \A u \in store' : InBorn(u)'
      /\ \A i, j \in 1..Len(born') : born'[i] = born'[j] => i = j
      /\ taps' \in [Taps -> [act: Acts \cup {"none"}, state: TapStates]]
      /\ store' \subseteq {u \in Taps : taps'[u].state = "queued"}
      /\ taps'[t].state = s /\ \A u \in Taps \ {t} : taps'[u] = taps[u]
  <2>1. /\ born' = born /\ UNCHANGED <<sync, effects, receipts>> /\ InBorn(t)'
        /\ taps[t].state \in {"sending", "failed", "saving"} /\ s \in TapStates \ {"idle"}
        /\ s \notin {"sending", "accepted", "rejected"}
    BY <1>2, <1>3, <1>4
  <2>2. \/ store' = store /\ s # "queued"
        \/ store' = store \cup {t} /\ s = "queued"
    BY <1>2, <1>4
  <2> QED BY <1>2, <2>1, <2>2, TapMoves
<1>6. TypeOK'
  BY <1>1, <1>2, <1>5 DEF TypeOK, InBorn
<1>7. CopiesSound'
  <2>1. ASSUME NEW d \in copies' PROVE CopySound(d)'
    <3>1. CopySound(d) /\ d \in copies
      BY <1>1, <1>2
    <3>2. d.tap = t => d.page = "gone" /\ ~d.id
      BY <1>2, <3>1 DEF CopySound, Owned
    <3> QED BY <1>1, <1>2, <1>4, <1>5, <3>1, <3>2 DEF CopySound, Owned
  <2> QED BY <1>2, <2>1 DEF QueueSound, CopiesSound
<1>8. ASSUME NEW u \in Taps \ raced' PROVE OnceSound(u)'
  <2>1. taps[u].state = "accepted" => taps'[u].state = "accepted"
    BY <1>2, <1>5
  <2> QED BY <1>2, <2>1 DEF QueueSound, OnceSound, Traced, Busy
<1> QED BY <1>5, <1>6, <1>7, <1>8 DEF QueueSound

LEMMA TapSound ==
    ASSUME QueueSound, NEW t \in Taps, NEW a \in Acts, NEW signal \in BOOLEAN, Tap(t, a, signal)
    PROVE  QueueSound'
<1> DEFINE s == IF signal THEN "sending" ELSE "failed"
           x == [tap |-> t, id |-> FALSE, page |-> Front, pc |-> "looked"]
<1>1. TypeOK /\ \A d \in copies : CopySound(d) /\ d.tap \in Taps
  BY DEF QueueSound, CopiesSound, TypeOK, Copies
<1>2. /\ UNCHANGED <<store, sync, done, effects, receipts, faults, raced>>
      /\ copies' = (IF signal THEN copies \cup {x} ELSE copies)
      /\ born' = (IF signal THEN born ELSE Append(born, t))
      /\ taps[t].state = "idle"
  BY DEF Tap
<1>3. taps' = [taps EXCEPT ![t].act = a, ![t].state = s]
  BY DEF Tap
<1>4. s \in TapStates /\ x \in Copies
  BY <1>1, PagesAssumption DEF TapStates, Copies
<1>5. /\ taps' \in [Taps -> [act: Acts \cup {"none"}, state: TapStates]]
      /\ taps'[t].state = s /\ taps'[t].act = a /\ \A u \in Taps \ {t} : taps'[u] = taps[u]
  <2>1. taps \in [Taps -> [act: Acts \cup {"none"}, state: TapStates]]
    BY <1>1 DEF TypeOK
  <2> HIDE DEF s
  <2> QED BY <1>3, <1>4, <2>1
<1>6. ~InBorn(t) /\ effects[t] = 0 /\ \A d \in copies : d.tap # t
  BY <1>1, <1>2 DEF QueueSound, BornSound, EffectsSound, CopySound, Owned
<1>7. /\ born' \in Seq(Taps) /\ \A i, j \in 1..Len(born') : born'[i] = born'[j] => i = j
      /\ \A u : InBorn(u)' <=> InBorn(u) \/ (u = t /\ ~signal)
      /\ \A u, v : InBorn(v) /\ Before(u, v)' => Before(u, v)
  <2>1. CASE signal
    BY <1>1, <1>2, <2>1 DEF InBorn, Before, TypeOK
  <2>2. CASE ~signal
    BY <1>1, <1>2, <1>6, <2>2, BornLast
  <2> QED BY <2>1, <2>2
<1>8. TypeOK'
  <2>1. store' \subseteq {u \in Taps : taps'[u].state = "queued"}
    BY <1>1, <1>2, <1>5 DEF TypeOK
  <2>2. \A u \in store' : InBorn(u)'
    BY <1>1, <1>2, <1>7 DEF TypeOK, InBorn
  <2>3. copies' \subseteq Copies
    BY <1>1, <1>2, <1>4 DEF TypeOK
  <2> QED BY <1>1, <1>2, <1>5, <1>7, <2>1, <2>2, <2>3 DEF TypeOK, InBorn
<1>9. BornSound'
  BY <1>5, <1>6, <1>7 DEF QueueSound, BornSound
<1>10. LoopsSound'
  <2> SUFFICES ASSUME NEW p \in Pages PROVE LoopSound(p)'
    BY DEF LoopsSound
  <2>1. LoopSound(p) /\ sync[p].batch \subseteq Taps
    BY <1>1 DEF QueueSound, LoopsSound, TypeOK
  <2>2. \A u \in sync[p].batch : u # t /\ InBorn(u)
    BY <1>2, <2>1 DEF LoopSound, QueueSound, BornSound
  <2> QED BY <1>2, <1>5, <1>7, <2>1, <2>2 DEF LoopSound, Waiting
<1>11. CopiesSound'
  <2>1. ASSUME NEW d \in copies' PROVE CopySound(d)'
    <3>1. CASE d \in copies
      BY <1>1, <1>2, <1>5, <1>6, <3>1 DEF CopySound, Owned
    <3>2. CASE signal /\ d = x
      BY <1>2, <1>5, <3>2, PagesAssumption DEF CopySound, Owned
    <3> QED BY <1>2, <3>1, <3>2
  <2> QED BY <1>2, <1>6, <2>1 DEF QueueSound, CopiesSound
<1>12. EffectsSound'
  BY <1>2, <1>5 DEF QueueSound, EffectsSound
<1>13. ASSUME NEW u \in Taps \ raced' PROVE OnceSound(u)'
  <2>1. OnceSound(u) /\ effects'[u] = effects[u]
    BY <1>2 DEF QueueSound
  <2>2. CASE u = t
    <3>1. \A d \in copies' : d.tap = t => d = x
      BY <1>2, <1>6
    <3>2. effects'[u] = 0
      BY <1>6, <2>1, <2>2
    <3>3. \A c, d \in copies' : c.tap = u /\ d.tap = u => c = d
      BY <2>2, <3>1
    <3> HIDE DEF x
    <3> QED BY <3>2, <3>3 DEF OnceSound
  <2>3. CASE u # t
    BY <1>2, <1>5, <2>1, <2>3 DEF OnceSound, Busy, Traced
  <2> QED BY <2>2, <2>3
<1> QED BY <1>8, <1>9, <1>10, <1>11, <1>12, <1>13 DEF QueueSound

-----------------------------------------------------------------------------
(* The replay loops                                                          *)

LEMMA StartSyncSound ==
    ASSUME QueueSound, NEW p \in Pages, StartSync(p)
    PROVE  QueueSound'
<1>1. TypeOK /\ LoopSound(p)
  BY DEF QueueSound, LoopsSound
<1>2. UNCHANGED <<taps, born, store, copies, done, effects, receipts, faults, raced>>
  BY DEF StartSync, server
<1>3. sync[p].action = NoAction
  BY <1>1 DEF StartSync, Replaying, LoopSound, Waiting
<1>4. /\ sync'[p] = [batch |-> store, past |-> {}, action |-> NoAction]
      /\ \A q \in Pages \ {p} : sync'[q] = sync[q]
      /\ \A q \in Pages : sync'[q].action = sync[q].action
      /\ sync' \in [Pages -> [batch: SUBSET Taps, past: SUBSET Taps, action: Taps \cup {NoAction}]]
  <2>1. sync \in [Pages -> [batch: SUBSET Taps, past: SUBSET Taps, action: Taps \cup {NoAction}]] /\ store \subseteq Taps
    BY <1>1 DEF TypeOK
  <2>2. sync' = [sync EXCEPT ![p] = [batch |-> store, past |-> {}, action |-> NoAction]]
    <3>1. [NoSync EXCEPT !.batch = store] = [batch |-> store, past |-> {}, action |-> NoAction]
      BY DEF NoSync
    <3> QED BY <3>1 DEF StartSync
  <2>3. [batch |-> store, past |-> {}, action |-> NoAction] \in [batch: SUBSET Taps, past: SUBSET Taps, action: Taps \cup {NoAction}]
    BY <2>1
  <2>4. sync'[p] = [batch |-> store, past |-> {}, action |-> NoAction] /\ \A q \in Pages \ {p} : sync'[q] = sync[q]
    BY <2>1, <2>2
  <2>5. \A q \in Pages : sync'[q].action = sync[q].action
    BY <1>3, <2>4
  <2>6. sync' \in [Pages -> [batch: SUBSET Taps, past: SUBSET Taps, action: Taps \cup {NoAction}]]
    BY <2>1, <2>2, <2>3
  <2> QED BY <2>2, <2>4, <2>5, <2>6
<1>5. TypeOK'
  BY <1>1, <1>2, <1>4 DEF TypeOK
<1>6. BornSound' /\ EffectsSound'
  BY <1>2 DEF QueueSound, BornSound, InBorn, EffectsSound
<1>7. LoopsSound'
  <2> SUFFICES ASSUME NEW q \in Pages PROVE LoopSound(q)'
    BY DEF LoopsSound
  <2>1. CASE q = p
    BY <1>1, <1>2, <1>4, <2>1 DEF LoopSound, Waiting, TypeOK
  <2>2. CASE q # p
    BY <1>2, <1>4, <2>2 DEF QueueSound, LoopsSound, LoopSound, Waiting, Before
  <2> QED BY <2>1, <2>2
<1>8. CopiesSound'
  BY <1>1, <1>2, <1>4 DEF QueueSound, CopiesSound, CopySound, Owned, TypeOK, Copies
<1>9. \A u \in Taps \ raced' : OnceSound(u)'
  BY <1>2 DEF QueueSound, OnceSound, Traced, Busy
<1> QED BY <1>5, <1>6, <1>7, <1>8, <1>9 DEF QueueSound

LEMMA SendReplaySound ==
    ASSUME QueueSound, NEW p \in Pages, SendReplay(p)
    PROVE  QueueSound'
<1>1. TypeOK /\ LoopSound(p) /\ sync[p].action = NoAction
  BY DEF QueueSound, LoopsSound, SendReplay, Waiting
<1>2. PICK t \in sync[p].batch \ sync[p].past :
        /\ First(t, sync[p].batch \ sync[p].past)
        /\ copies' = copies \cup {[tap |-> t, id |-> TRUE, page |-> p, pc |-> "sent"]}
        /\ sync' = [sync EXCEPT ![p].action = t]
  BY DEF SendReplay
<1> DEFINE x == [tap |-> t, id |-> TRUE, page |-> p, pc |-> "sent"]
<1>3. UNCHANGED <<taps, born, store, done, effects, receipts, faults, raced>>
  BY DEF SendReplay, server
<1>4. t \in Taps /\ taps[t].state = "queued" /\ p # "gone" /\ t # NoAction
  BY <1>1, <1>2, PagesAssumption DEF TypeOK, LoopSound, NoAction, Taps
<1>5. /\ sync'[p].action = t /\ sync'[p].batch = sync[p].batch /\ sync'[p].past = sync[p].past
      /\ \A q \in Pages \ {p} : sync'[q] = sync[q]
      /\ sync' \in [Pages -> [batch: SUBSET Taps, past: SUBSET Taps, action: Taps \cup {NoAction}]]
  BY <1>1, <1>2, <1>4 DEF TypeOK
<1>6. TypeOK'
  <2>1. x \in Copies
    BY <1>4 DEF Copies
  <2> QED BY <1>1, <1>2, <1>3, <1>5, <2>1 DEF TypeOK
<1>7. BornSound' /\ EffectsSound'
  BY <1>3 DEF QueueSound, BornSound, InBorn, EffectsSound
<1>8. LoopsSound'
  <2> SUFFICES ASSUME NEW q \in Pages PROVE LoopSound(q)'
    BY DEF LoopsSound
  <2>1. CASE q = p
    <3>1. ASSUME NEW u \in sync[p].batch, Before(u, t) PROVE u \in sync[p].past
      <4>1. ~Before(t, u)
        BY <1>1, <3>1, BeforeIsAsymmetric
      <4>2. u # t
        BY <3>1, <4>1
      <4> QED BY <1>2, <3>1, <4>1, <4>2 DEF First
    <3> QED BY <1>1, <1>2, <1>3, <1>5, <2>1, <3>1 DEF LoopSound, Waiting, Before
  <2>2. CASE q # p
    BY <1>3, <1>5, <2>2 DEF QueueSound, LoopsSound, LoopSound, Waiting, Before
  <2> QED BY <2>1, <2>2
<1>9. CopiesSound'
  <2>1. \A c \in copies : CopySound(c) /\ c.page \in Pages \cup {"gone"} /\ c.tap \in Taps /\ c.tap # NoAction
    BY <1>1 DEF QueueSound, CopiesSound, TypeOK, Copies, NoAction, Taps
  <2>2. \A c \in copies : c.page = p => ~c.id
    BY <1>1, <1>4, <2>1 DEF CopySound, Owned
  <2>3. ASSUME NEW c \in copies' PROVE CopySound(c)'
    <3>1. CASE c \in copies
      BY <1>3, <1>5, <2>1, <2>2, <3>1 DEF CopySound, Owned
    <3>2. CASE c = x
      BY <1>3, <1>4, <1>5, <3>2 DEF CopySound, Owned
    <3> QED BY <1>2, <3>1, <3>2
  <2> QED BY <1>2, <2>2, <2>3 DEF QueueSound, CopiesSound
<1>10. ASSUME NEW u \in Taps \ raced' PROVE OnceSound(u)'
  <2>1. OnceSound(u)
    BY <1>3 DEF QueueSound
  <2>2. \A c \in copies' : Busy(c) => c \in copies
    BY <1>2 DEF Busy
  <2> QED BY <1>2, <1>3, <2>1, <2>2 DEF OnceSound, Busy, Traced
<1> QED BY <1>6, <1>7, <1>8, <1>9, <1>10 DEF QueueSound

\* The loop after an answer, or after the loss of one: what it takes off the phone
\* has been applied, and it no longer waits.
LEMMA LoopMoves ==
    ASSUME QueueSound, NEW p \in Pages, Waiting(p),
           UNCHANGED <<taps, born, effects, receipts>>,
           raced \subseteq raced', raced' \subseteq Taps,
           \/ AfterError(p)
           \/ /\ effects[sync[p].action] > 0
              /\ store' = store \ {sync[p].action}
              /\ sync' = [sync EXCEPT ![p] = NextAction(p)]
    PROVE  /\ BornSound' /\ LoopsSound' /\ EffectsSound'
           /\ sync' \in [Pages -> [batch: SUBSET Taps, past: SUBSET Taps, action: Taps \cup {NoAction}]]
           /\ store' \subseteq {u \in Taps : taps'[u].state = "queued"}
           /\ \A u \in store' : InBorn(u)'
           /\ \A q \in Pages \ {p} : sync'[q] = sync[q]
<1>1. TypeOK /\ LoopSound(p)
  BY DEF QueueSound, LoopsSound
<1>2. sync[p].action \in Taps /\ taps[sync[p].action].state = "queued"
      /\ sync[p].action \in sync[p].batch /\ sync[p].batch \subseteq Taps /\ sync[p].past \subseteq sync[p].batch
  BY <1>1 DEF LoopSound, TypeOK
<1>3. BornSound'
  BY DEF QueueSound, BornSound, InBorn
<1>4. PICK r : /\ sync' = [sync EXCEPT ![p] = r]
               /\ r = NoSync \/ ( /\ r = [sync[p] EXCEPT !.past = sync[p].past \cup {sync[p].action}, !.action = NoAction]
                                  /\ effects[sync[p].action] > 0)
  BY DEF AfterError, StopSync, NextAction
<1>5. /\ r \in [batch: SUBSET Taps, past: SUBSET Taps, action: Taps \cup {NoAction}]
      /\ r.action = NoAction
      /\ r.batch \subseteq sync[p].batch /\ r.past \subseteq r.batch
      /\ \A t \in r.past : effects[t] > 0
  <2>1. CASE r = NoSync
    BY <2>1 DEF NoSync
  <2>2. CASE /\ r = [sync[p] EXCEPT !.past = sync[p].past \cup {sync[p].action}, !.action = NoAction]
             /\ effects[sync[p].action] > 0
    <3>1. sync[p] \in [batch: SUBSET Taps, past: SUBSET Taps, action: Taps \cup {NoAction}]
      BY <1>1 DEF TypeOK
    <3>2. /\ r.batch = sync[p].batch /\ r.past = sync[p].past \cup {sync[p].action} /\ r.action = NoAction
          /\ r \in [batch: SUBSET Taps, past: SUBSET Taps, action: Taps \cup {NoAction}]
      BY <1>2, <2>2, <3>1
    <3> QED BY <1>1, <1>2, <2>2, <3>2 DEF LoopSound
  <2> QED BY <1>4, <2>1, <2>2
<1>6. /\ sync' \in [Pages -> [batch: SUBSET Taps, past: SUBSET Taps, action: Taps \cup {NoAction}]]
      /\ sync'[p] = r /\ \A q \in Pages \ {p} : sync'[q] = sync[q]
  BY <1>1, <1>4, <1>5 DEF TypeOK
<1>7. LoopsSound'
  <2> SUFFICES ASSUME NEW q \in Pages PROVE LoopSound(q)'
    BY DEF LoopsSound
  <2>1. CASE q = p
    BY <1>1, <1>5, <1>6, <2>1 DEF LoopSound, Waiting
  <2>2. CASE q # p
    BY <1>6, <2>2 DEF QueueSound, LoopsSound, LoopSound, Waiting, Before
  <2> QED BY <2>1, <2>2
<1>8. store' = store \cup {sync[p].action} \/ (store' = store \ {sync[p].action} /\ effects[sync[p].action] > 0)
  BY DEF AfterError, StopSync
<1>9. EffectsSound'
  BY <1>8 DEF QueueSound, EffectsSound
<1>10. \A u \in store' : InBorn(u)'
  BY <1>1, <1>2, <1>8 DEF QueueSound, BornSound, InBorn, TypeOK
<1>11. store' \subseteq {u \in Taps : taps'[u].state = "queued"}
  BY <1>1, <1>2, <1>8 DEF TypeOK
<1> QED BY <1>3, <1>6, <1>7, <1>9, <1>10, <1>11

\* The replay that a loop waits for is the only one of its page.
LEMMA OneReplayPerPage ==
    ASSUME QueueSound, NEW c \in copies, c.id, c.page # "gone"
    PROVE  /\ c.tap = sync[c.page].action
           /\ \A d \in copies : d.id /\ d.page = c.page => d = c
<1>1. \A d \in copies : CopySound(d) /\ d.id \in BOOLEAN
  BY DEF QueueSound, CopiesSound, TypeOK, Copies
<1>2. c.tap = sync[c.page].action
  BY <1>1 DEF CopySound, Owned
<1>3. ASSUME NEW d \in copies, d.id, d.page = c.page PROVE d = c
  <2>1. d.tap = c.tap /\ d.id = c.id
    BY <1>1, <1>2, <1>3 DEF CopySound, Owned
  <2> QED BY <2>1, <1>3 DEF QueueSound, CopiesSound
<1> QED BY <1>2, <1>3

LEMMA ReplayAnsweredSound ==
    ASSUME QueueSound, NEW p \in Pages, ReplayAnswered(p)
    PROVE  QueueSound'
<1>1. PICK c \in copies : /\ c.id /\ c.page = p /\ c.pc \in {"ok", "refused"}
                          /\ copies' = copies \ {c}
                          /\ \/ AfterError(p)
                             \/ /\ c.pc = "ok"
                                /\ store' = store \ {sync[p].action}
                                /\ sync' = [sync EXCEPT ![p] = NextAction(p)]
  BY DEF ReplayAnswered, Deletes
<1>2. TypeOK /\ CopySound(c) /\ p # "gone"
  BY PagesAssumption DEF QueueSound, CopiesSound
<1>3. c.tap = sync[p].action /\ \A d \in copies : d.id /\ d.page = p => d = c
  BY <1>1, <1>2, OneReplayPerPage
<1>4. UNCHANGED <<taps, born, done, effects, receipts, faults, raced>> /\ Waiting(p)
  BY DEF ReplayAnswered, server
<1>5. /\ BornSound' /\ LoopsSound' /\ EffectsSound'
      /\ sync' \in [Pages -> [batch: SUBSET Taps, past: SUBSET Taps, action: Taps \cup {NoAction}]]
      /\ store' \subseteq {u \in Taps : taps'[u].state = "queued"}
      /\ \A u \in store' : InBorn(u)'
      /\ \A q \in Pages \ {p} : sync'[q] = sync[q]
  <2>1. raced \subseteq raced' /\ raced' \subseteq Taps
    BY <1>2, <1>4 DEF TypeOK
  <2>2. c.pc = "ok" => effects[sync[p].action] > 0
    BY <1>2, <1>3 DEF CopySound
  <2> QED BY <1>1, <1>4, <2>1, <2>2, LoopMoves
<1>6. TypeOK'
  BY <1>1, <1>2, <1>4, <1>5 DEF TypeOK, InBorn
<1>7. CopiesSound'
  <2>1. \A d \in copies' : CopySound(d) /\ d \in copies /\ d.page \in Pages \cup {"gone"}
    BY <1>1, <1>2 DEF QueueSound, CopiesSound, TypeOK, Copies
  <2>2. \A d \in copies' : CopySound(d)'
    BY <1>1, <1>3, <1>4, <1>5, <2>1 DEF CopySound, Owned
  <2> QED BY <2>1, <2>2 DEF QueueSound, CopiesSound
<1>8. \A u \in Taps \ raced' : OnceSound(u)'
  BY <1>1, <1>4, EndOnce
<1> QED BY <1>5, <1>6, <1>7, <1>8 DEF QueueSound

LEMMA ReplayLostSound ==
    ASSUME QueueSound, NEW p \in Pages, NEW arrived \in BOOLEAN, ReplayLost(p, arrived)
    PROVE  QueueSound'
<1>1. PICK c \in copies : /\ c.id /\ c.page = p
                          /\ copies' = IF arrived THEN Abandon({c}) ELSE copies \ {c}
                          /\ arrived \/ c.pc = "sent"
  BY DEF ReplayLost
<1>2. TypeOK /\ CopySound(c) /\ p # "gone"
  BY PagesAssumption DEF QueueSound, CopiesSound
<1>3. c.tap = sync[p].action /\ \A d \in copies : d.id /\ d.page = p => d = c
  BY <1>1, <1>2, OneReplayPerPage
<1>4. /\ UNCHANGED <<taps, born, done, effects, receipts, raced>> /\ Waiting(p) /\ AfterError(p)
      /\ faults' \in 0..MaxFaults
  BY <1>2, BoundsAssumption DEF ReplayLost, server, Fault, TypeOK
<1>5. /\ BornSound' /\ LoopsSound' /\ EffectsSound'
      /\ sync' \in [Pages -> [batch: SUBSET Taps, past: SUBSET Taps, action: Taps \cup {NoAction}]]
      /\ store' \subseteq {u \in Taps : taps'[u].state = "queued"}
      /\ \A u \in store' : InBorn(u)'
      /\ \A q \in Pages \ {p} : sync'[q] = sync[q]
  <2>1. raced \subseteq raced' /\ raced' \subseteq Taps
    BY <1>2, <1>4 DEF TypeOK
  <2> QED BY <1>4, <2>1, LoopMoves
<1>6. \A d \in copies' : \/ d \in copies \ {c}
                         \/ /\ d.page = "gone" /\ d.tap = c.tap /\ d.id = c.id /\ d.pc = c.pc
                            /\ c.pc \notin {"ok", "refused"}
  <2>1. CASE arrived
    <3>1. copies' = Abandon({c}) /\ {c} \in SUBSET copies
      BY <1>1, <2>1
    <3> QED BY <1>2, <3>1, Abandoned
  <2>2. CASE ~arrived
    BY <1>1, <2>2
  <2> QED BY <2>1, <2>2
<1>7. TypeOK'
  <2>1. copies' \subseteq Copies
    BY <1>1, <1>2, AbandonedType DEF TypeOK
  <2> QED BY <1>2, <1>4, <1>5, <2>1 DEF TypeOK, InBorn
<1>8. CopiesSound'
  <2>1. ASSUME NEW d \in copies' PROVE CopySound(d)'
    <3>1. CASE d \in copies \ {c}
      <4>1. CopySound(d) /\ d.page \in Pages \cup {"gone"}
        BY <1>2, <3>1 DEF QueueSound, CopiesSound, TypeOK, Copies
      <4> QED BY <1>3, <1>4, <1>5, <3>1, <4>1 DEF CopySound, Owned
    <3>2. CASE d.page = "gone" /\ d.tap = c.tap /\ d.id = c.id /\ d.pc = c.pc
      BY <1>1, <1>2, <1>4, <3>2 DEF CopySound, Owned
    <3> QED BY <1>6, <3>1, <3>2
  <2>2. ASSUME NEW d \in copies', NEW e \in copies', d.page = e.page, d.page # "gone", d.id = e.id, d.tap = e.tap
        PROVE  d = e
    BY <1>6, <2>2 DEF QueueSound, CopiesSound
  <2> QED BY <2>1, <2>2 DEF CopiesSound
<1>9. ASSUME NEW u \in Taps \ raced' PROVE OnceSound(u)'
  <2>1. CASE arrived
    <3>1. raced' = raced \cup Unseen({c})
      BY <1>1, <1>4 DEF Unseen
    <3> QED BY <1>1, <1>4, <2>1, <3>1, AbandonOnce
  <2>2. CASE ~arrived
    BY <1>1, <1>4, <2>2, EndOnce
  <2> QED BY <2>1, <2>2
<1> QED BY <1>5, <1>7, <1>8, <1>9 DEF QueueSound

LEMMA ClosePageSound ==
    ASSUME QueueSound, NEW p \in Pages, ClosePage(p)
    PROVE  QueueSound'
<1> DEFINE mine == {c \in copies : c.page = p}
           busy == {t \in Taps : p = Front /\ taps[t].state \in {"sending", "failed", "saving"}}
<1>1. /\ taps' = [t \in Taps |-> IF t \in busy THEN [taps[t] EXCEPT !.state = "dropped"] ELSE taps[t]]
      /\ copies' = Abandon(mine) /\ raced' = raced \cup Unseen(mine)
      /\ sync' = [sync EXCEPT ![p] = NoSync]
      /\ UNCHANGED <<born, store, done, effects, receipts>> /\ Fault
  BY DEF ClosePage, server
<1>2. TypeOK /\ p # "gone" /\ \A c \in copies : CopySound(c) /\ c.tap \in Taps /\ c.page \in Pages \cup {"gone"}
  BY PagesAssumption DEF QueueSound, CopiesSound, TypeOK, Copies
<1>3. /\ taps' \in [Taps -> [act: Acts \cup {"none"}, state: TapStates]]
      /\ \A t \in busy : taps'[t].state = "dropped" /\ taps'[t].act = taps[t].act
      /\ \A t \in Taps \ busy : taps'[t] = taps[t]
      /\ busy \subseteq Taps /\ \A t \in busy : p = Front /\ taps[t].state \in {"sending", "failed", "saving"}
  <2>1. taps \in [Taps -> [act: Acts \cup {"none"}, state: TapStates]] /\ "dropped" \in TapStates
    BY <1>2 DEF TypeOK, TapStates, Outcomes
  <2>2. \A t \in Taps : [taps[t] EXCEPT !.state = "dropped"] \in [act: Acts \cup {"none"}, state: TapStates]
    BY <2>1
  <2> QED BY <1>1, <2>1, <2>2
<1>4. \A t \in Taps : p = Front /\ taps[t].state = "sending" => t \in busy
  OBVIOUS
<1>5. mine \subseteq copies /\ (\A c \in mine : c.page = p) /\ (\A c \in copies \ mine : c.page # p)
  OBVIOUS
<1> HIDE DEF mine, busy
<1>6. /\ sync' \in [Pages -> [batch: SUBSET Taps, past: SUBSET Taps, action: Taps \cup {NoAction}]]
      /\ sync'[p] = NoSync /\ \A q \in Pages \ {p} : sync'[q] = sync[q]
  BY <1>1, <1>2 DEF TypeOK, NoSync
<1>7. TypeOK'
  <2>1. copies' \subseteq Copies /\ raced' \subseteq Taps
    BY <1>1, <1>2, <1>5, AbandonedType DEF TypeOK
  <2>2. store' \subseteq {u \in Taps : taps'[u].state = "queued"}
    BY <1>1, <1>2, <1>3 DEF TypeOK
  <2>3. faults' \in 0..MaxFaults
    BY <1>1, <1>2, BoundsAssumption DEF Fault, TypeOK
  <2>4. UNCHANGED <<born, store, done, effects, receipts>>
    BY <1>1
  <2> QED BY <1>2, <1>3, <1>6, <2>1, <2>2, <2>3, <2>4 DEF TypeOK
<1>8. BornSound'
  BY <1>1, <1>3 DEF QueueSound, BornSound, InBorn
<1>9. LoopsSound'
  <2> SUFFICES ASSUME NEW q \in Pages PROVE LoopSound(q)'
    BY DEF LoopsSound
  <2>1. CASE q = p
    BY <1>6, <2>1 DEF LoopSound, Waiting, NoSync
  <2>2. CASE q # p
    <3>1. LoopSound(q) /\ sync[q].batch \subseteq Taps
      BY <1>2 DEF QueueSound, LoopsSound, TypeOK
    <3>2. \A t \in sync[q].batch : t \notin busy
      BY <1>3, <3>1 DEF LoopSound
    <3> QED BY <1>1, <1>3, <1>6, <2>2, <3>1, <3>2 DEF LoopSound, Waiting, Before
  <2> QED BY <2>1, <2>2
<1>10. EffectsSound'
  BY <1>1, <1>3 DEF QueueSound, EffectsSound
<1>11. \A d \in copies' : \/ d \in copies \ mine
                          \/ d.page = "gone" /\ \E c \in mine : /\ d.tap = c.tap /\ d.id = c.id /\ d.pc = c.pc
                                                                /\ c.pc \notin {"ok", "refused"}
  BY <1>1, <1>2, <1>5, Abandoned
<1>12. CopiesSound'
  <2>1. ASSUME NEW d \in copies' PROVE CopySound(d)'
    <3>1. CASE d \in copies \ mine
      <4>1. CopySound(d) /\ d.tap \in Taps /\ d.page \in Pages \cup {"gone"} /\ d.page # p
        BY <1>2, <1>5, <3>1
      <4>2. taps[d.tap].state = "queued" => d.tap \notin busy
        BY <1>3
      <4>3. CASE d.page = "gone"
        BY <1>1, <1>3, <4>1, <4>2, <4>3 DEF CopySound, Owned
      <4>4. CASE d.page # "gone" /\ d.id
        BY <1>1, <1>3, <1>6, <4>1, <4>2, <4>4 DEF CopySound, Owned
      <4>5. CASE d.page # "gone" /\ ~d.id
        <5>1. d.page = Front /\ d.tap \notin busy
          BY <1>3, <4>1, <4>5 DEF CopySound, Owned
        <5> QED BY <1>1, <1>3, <4>1, <4>5, <5>1 DEF CopySound, Owned
      <4> QED BY <4>3, <4>4, <4>5
    <3>2. ASSUME NEW c \in mine, d.page = "gone", d.tap = c.tap, d.id = c.id, d.pc = c.pc,
                 c.pc \notin {"ok", "refused"}
          PROVE  CopySound(d)'
      <4>1. CopySound(c) /\ c.tap \in Taps /\ c.page = p
        BY <1>2, <1>5
      <4>2. CASE c.id
        <5>1. c.tap \notin busy
          BY <1>3, <4>1, <4>2 DEF CopySound, Owned
        <5> QED BY <1>1, <1>2, <1>3, <3>2, <4>1, <4>2, <5>1 DEF CopySound, Owned
      <4>3. CASE ~c.id
        <5>1. c.tap \in raced'
          BY <1>1, <3>2, <4>3 DEF Unseen
        <5>2. taps'[c.tap].state # "idle"
          BY <1>2, <1>3, <4>1, <4>3 DEF CopySound, Owned
        <5> QED BY <1>1, <3>2, <4>1, <4>3, <5>1, <5>2 DEF CopySound, Owned
      <4> QED BY <4>2, <4>3
    <3> QED BY <1>11, <3>1, <3>2
  <2>2. ASSUME NEW d \in copies', NEW e \in copies', d.page = e.page, d.page # "gone", d.id = e.id, d.tap = e.tap
        PROVE  d = e
    BY <1>11, <2>2 DEF QueueSound, CopiesSound
  <2> QED BY <2>1, <2>2 DEF CopiesSound
<1>13. ASSUME NEW u \in Taps \ raced' PROVE OnceSound(u)'
  <2>1. taps[u].state = "accepted" => taps'[u].state = "accepted"
    BY <1>3
  <2> QED BY <1>1, <1>5, <2>1, AbandonOnce
<1> QED BY <1>7, <1>8, <1>9, <1>10, <1>12, <1>13 DEF QueueSound

-----------------------------------------------------------------------------
(* The specification                                                         *)

LEMMA QueueSoundStep == QueueSound /\ [Next]_vars => QueueSound'
<1> SUFFICES ASSUME QueueSound, [Next]_vars PROVE QueueSound'
  OBVIOUS
<1>1. CASE UNCHANGED vars
  <2>1. TypeOK' /\ BornSound' /\ LoopsSound' /\ EffectsSound'
    BY <1>1 DEF vars, QueueSound, TypeOK, BornSound, InBorn, LoopsSound, LoopSound, Waiting, Before, EffectsSound
  <2>2. CopiesSound'
    BY <1>1 DEF vars, QueueSound, CopiesSound, CopySound, Owned
  <2>3. \A t \in Taps \ raced' : OnceSound(t)'
    BY <1>1 DEF vars, QueueSound, OnceSound, Traced, Busy
  <2> QED BY <2>1, <2>2, <2>3 DEF QueueSound
<1>2. CASE \E t \in Taps, a \in Acts, signal \in BOOLEAN : Tap(t, a, signal)
  BY <1>2, TapSound
<1>3. CASE \E t \in Taps : TapAnswered(t)
  BY <1>3, TapAnsweredSound
<1>4. CASE \E t \in Taps : TapLost(t)
  BY <1>4, TapLostSound
<1>5. CASE \E t \in Taps : CheckDuplicate(t) \/ PutAction(t)
  BY <1>5, SaveSound
<1>6. CASE \E p \in Pages : StartSync(p)
  BY <1>6, StartSyncSound
<1>7. CASE \E p \in Pages : SendReplay(p)
  BY <1>7, SendReplaySound
<1>8. CASE \E p \in Pages : ReplayAnswered(p)
  BY <1>8, ReplayAnsweredSound
<1>9. CASE \E p \in Pages, arrived \in BOOLEAN : ReplayLost(p, arrived)
  BY <1>9, ReplayLostSound
<1>10. CASE \E c \in copies : LookUp(c)
  BY <1>10, LookUpSound
<1>11. CASE \E c \in copies : Handle(c)
  BY <1>11, HandleSound
<1>12. CASE \E c \in copies, written \in BOOLEAN : Receipt(c, written)
  BY <1>12, ReceiptSound
<1>13. CASE \E c \in copies : ServerFails(c)
  BY <1>13, ServerFailsSound
<1>14. CASE \E p \in Pages : ClosePage(p)
  BY <1>14, ClosePageSound
<1> QED BY <1>1, <1>2, <1>3, <1>4, <1>5, <1>6, <1>7, <1>8, <1>9, <1>10, <1>11, <1>12, <1>13, <1>14 DEF Next

THEOREM QueueSoundAlways == Spec => []QueueSound
<1> QED BY QueueSoundInit, QueueSoundStep, PTL DEF Spec

\* A request that was ignored as a duplicate has one that was saved.
MergedSound ==
    \A t \in Taps : taps[t].state = "merged" =>
        \E u \in Taps \ {t} : taps[u].state = "queued" /\ SamePath(t, u)

\* Only the look for a duplicate ignores a request, and what is saved or ignored
\* stays so.
LEMMA SavedStays ==
    ASSUME QueueSound, Next
    PROVE  /\ \A t \in Taps : taps[t].state \in {"queued", "merged"} => taps'[t] = taps[t]
           /\ \A t \in Taps : taps'[t].state = "merged" =>
                 taps[t].state = "merged" \/ CheckDuplicate(t)
<1>0. taps \in [Taps -> [act: Acts \cup {"none"}, state: TapStates]]
  BY DEF QueueSound, TypeOK
<1>1. ASSUME NEW t \in Taps, NEW a \in Acts, NEW signal \in BOOLEAN, Tap(t, a, signal)
      PROVE  /\ \A u \in Taps : taps[u].state \in {"queued", "merged"} => taps'[u] = taps[u]
             /\ \A u \in Taps : taps'[u].state = "merged" => taps[u].state = "merged"
  <2>1. taps[t].state = "idle" /\ taps'[t].state # "merged"
    BY <1>0, <1>1 DEF Tap
  <2>2. \A u \in Taps \ {t} : taps'[u] = taps[u]
    BY <1>0, <1>1 DEF Tap
  <2> QED BY <2>1, <2>2
<1>2. ASSUME NEW t \in Taps, TapAnswered(t) \/ TapLost(t)
      PROVE  /\ \A u \in Taps : taps[u].state \in {"queued", "merged"} => taps'[u] = taps[u]
             /\ \A u \in Taps : taps'[u].state = "merged" => taps[u].state = "merged"
  <2>1. \E c \in copies : c.tap = t /\ ~c.id /\ c.page # "gone"
    BY <1>2 DEF TapAnswered, TapLost
  <2>2. taps[t].state = "sending"
    BY <2>1 DEF QueueSound, CopiesSound, CopySound, Owned
  <2>3. taps'[t].state \in {"accepted", "rejected", "failed"}
    BY <1>0, <1>2 DEF TapAnswered, TapLost
  <2>4. \A u \in Taps \ {t} : taps'[u] = taps[u]
    BY <1>0, <1>2 DEF TapAnswered, TapLost
  <2> QED BY <2>2, <2>3, <2>4
<1>3. ASSUME NEW t \in Taps, CheckDuplicate(t)
      PROVE  /\ \A u \in Taps : taps[u].state \in {"queued", "merged"} => taps'[u] = taps[u]
             /\ \A u \in Taps : taps'[u].state = "merged" => taps[u].state = "merged" \/ u = t
  BY <1>0, <1>3 DEF CheckDuplicate
<1>4. ASSUME NEW t \in Taps, PutAction(t)
      PROVE  /\ \A u \in Taps : taps[u].state \in {"queued", "merged"} => taps'[u] = taps[u]
             /\ \A u \in Taps : taps'[u].state = "merged" => taps[u].state = "merged"
  BY <1>0, <1>4 DEF PutAction
<1>5. ASSUME NEW p \in Pages, ClosePage(p)
      PROVE  /\ \A u \in Taps : taps[u].state \in {"queued", "merged"} => taps'[u] = taps[u]
             /\ \A u \in Taps : taps'[u].state = "merged" => taps[u].state = "merged"
  BY <1>0, <1>5 DEF ClosePage
<1>6. ASSUME NEW p \in Pages,
             StartSync(p) \/ SendReplay(p) \/ ReplayAnswered(p)
               \/ (\E arrived \in BOOLEAN : ReplayLost(p, arrived))
      PROVE  taps' = taps
  BY <1>6 DEF StartSync, SendReplay, ReplayAnswered, ReplayLost
<1>7. ASSUME NEW c \in copies,
             LookUp(c) \/ Handle(c) \/ (\E written \in BOOLEAN : Receipt(c, written)) \/ ServerFails(c)
      PROVE  taps' = taps
  BY <1>7 DEF LookUp, Handle, Receipt, ServerFails, phone
<1> QED BY <1>1, <1>2, <1>3, <1>4, <1>5, <1>6, <1>7 DEF Next

LEMMA MergedSoundStep == QueueSound /\ MergedSound /\ [Next]_vars => MergedSound'
<1> SUFFICES ASSUME QueueSound, MergedSound, [Next]_vars PROVE MergedSound'
  OBVIOUS
<1>1. CASE UNCHANGED vars
  BY <1>1 DEF vars, MergedSound, SamePath
<1>2. CASE Next
  <2> SUFFICES ASSUME NEW t \in Taps, taps'[t].state = "merged"
               PROVE  \E u \in Taps \ {t} : taps'[u].state = "queued" /\ SamePath(t, u)'
    BY DEF MergedSound
  <2>0. \A u \in Taps : taps[u].state \in {"queued", "merged"} => taps'[u] = taps[u]
    BY <1>2, SavedStays
  <2>1. CASE taps[t].state = "merged"
    <3>1. PICK u \in Taps \ {t} : taps[u].state = "queued" /\ SamePath(t, u)
      BY <2>1 DEF MergedSound
    <3> QED BY <2>0, <2>1, <3>1 DEF SamePath
  <2>2. CASE CheckDuplicate(t)
    <3>0. TypeOK
      BY DEF QueueSound
    <3>1. taps' = [taps EXCEPT ![t].state = IF \E u \in store : SamePath(t, u) THEN "merged" ELSE "saving"]
      BY <2>2 DEF CheckDuplicate
    <3>2. taps[t].state = "failed" /\ taps'[t].act = taps[t].act
      BY <2>2, <3>0, <3>1 DEF CheckDuplicate, TypeOK
    <3>3. PICK u \in store : SamePath(t, u)
      BY <3>0, <3>1 DEF TypeOK
    <3>4. u \in Taps /\ taps[u].state = "queued" /\ u # t
      BY <3>0, <3>2, <3>3 DEF TypeOK
    <3> QED BY <2>0, <3>2, <3>3, <3>4 DEF SamePath
  <2> QED BY <1>2, <2>1, <2>2, SavedStays
<1> QED BY <1>1, <1>2

\* Whenever the driver was told "saved", that request, or the one that it was taken
\* for, waits on the phone or has been applied: for any number of pages, requests,
\* losses, server errors and closed pages (both 202 answers of queueOfflineRequest,
\* deleteAction, client_action_receipts).
THEOREM NothingLostAlways == Spec => []NothingLost
<1>1. Init => MergedSound
  BY DEF Init, MergedSound
<1>2. QueueSound /\ MergedSound => NothingLost
  BY DEF QueueSound, EffectsSound, MergedSound, NothingLost, Kept
<1> QED BY <1>1, <1>2, QueueSoundAlways, MergedSoundStep, PTL DEF Spec

\* The receipts recognise every repetition outside the windows that the code leaves
\* them (idempotent_offline_actions).
THEOREM OnceUnlessRacedAlways == Spec => []OnceUnlessRaced
<1>1. QueueSound => OnceUnlessRaced
  <2> SUFFICES ASSUME QueueSound, NEW t \in Taps, effects[t] > 1, t \notin raced PROVE FALSE
    BY DEF OnceUnlessRaced
  <2> QED BY DEF QueueSound, OnceSound, TypeOK
<1> QED BY <1>1, QueueSoundAlways, PTL

\* A replay never overtakes an earlier action of its batch that has not been applied
\* (the break of syncOfflineQueue's loop).
THEOREM ReplayInOrderAlways == Spec => []ReplayInOrder
<1>1. QueueSound => ReplayInOrder
  BY DEF QueueSound, LoopsSound, LoopSound, ReplayInOrder
<1> QED BY <1>1, QueueSoundAlways, PTL

=============================================================================
