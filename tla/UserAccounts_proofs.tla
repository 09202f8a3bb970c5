-------------------------- MODULE UserAccounts_proofs --------------------------
(***************************************************************************)
(* Proofs about the users and their sessions, for any number of carriers,    *)
(* users, requests at the same time, tabs and calls.                         *)
(*                                                                         *)
(* The masters rest on the row lock of add_master: what a nomination has      *)
(* counted stays true until its commit.  The roles rest on no lock: what a    *)
(* request has checked stays true until something else is committed.          *)
(*                                                                         *)
(* In the session, as long as no commit has written a version that it had     *)
(* read before another's, the version on the account counts the commits, so a *)
(* pair with the same version is of the same count; and what was refused      *)
(* stays refused, since only a commit could accept it again, and that raises  *)
(* the version.                                                               *)
(***************************************************************************)
EXTENDS UserRegistry, UserSessions, FiniteSetTheorems, TLAPS

UserRow == [role: Roles \cup {"none"}, active: BOOLEAN]
MasterRow == [carrier: Carriers \cup {none}, first: BOOLEAN]
ReadRow == [role: Roles \cup {"none"}, master: MasterRow, carrier: Carriers \cup {none}, first: BOOLEAN]
AddRequest == [kind: {"add_master"}, alone: BOOLEAN, user: Users, carrier: Carriers, read: ReadRow]

CreateRequest == [kind: {"create_user"}, alone: BOOLEAN, user: Users, role: Roles,
                  carrier: Carriers \cup {none}]
UpdateRequest == [kind: {"update_user"}, alone: BOOLEAN, user: Users, role: Roles, read: Roles]

Adding(r) == r.kind = "add_master"
Typed(r) ==
    /\ Adding(r) => r \in AddRequest
    /\ r.kind = "create_user" => r \in CreateRequest
    /\ r.kind = "update_user" => r \in UpdateRequest
RequestsTyped == request = [s \in Slots |-> request[s]] /\ \A s \in Slots : Typed(request[s])

RowsTyped ==
    /\ users \in [Users -> UserRow]
    /\ \A u \in Users : users[u].role = "none" => users[u] = NoUser
    /\ carrierUser \in [Users -> Carriers \cup {none}]
    /\ master \in [Users -> MasterRow]
    /\ limit \in [Carriers -> Nat]
    /\ lock \in [Carriers -> Slots \cup {none}]
    /\ RequestsTyped

\* A master is a user of the carrier.
MasterSound(u) ==
    /\ master[u].carrier = none => master[u] = NoMaster
    /\ master[u].carrier # none => Exists(u) /\ carrierUser[u] = master[u].carrier

FirstOf(c, u) == u \in Masters(c) /\ master[u].first
OneFirst(c) ==
    Masters(c) # {} => \E u \in Users : FirstOf(c, u) /\ \A v \in Users : FirstOf(c, v) => v = u

\* What a nomination under way has read still holds: it has the row of its carrier.
Nominating(r, s) ==
    /\ lock[r.carrier] = s /\ Exists(r.user)
    /\ r.read.master = NoMaster =>
          /\ Cardinality(Masters(r.carrier)) < limit[r.carrier]
          /\ r.read.first <=> Masters(r.carrier) = {}
    /\ r.read.master # NoMaster => master[r.user].carrier = r.carrier
    /\ r.read.carrier # none => r.read.carrier = r.carrier /\ carrierUser[r.user] = r.carrier

MastersSound ==
    /\ RowsTyped
    /\ \A u \in Users : MasterSound(u)
    /\ \A c \in Carriers : OneFirst(c)
    /\ \A s \in Slots : Adding(request[s]) => Nominating(request[s], s)

LEMMA MastersSoundInit == Init => MastersSound
<1> SUFFICES ASSUME Init PROVE MastersSound
  OBVIOUS
<1>1. RowsTyped
  <2>1. users \in [Users -> UserRow] /\ \A u \in Users : users[u].role = "none" => users[u] = NoUser
    <3> DEFINE Rows == {NoUser, [role |-> "motorista", active |-> TRUE],
                        [role |-> "auxiliar", active |-> TRUE]}
    <3>0. {"motorista", "auxiliar", "none"} \subseteq Roles \cup {"none"}
      BY DEF Roles, SystemRoles
    <3>1. ASSUME NEW row \in Rows PROVE row \in UserRow /\ (row.role = "none" => row = NoUser)
      <4>1. CASE row = NoUser
        BY <3>0, <4>1 DEF UserRow, NoUser
      <4>2. CASE row = [role |-> "motorista", active |-> TRUE]
        BY <3>0, <4>2 DEF UserRow
      <4>3. CASE row = [role |-> "auxiliar", active |-> TRUE]
        BY <3>0, <4>3 DEF UserRow
      <4> QED BY <4>1, <4>2, <4>3
    <3>2. users \in [Users -> Rows]
      BY DEF Init
    <3> HIDE DEF Rows
    <3> QED BY <3>1, <3>2
  <2>2. limit \in [Carriers -> Nat]
    BY BoundsAssumption DEF Init
  <2>3. RequestsTyped
    BY DEF Init, RequestsTyped, Typed, Adding, Idle
  <2>4. master \in [Users -> MasterRow]
    BY DEF Init, MasterRow, NoMaster
  <2> QED BY <2>1, <2>2, <2>3, <2>4 DEF Init, RowsTyped
<1>2. \A u \in Users : MasterSound(u)
  BY DEF Init, MasterSound, NoMaster
<1>3. \A c \in Carriers : Masters(c) = {}
  BY NoneAssumption DEF Init, Masters, NoMaster
<1>4. \A s \in Slots : ~Adding(request[s])
  BY DEF Init, Adding, Idle
<1> QED BY <1>1, <1>2, <1>3, <1>4 DEF MastersSound, OneFirst

\* A role that is given, or a status that is changed, makes no user disappear.
UsersKept ==
    /\ users' \in [Users -> UserRow]
    /\ \A v \in Users : users'[v].role = "none" => users'[v] = NoUser
    /\ \A v \in Users : Exists(v) => Exists(v)'

LEMMA UsersWritten ==
    ASSUME MastersSound,
           \/ users' = users
           \/ \E u \in Users, active \in BOOLEAN :
                 Exists(u) /\ users' = [users EXCEPT ![u].active = active]
           \/ \E u \in Users, role \in Roles : users' = [users EXCEPT ![u].role = role]
    PROVE  UsersKept
<1>1. CASE users' = users
  BY <1>1 DEF MastersSound, RowsTyped, Exists, UsersKept
<1>2. ASSUME NEW u \in Users, NEW r \in UserRow, r.role # "none", users' = [users EXCEPT ![u] = r]
      PROVE  UsersKept
  <2>1. r # NoUser
    BY <1>2 DEF NoUser
  <2> QED BY <1>2, <2>1 DEF MastersSound, RowsTyped, Exists, UsersKept
<1>3. ASSUME NEW u \in Users, NEW role \in Roles, users' = [users EXCEPT ![u].role = role]
      PROVE  UsersKept
  <2> DEFINE r == [users[u] EXCEPT !.role = role]
  <2>1. role # "none"
    BY DEF Roles, SystemRoles
  <2>2. r \in UserRow /\ r.role = role /\ users' = [users EXCEPT ![u] = r]
    BY <1>3 DEF MastersSound, RowsTyped, UserRow
  <2> HIDE DEF r
  <2> QED BY <1>2, <2>1, <2>2
<1>4. ASSUME NEW u \in Users, NEW active \in BOOLEAN, Exists(u),
             users' = [users EXCEPT ![u].active = active]
      PROVE  UsersKept
  <2> DEFINE r == [users[u] EXCEPT !.active = active]
  <2>1. users[u].role # "none"
    BY <1>4 DEF MastersSound, RowsTyped, Exists
  <2>2. r \in UserRow /\ r.role = users[u].role /\ users' = [users EXCEPT ![u] = r]
    BY <1>4 DEF MastersSound, RowsTyped, UserRow
  <2> HIDE DEF r
  <2> QED BY <1>2, <2>1, <2>2
<1> QED BY <1>1, <1>3, <1>4

\* The request of slot t is no new nomination, nor one changed.
SameNomination(t) ==
    Adding(request'[t]) =>
        /\ Adding(request[t])
        /\ request'[t].user = request[t].user /\ request'[t].carrier = request[t].carrier
        /\ request'[t].read = request[t].read

\* A step that writes no row of a master, of a user that exists or of a limit, and
\* starts or ends no nomination.
LEMMA NothingNominated ==
    ASSUME MastersSound, UNCHANGED <<master, limit, lock>>, RowsTyped',
           \A u \in Users : Exists(u) => Exists(u)' /\ carrierUser'[u] = carrierUser[u],
           \A s \in Slots : SameNomination(s)
    PROVE  MastersSound'
<1>1. \A c : Masters(c)' = Masters(c)
  BY DEF Masters
<1>2. \A u \in Users : MasterSound(u)'
  BY DEF MastersSound, MasterSound
<1>3. \A c \in Carriers : OneFirst(c)'
  BY <1>1 DEF MastersSound, OneFirst, FirstOf
<1>4. ASSUME NEW s \in Slots, Adding(request'[s]) PROVE Nominating(request[s], s)'
  <2>1. Adding(request[s]) /\ Nominating(request[s], s) /\ request[s].user \in Users
    BY <1>4 DEF MastersSound, RowsTyped, RequestsTyped, Typed, AddRequest, SameNomination
  <2> QED BY <1>1, <1>4, <2>1 DEF Nominating, SameNomination
<1> QED BY <1>2, <1>3, <1>4 DEF MastersSound

\* A request that begins, and is no nomination.
LEMMA OthersBegin ==
    ASSUME MastersSound, NEW s \in Slots, NEW r, ~Adding(r), Typed(r), Begin(s, r)
    PROVE  RequestsTyped' /\ \A t \in Slots : SameNomination(t)
<1>1. \A t \in Slots : request'[t] = IF t = s THEN r ELSE request[t]
  BY DEF Begin, MastersSound, RowsTyped, RequestsTyped
<1>2. RequestsTyped'
  BY <1>1 DEF Begin, MastersSound, RowsTyped, RequestsTyped
<1> QED BY <1>1, <1>2 DEF SameNomination

\* What the commit of any request does to the requests of others.
LEMMA OverlappedKept ==
    ASSUME MastersSound, NEW t \in Slots
    PROVE  /\ Typed(Overlapped(t)) /\ Overlapped(t).kind = request[t].kind
           /\ Adding(request[t]) =>
                 /\ Overlapped(t).user = request[t].user /\ Overlapped(t).carrier = request[t].carrier
                 /\ Overlapped(t).read = request[t].read
<1>1. Typed(request[t])
  BY DEF MastersSound, RowsTyped, RequestsTyped
<1>2. CASE request[t] = Idle
  BY <1>2 DEF Overlapped, Adding, Idle, Typed
<1>3. CASE request[t] # Idle
  <2>1. Overlapped(t) = [request[t] EXCEPT !.alone = FALSE]
    BY <1>3 DEF Overlapped
  <2>2. Overlapped(t).kind = request[t].kind
    BY <2>1
  <2>3. CASE Adding(request[t])
    BY <1>1, <2>1, <2>2, <2>3 DEF Typed, Adding, AddRequest
  <2>4. CASE request[t].kind = "create_user"
    BY <1>1, <2>1, <2>2, <2>4 DEF Typed, Adding, CreateRequest
  <2>5. CASE request[t].kind = "update_user"
    BY <1>1, <2>1, <2>2, <2>5 DEF Typed, Adding, UpdateRequest
  <2> QED BY <2>2, <2>3, <2>4, <2>5 DEF Typed, Adding
<1> QED BY <1>2, <1>3

LEMMA EndKept ==
    ASSUME MastersSound, NEW s \in Slots, End(s)
    PROVE  ~Adding(request'[s]) /\ RequestsTyped' /\ \A t \in Slots : SameNomination(t)
<1>1. request' = [t \in Slots |-> IF t = s THEN Idle ELSE Overlapped(t)]
  BY DEF End
<1>2. ~Adding(Idle) /\ Typed(Idle)
  BY DEF Adding, Idle, Typed
<1>3. \A t \in Slots : Typed(request'[t]) /\ SameNomination(t)
  BY <1>1, <1>2, OverlappedKept DEF SameNomination, Adding
<1> QED BY <1>1, <1>2, <1>3 DEF RequestsTyped

LEMMA AtOnceKept ==
    ASSUME MastersSound, AtOnce
    PROVE  RequestsTyped' /\ \A t \in Slots : SameNomination(t)
<1>1. request' = [t \in Slots |-> Overlapped(t)]
  BY DEF AtOnce
<1>2. \A t \in Slots : Typed(request'[t]) /\ SameNomination(t)
  BY <1>1, OverlappedKept DEF SameNomination, Adding
<1> QED BY <1>1, <1>2 DEF RequestsTyped

-----------------------------------------------------------------------------
(* The nomination                                                            *)

LEMMA BeginAddMasterSound ==
    ASSUME MastersSound, NEW s \in Slots, NEW c \in Carriers, NEW u \in Users, BeginAddMaster(s, c, u)
    PROVE  MastersSound'
<1> DEFINE read == [role |-> users[u].role, master |-> master[u],
                    carrier |-> carrierUser[u], first |-> First(c)]
           r == [kind |-> "add_master", alone |-> TRUE, user |-> u, carrier |-> c, read |-> read]
<1>1. /\ lock[c] = none /\ Exists(u) /\ master[u].carrier \in {none, c} /\ carrierUser[u] \in {none, c}
      /\ master[u] = NoMaster => Cardinality(Masters(c)) < limit[c]
      /\ request' = [request EXCEPT ![s] = r] /\ lock' = [lock EXCEPT ![c] = s]
      /\ UNCHANGED <<users, carrierUser, master, limit>>
  BY DEF BeginAddMaster, Begin, RowFree
<1>2. r \in AddRequest
  <2>1. users[u].role \in Roles \cup {"none"} /\ master[u] \in MasterRow
        /\ carrierUser[u] \in Carriers \cup {none}
    BY DEF MastersSound, RowsTyped, UserRow
  <2>2. First(c) \in BOOLEAN
    BY DEF First
  <2> QED BY <2>1, <2>2 DEF AddRequest, ReadRow
<1>3. \A x : Masters(x)' = Masters(x)
  BY <1>1 DEF Masters
<1>4. \A t \in Slots : request'[t] = IF t = s THEN r ELSE request[t]
  BY <1>1 DEF MastersSound, RowsTyped, RequestsTyped
<1>5. RowsTyped'
  <2>1. \A t \in Slots : Typed(request'[t])
    BY <1>2, <1>4 DEF MastersSound, RowsTyped, RequestsTyped, Typed, AddRequest, Adding
  <2>2. RequestsTyped'
    BY <1>1, <2>1 DEF MastersSound, RowsTyped, RequestsTyped
  <2> QED BY <1>1, <2>1, <2>2 DEF MastersSound, RowsTyped
<1>6. \A v \in Users : MasterSound(v)'
  BY <1>1 DEF MastersSound, MasterSound, Exists
<1>7. \A x \in Carriers : OneFirst(x)'
  BY <1>1, <1>3 DEF MastersSound, OneFirst, FirstOf
<1>8. Nominating(request[s], s)'
  <2>0. PICK q : q = request'[s]
    OBVIOUS
  <2>1. q.user = u /\ q.carrier = c /\ q.read.master = master[u] /\ q.read.carrier = carrierUser[u]
        /\ (q.read.first <=> Masters(c) = {})
    <3>1. q = r
      BY <2>0, <1>4
    <3>2. q.user = u /\ q.carrier = c /\ q.read = read
      BY <3>1
    <3>3. read.master = master[u] /\ read.carrier = carrierUser[u] /\ read.first = First(c)
      OBVIOUS
    <3> HIDE DEF read, r
    <3> QED BY <3>2, <3>3 DEF First
  <2>2. lock'[c] = s
    BY <1>1 DEF MastersSound, RowsTyped
  <2>3. Exists(u)'
    BY <1>1 DEF Exists
  <2>4. MasterSound(u)
    BY DEF MastersSound
  <2> QED BY <2>0, <1>1, <1>3, <2>1, <2>2, <2>3, <2>4 DEF Nominating, MasterSound
<1>9. ASSUME NEW t \in Slots, t # s, Adding(request[t]) PROVE Nominating(request[t], t)'
  <2>1. Nominating(request[t], t) /\ request[t].carrier \in Carriers /\ request'[t] = request[t]
    BY <1>4, <1>9 DEF MastersSound, RowsTyped, RequestsTyped, Typed, AddRequest
  <2>2. request[t].carrier # c
    BY <1>1, <1>9, <2>1, NoneAssumption DEF Nominating
  <2>3. lock'[request[t].carrier] = lock[request[t].carrier]
    BY <1>1, <2>1, <2>2 DEF MastersSound, RowsTyped
  <2> QED BY <1>1, <1>3, <2>1, <2>3 DEF Nominating, Exists
<1>10. ASSUME NEW t \in Slots, Adding(request'[t]) PROVE Nominating(request[t], t)'
  BY <1>4, <1>8, <1>9, <1>10
<1> QED BY <1>5, <1>6, <1>7, <1>10 DEF MastersSound

\* What the commit of a nomination writes: one master more, or none.
Nominated(c, u) ==
    /\ \/ /\ master[u] = NoMaster /\ Cardinality(Masters(c)) < limit[c]
          /\ master' = [master EXCEPT ![u] = [carrier |-> c, first |-> (Masters(c) = {})]]
       \/ master[u].carrier = c /\ master' = master
    /\ carrierUser[u] \in {none, c}
    /\ carrierUser' = [carrierUser EXCEPT ![u] = c]

LEMMA CommitAddMasterWrites ==
    ASSUME MastersSound, NEW s \in Slots, CommitAddMaster(s)
    PROVE  \/ Nominated(request[s].carrier, request[s].user)
           \/ UNCHANGED <<master, carrierUser, users>>
<1> DEFINE r == request[s]
<1>1. Adding(r)
  BY DEF CommitAddMaster, Adding
<1>2. r \in AddRequest /\ Nominating(r, s)
  BY <1>1 DEF MastersSound, RowsTyped, RequestsTyped, Typed
<1>3. CASE Unique(r)
  <2>0. carrierUser[r.user] \in {none, r.carrier}
    BY <1>2, <1>3 DEF Unique, Nominating
  <2>1. carrierUser' = [carrierUser EXCEPT ![r.user] = r.carrier]
        /\ master' = IF r.read.master = NoMaster
                     THEN [master EXCEPT ![r.user] = [carrier |-> r.carrier, first |-> r.read.first]]
                     ELSE master
    BY <1>3 DEF CommitAddMaster
  <2>2. CASE r.read.master = NoMaster
    <3>1. master[r.user] = NoMaster /\ Cardinality(Masters(r.carrier)) < limit[r.carrier]
          /\ (r.read.first <=> Masters(r.carrier) = {}) /\ r.read.first \in BOOLEAN
      BY <1>2, <1>3, <2>2 DEF Unique, Nominating, AddRequest, ReadRow
    <3>2. r.read.first = (Masters(r.carrier) = {})
      BY <3>1
    <3> QED BY <2>0, <2>1, <2>2, <3>1, <3>2 DEF Nominated
  <2>3. CASE r.read.master # NoMaster
    BY <1>2, <2>0, <2>1, <2>3 DEF Nominated, Nominating
  <2> QED BY <2>2, <2>3
<1>4. CASE ~Unique(r)
  BY <1>4 DEF CommitAddMaster
<1> QED BY <1>3, <1>4

\* The masters of the carrier gain at most the one nominated, the others' none.
LEMMA NominatedMasters ==
    ASSUME MastersSound, NEW c \in Carriers, NEW u \in Users, Nominated(c, u)
    PROVE  /\ Masters(c)' = Masters(c) \cup {u}
           /\ \A x \in Carriers \ {c} : Masters(x)' = Masters(x)
           /\ \A v \in Users \ {u} : master'[v] = master[v]
<1>1. CASE master[u].carrier = c /\ master' = master
  BY <1>1 DEF Masters
<1>2. CASE /\ master[u] = NoMaster
           /\ master' = [master EXCEPT ![u] = [carrier |-> c, first |-> (Masters(c) = {})]]
  <2>1. master'[u].carrier = c /\ master[u].carrier = none /\ \A v \in Users \ {u} : master'[v] = master[v]
    BY <1>2 DEF MastersSound, RowsTyped, NoMaster
  <2> QED BY <2>1, NoneAssumption DEF Masters
<1> QED BY <1>1, <1>2 DEF Nominated

LEMMA CommitAddMasterSound ==
    ASSUME MastersSound, NEW s \in Slots, CommitAddMaster(s)
    PROVE  MastersSound'
<1>1. Adding(request[s])
  BY DEF CommitAddMaster, Adding
<1>2. request[s] \in AddRequest /\ Nominating(request[s], s)
  BY <1>1 DEF MastersSound, RowsTyped, RequestsTyped, Typed
<1>0. PICK c \in Carriers, u \in Users : c = request[s].carrier /\ u = request[s].user
  BY <1>2 DEF AddRequest
<1>3. Exists(u) /\ lock[c] = s
  BY <1>0, <1>2 DEF Nominating
<1>4. /\ limit' = limit /\ lock' = [lock EXCEPT ![c] = none]
      /\ users' = users \/ users' = [users EXCEPT ![u].role = "gestor_brasil"]
      /\ End(s)
  BY <1>0 DEF CommitAddMaster
<1>5. ~Adding(request'[s]) /\ RequestsTyped' /\ \A t \in Slots : SameNomination(t)
  BY <1>4, EndKept
<1>6. Nominated(c, u) \/ UNCHANGED <<master, carrierUser>>
  BY <1>0, CommitAddMasterWrites
<1>7. UsersKept
  <2>1. "gestor_brasil" \in Roles
    BY DEF Roles, SystemRoles
  <2> QED BY <1>4, <2>1, UsersWritten
<1>8. RowsTyped'
  <2>2. carrierUser' \in [Users -> Carriers \cup {none}] /\ master' \in [Users -> MasterRow]
    <3>1. CASE Nominated(c, u)
      <4>1. [carrier |-> c, first |-> (Masters(c) = {})] \in MasterRow
        BY <1>3 DEF MasterRow
      <4> QED BY <3>1, <4>1, <1>3 DEF Nominated, MastersSound, RowsTyped
    <3>2. CASE UNCHANGED <<master, carrierUser>>
      BY <3>2 DEF MastersSound, RowsTyped
    <3> QED BY <3>1, <3>2, <1>6
  <2>3. lock' \in [Carriers -> Slots \cup {none}] /\ limit' \in [Carriers -> Nat]
    BY <1>4 DEF MastersSound, RowsTyped
  <2> QED BY <2>2, <2>3, <1>5, <1>7 DEF RowsTyped, UsersKept
<1>9. ASSUME NEW v \in Users PROVE MasterSound(v)'
  <2>1. MasterSound(v)
    BY DEF MastersSound
  <2>2. CASE Nominated(c, u) /\ v = u
    <3>1. master'[u].carrier = c /\ carrierUser'[u] = c
      BY <2>2, <1>3 DEF Nominated, MastersSound, RowsTyped
    <3> QED BY <2>2, <3>1, <1>3, <1>7, NoneAssumption DEF MasterSound, UsersKept
  <2>3. CASE Nominated(c, u) /\ v # u
    <3>1. master'[v] = master[v] /\ carrierUser'[v] = carrierUser[v]
      BY <2>3, <1>3 DEF Nominated, MastersSound, RowsTyped
    <3> QED BY <2>1, <3>1, <1>7 DEF MasterSound, UsersKept
  <2>4. CASE UNCHANGED <<master, carrierUser>>
    BY <2>1, <2>4, <1>7 DEF MasterSound, UsersKept
  <2> QED BY <2>2, <2>3, <2>4, <1>6
<1>10. ASSUME NEW x \in Carriers PROVE OneFirst(x)'
  <2>1. OneFirst(x)
    BY DEF MastersSound
  <2>2. CASE master' = master
    BY <2>1, <2>2 DEF OneFirst, FirstOf, Masters
  <2>3. CASE /\ Nominated(c, u) /\ master[u] = NoMaster
             /\ master' = [master EXCEPT ![u] = [carrier |-> c, first |-> (Masters(c) = {})]]
    <3>1. /\ Masters(c)' = Masters(c) \cup {u}
          /\ \A y \in Carriers \ {c} : Masters(y)' = Masters(y)
          /\ \A v \in Users \ {u} : master'[v] = master[v]
      BY <2>3, <1>3, NominatedMasters
    <3>2. master'[u].first <=> Masters(c) = {}
      BY <2>3, <1>3 DEF MastersSound, RowsTyped
    <3>3. CASE x # c
      <4>1. u \notin Masters(x) /\ Masters(x)' = Masters(x)
        BY <2>3, <3>1, <3>3, NoneAssumption DEF Masters, NoMaster
      <4>2. \A v \in Users : FirstOf(x, v)' <=> FirstOf(x, v)
        BY <3>1, <4>1 DEF FirstOf
      <4> QED BY <2>1, <4>1, <4>2 DEF OneFirst
    <3>4. CASE x = c /\ Masters(c) = {}
      <4>1. FirstOf(c, u)' /\ \A v \in Users : FirstOf(c, v)' => v = u
        BY <3>1, <3>2, <3>4 DEF FirstOf
      <4> QED BY <4>1, <3>4, <1>3 DEF OneFirst
    <3>5. CASE x = c /\ Masters(c) # {}
      <4>1. u \notin Masters(c)
        BY <2>3, <1>3, NoneAssumption DEF Masters, NoMaster
      <4>2. \A v \in Users : FirstOf(c, v)' <=> FirstOf(c, v)
        BY <3>1, <3>2, <3>5, <4>1 DEF FirstOf
      <4> QED BY <2>1, <3>5, <4>2 DEF OneFirst
    <3> QED BY <3>3, <3>4, <3>5
  <2> QED BY <2>2, <2>3, <1>6 DEF Nominated
<1>11. ASSUME NEW t \in Slots, Adding(request'[t]) PROVE Nominating(request[t], t)'
  <2>0. PICK q : q = request[t]
    OBVIOUS
  <2>1. t # s /\ Adding(q) /\ request'[t].user = q.user /\ request'[t].carrier = q.carrier
        /\ request'[t].read = q.read
    BY <2>0, <1>5, <1>11 DEF SameNomination
  <2>2. Nominating(q, t) /\ q \in AddRequest
    BY <2>0, <2>1 DEF MastersSound, RowsTyped, RequestsTyped, Typed
  <2>3. q.carrier \in Carriers /\ q.user \in Users /\ q.carrier # c
    BY <2>1, <2>2, <1>3 DEF AddRequest, Nominating
  <2>4. lock'[q.carrier] = t
    BY <1>4, <2>2, <2>3 DEF MastersSound, RowsTyped, Nominating
  <2>5. Masters(q.carrier)' = Masters(q.carrier)
    BY <1>3, <1>6, <2>3, NominatedMasters DEF Masters
  <2>6. master[q.user].carrier = q.carrier => master'[q.user].carrier = q.carrier
    <3>1. CASE Nominated(c, u)
      <4>1. CASE q.user = u
        BY <3>1, <4>1, <2>3, NoneAssumption DEF Nominated, NoMaster
      <4>2. CASE q.user # u
        BY <3>1, <4>2, <2>3, NominatedMasters
      <4> QED BY <4>1, <4>2
    <3> QED BY <3>1, <1>6
  <2>7. carrierUser[q.user] = q.carrier => carrierUser'[q.user] = q.carrier
    <3>1. CASE Nominated(c, u)
      BY <3>1, <1>3, <2>3, NoneAssumption DEF Nominated, MastersSound, RowsTyped
    <3> QED BY <3>1, <1>6
  <2> QED BY <1>4, <1>7, <2>1, <2>2, <2>3, <2>4, <2>5, <2>6, <2>7 DEF Nominating, UsersKept
<1> QED BY <1>8, <1>9, <1>10, <1>11 DEF MastersSound

-----------------------------------------------------------------------------
(* The other requests                                                        *)

LEMMA CommitCreateUserSound ==
    ASSUME MastersSound, NEW s \in Slots, CommitCreateUser(s)
    PROVE  MastersSound'
<1>1. RequestsTyped' /\ \A t \in Slots : SameNomination(t)
  BY EndKept DEF CommitCreateUser
<1>2. UNCHANGED <<master, limit, lock>> /\ request[s].kind = "create_user"
  BY DEF CommitCreateUser
<1>3. RowsTyped' /\ \A u \in Users : Exists(u) => Exists(u)' /\ carrierUser'[u] = carrierUser[u]
  <2>1. CASE Exists(request[s].user)
    <3>1. UNCHANGED <<users, carrierUser>>
      BY <2>1 DEF CommitCreateUser
    <3> QED BY <1>1, <1>2, <3>1 DEF MastersSound, RowsTyped, Exists
  <2>2. CASE ~Exists(request[s].user)
    <3> DEFINE u == request[s].user
               row == [role |-> request[s].role, active |-> TRUE]
    <3>1. users' = [users EXCEPT ![u] = row] /\ carrierUser' = [carrierUser EXCEPT ![u] = request[s].carrier]
      BY <2>2 DEF CommitCreateUser
    <3>2. request[s].role \in Roles /\ request[s].carrier \in Carriers \cup {none}
      BY <1>2 DEF MastersSound, RowsTyped, RequestsTyped, Typed, CreateRequest
    <3>3. row \in UserRow /\ row.role # "none"
      BY <3>2 DEF UserRow, Roles, SystemRoles
    <3> HIDE DEF u, row
    <3>4. \A v \in Users : Exists(v) => users'[v] = users[v] /\ carrierUser'[v] = carrierUser[v]
      BY <2>2, <3>1 DEF MastersSound, RowsTyped, Exists, u
    <3> QED BY <1>1, <1>2, <3>1, <3>2, <3>3, <3>4 DEF MastersSound, RowsTyped, Exists
  <2> QED BY <2>1, <2>2
<1> QED BY <1>1, <1>2, <1>3, NothingNominated

\* Requests that write neither masters nor limits, and of the users only their status
\* or their role.
LEMMA OthersSound ==
    ASSUME MastersSound, UNCHANGED <<master, limit, lock, carrierUser>>,
           RequestsTyped', \A t \in Slots : SameNomination(t), UsersKept
    PROVE  MastersSound'
<1>1. RowsTyped'
  BY DEF MastersSound, RowsTyped, UsersKept
<1> QED BY <1>1, NothingNominated DEF UsersKept

LEMMA CommitUpdateUserSound ==
    ASSUME MastersSound, NEW s \in Slots, CommitUpdateUser(s)
    PROVE  MastersSound'
<1>1. RequestsTyped' /\ \A t \in Slots : SameNomination(t)
  BY EndKept DEF CommitUpdateUser
<1>2. UNCHANGED <<master, limit, lock, carrierUser>> /\ request[s].kind = "update_user"
  BY DEF CommitUpdateUser
<1>3. PICK u \in Users, role \in Roles :
          users' = users \/ users' = [users EXCEPT ![u].role = role]
  BY <1>2 DEF CommitUpdateUser, MastersSound, RowsTyped, RequestsTyped, Typed, UpdateRequest
<1> QED BY <1>1, <1>2, <1>3, UsersWritten, OthersSound

\* update_carrier waits for the row of the carrier: nobody is counting its masters.
LEMMA SetMaxMastersSound ==
    ASSUME MastersSound, NEW c \in Carriers, NEW n \in 1..MaxLimit, SetMaxMasters(c, n)
    PROVE  MastersSound'
<1>1. RequestsTyped' /\ \A t \in Slots : SameNomination(t)
  BY AtOnceKept DEF SetMaxMasters
<1>2. lock[c] = none /\ limit' = [limit EXCEPT ![c] = n]
      /\ UNCHANGED <<users, carrierUser, master, lock>>
  BY DEF SetMaxMasters
<1>3. RowsTyped'
  BY <1>1, <1>2, BoundsAssumption DEF MastersSound, RowsTyped
<1>4. \A u \in Users : MasterSound(u)'
  BY <1>2 DEF MastersSound, MasterSound, Exists
<1>5. \A x : Masters(x)' = Masters(x)
  BY <1>2 DEF Masters
<1>6. \A x \in Carriers : OneFirst(x)'
  BY <1>2, <1>5 DEF MastersSound, OneFirst, FirstOf
<1>7. ASSUME NEW s \in Slots, Adding(request'[s]) PROVE Nominating(request[s], s)'
  <2>1. Adding(request[s]) /\ Nominating(request[s], s) /\ request[s].carrier \in Carriers
    BY <1>1, <1>7 DEF MastersSound, RowsTyped, RequestsTyped, Typed, AddRequest, SameNomination
  <2>2. request[s].carrier # c
    BY <1>2, <2>1, NoneAssumption DEF Nominating
  <2>3. limit'[request[s].carrier] = limit[request[s].carrier]
    BY <1>2, <2>1, <2>2 DEF MastersSound, RowsTyped
  <2> QED BY <1>1, <1>2, <1>5, <1>7, <2>1, <2>3 DEF Nominating, SameNomination, Exists
<1> QED BY <1>3, <1>4, <1>6, <1>7 DEF MastersSound

LEMMA OneRequestSound ==
    ASSUME MastersSound, NEW s \in Slots,
           \/ CommitAddMaster(s) \/ CommitCreateUser(s) \/ CommitUpdateUser(s)
           \/ CommitProfile(s) \/ CommitLinkDriver(s)
    PROVE  MastersSound'
<1>1. CASE CommitAddMaster(s)
  BY <1>1, CommitAddMasterSound
<1>2. CASE CommitCreateUser(s)
  BY <1>2, CommitCreateUserSound
<1>3. CASE CommitUpdateUser(s)
  BY <1>3, CommitUpdateUserSound
<1>4. CASE CommitProfile(s)
  BY <1>4, EndKept, UsersWritten, OthersSound DEF CommitProfile
<1>5. CASE CommitLinkDriver(s)
  BY <1>5, EndKept, UsersWritten, OthersSound DEF CommitLinkDriver
<1> QED BY <1>1, <1>2, <1>3, <1>4, <1>5

\* A request that begins writes nothing; the nomination takes its carrier's row.
LEMMA BeginSound ==
    ASSUME MastersSound, NEW s \in Slots, NEW u \in Users,
           \/ \E c \in Carriers : BeginAddMaster(s, c, u)
           \/ \E role \in Roles, c \in Carriers \cup {none} : BeginCreateUser(s, u, role, c)
           \/ \E role \in Roles : BeginUpdateUser(s, u, role)
           \/ \E d \in Drivers : BeginLinkDriver(s, d, u)
    PROVE  MastersSound'
<1>1. CASE \E c \in Carriers : BeginAddMaster(s, c, u)
  BY <1>1, BeginAddMasterSound
<1>2. ASSUME NEW r, ~Adding(r), Typed(r), Begin(s, r), UNCHANGED <<users, carrierUser, master, limit, lock>>
      PROVE  MastersSound'
  BY <1>2, OthersBegin, UsersWritten, OthersSound
<1>3. ASSUME NEW role \in Roles, NEW c \in Carriers \cup {none}, BeginCreateUser(s, u, role, c)
      PROVE  MastersSound'
  <2> DEFINE r == [kind |-> "create_user", alone |-> TRUE, user |-> u, role |-> role, carrier |-> c]
  <2>1. ~Adding(r) /\ Typed(r)
    BY DEF Adding, Typed, CreateRequest
  <2> HIDE DEF r
  <2> QED BY <1>2, <1>3, <2>1 DEF BeginCreateUser, r
<1>4. ASSUME NEW role \in Roles, BeginUpdateUser(s, u, role) PROVE MastersSound'
  <2> DEFINE r == [kind |-> "update_user", alone |-> TRUE, user |-> u, role |-> role, read |-> users[u].role]
  <2>1. users[u].role \in Roles
    BY <1>4 DEF BeginUpdateUser, Exists, MastersSound, RowsTyped, UserRow
  <2>2. ~Adding(r) /\ Typed(r)
    BY <2>1 DEF Adding, Typed, UpdateRequest
  <2> QED BY <1>2, <1>4, <2>2 DEF BeginUpdateUser
<1>5. ASSUME NEW d \in Drivers, BeginLinkDriver(s, d, u) PROVE MastersSound'
  <2> DEFINE r == [kind |-> "link_driver", alone |-> TRUE, user |-> u, driver |-> d]
  <2>1. ~Adding(r) /\ Typed(r)
    BY DEF Adding, Typed
  <2> QED BY <1>2, <1>5, <2>1 DEF BeginLinkDriver
<1> QED BY <1>1, <1>3, <1>4, <1>5

LEMMA BeginProfileSound ==
    ASSUME MastersSound, NEW s \in Slots, NEW kind \in {"delete_profile", "inactivate_profile"},
           BeginProfile(s, kind)
    PROVE  MastersSound'
<1> DEFINE r == [kind |-> kind, alone |-> TRUE]
<1>1. ~Adding(r) /\ Typed(r)
  BY DEF Adding, Typed
<1> QED BY <1>1, OthersBegin, UsersWritten, OthersSound DEF BeginProfile

LEMMA MastersSoundStep ==
    ASSUME MastersSound, [Next]_vars
    PROVE  MastersSound'
<1>1. ASSUME NEW s \in Slots,
             \/ CommitAddMaster(s) \/ CommitCreateUser(s) \/ CommitUpdateUser(s)
             \/ CommitProfile(s) \/ CommitLinkDriver(s)
      PROVE  MastersSound'
  BY <1>1, OneRequestSound
<1>2. ASSUME NEW s \in Slots, NEW u \in Users,
             \/ \E c \in Carriers : BeginAddMaster(s, c, u)
             \/ \E role \in Roles, c \in Carriers \cup {none} : BeginCreateUser(s, u, role, c)
             \/ \E role \in Roles : BeginUpdateUser(s, u, role)
             \/ \E d \in Drivers : BeginLinkDriver(s, d, u)
      PROVE  MastersSound'
  BY <1>2, BeginSound
<1>3. ASSUME NEW s \in Slots, NEW kind \in {"delete_profile", "inactivate_profile"},
             BeginProfile(s, kind)
      PROVE  MastersSound'
  BY <1>3, BeginProfileSound
<1>4. ASSUME NEW c \in Carriers, NEW n \in 1..MaxLimit, SetMaxMasters(c, n) PROVE MastersSound'
  BY <1>4, SetMaxMastersSound
<1>5. ASSUME NEW u \in Users, RepairDriverAccess(u) PROVE MastersSound'
  <2>1. "motorista" \in Roles
    BY DEF Roles, SystemRoles
  <2>2. UsersKept
    BY <1>5, <2>1, UsersWritten DEF RepairDriverAccess
  <2> QED BY <1>5, <2>2, AtOnceKept, OthersSound DEF RepairDriverAccess
<1>6. ASSUME NEW u \in Users, NEW b \in BOOLEAN, ChangeUserStatus(u, b) PROVE MastersSound'
  <2>1. UsersKept
    BY <1>6, UsersWritten DEF ChangeUserStatus
  <2> QED BY <1>6, <2>1, AtOnceKept, OthersSound DEF ChangeUserStatus
<1>7. ASSUME NEW d \in Drivers, UnlinkDriver(d) PROVE MastersSound'
  BY <1>7, AtOnceKept, UsersWritten, OthersSound DEF UnlinkDriver
<1>8. CASE ActivateProfile
  BY <1>8, AtOnceKept, UsersWritten, OthersSound DEF ActivateProfile
<1>9. CASE UNCHANGED vars
  <2>1. UNCHANGED <<users, carrierUser, master, limit, lock, request>>
    BY <1>9 DEF vars
  <2>2. RequestsTyped' /\ \A t \in Slots : SameNomination(t)
    BY <2>1 DEF MastersSound, RowsTyped, RequestsTyped, SameNomination
  <2> QED BY <2>1, <2>2, UsersWritten, OthersSound
<1> QED BY <1>1, <1>2, <1>3, <1>4, <1>5, <1>6, <1>7, <1>8, <1>9 DEF Next

-----------------------------------------------------------------------------
(* The theorems                                                              *)

LEMMA MastersAlwaysSound == Spec => []MastersSound
<1>1. MastersSound /\ [Next]_vars => MastersSound'
  BY MastersSoundStep
<1> QED BY <1>1, MastersSoundInit, PTL DEF Spec

\* A carrier with masters has exactly one first master, and its masters are its
\* own users, however requests overlap and however many run at the same time.
THEOREM OneFirstMasterAlways == Spec => []OneFirstMaster
<1>1. ASSUME MastersSound PROVE OneFirstMaster
  <2>1. ASSUME NEW c \in Carriers, Masters(c) # {}
        PROVE  Cardinality({u \in Masters(c) : master[u].first}) = 1
    <3>1. PICK u \in Users : FirstOf(c, u) /\ \A v \in Users : FirstOf(c, v) => v = u
      BY <1>1, <2>1 DEF MastersSound, OneFirst
    <3>2. {v \in Masters(c) : master[v].first} = {u}
      BY <3>1 DEF FirstOf, Masters
    <3> QED BY <3>2, FS_Singleton
  <2>2. ASSUME NEW c \in Carriers, NEW u \in Masters(c) PROVE carrierUser[u] = c
    BY <1>1, <2>2, NoneAssumption DEF MastersSound, MasterSound, Masters
  <2> QED BY <2>1, <2>2 DEF OneFirstMaster
<1> QED BY <1>1, MastersAlwaysSound, PTL

LEMMA LimitStepHeld ==
    ASSUME MastersSound, [Next]_vars
    PROVE  LimitStep
<1> SUFFICES ASSUME NEW x \in Carriers, Cardinality(Masters(x)) < Cardinality(Masters(x)')
             PROVE  Cardinality(Masters(x)') <= limit[x]
  BY DEF LimitStep
<1>1. master' # master
  <2>1. CASE master' = master
    <3>1. Masters(x)' = Masters(x)
      BY <2>1 DEF Masters
    <3>2. IsFiniteSet(Masters(x))
      BY BoundsAssumption, FS_Subset DEF Masters
    <3>3. Cardinality(Masters(x)) \in Nat
      BY <3>2, FS_CardinalityType
    <3> QED BY <3>1, <3>3
  <2> QED BY <2>1
<1>2. PICK s \in Slots : CommitAddMaster(s)
  BY <1>1 DEF Next, vars, CommitCreateUser, CommitUpdateUser, CommitProfile, CommitLinkDriver,
              BeginAddMaster, BeginCreateUser, BeginUpdateUser, BeginLinkDriver, BeginProfile,
              SetMaxMasters, RepairDriverAccess, ChangeUserStatus, UnlinkDriver, ActivateProfile
<1>3. PICK c \in Carriers, u \in Users : Nominated(c, u)
  <2>1. Adding(request[s])
    BY <1>2 DEF CommitAddMaster, Adding
  <2>2. request[s].carrier \in Carriers /\ request[s].user \in Users
    BY <2>1 DEF MastersSound, RowsTyped, RequestsTyped, Typed, AddRequest
  <2> QED BY <1>1, <1>2, <2>2, CommitAddMasterWrites
<1>4. Masters(c)' = Masters(c) \cup {u} /\ \A y \in Carriers \ {c} : Masters(y)' = Masters(y)
  BY <1>3, NominatedMasters
<1>5. IsFiniteSet(Masters(x)) /\ Cardinality(Masters(x)) \in Nat
  BY BoundsAssumption, FS_Subset, FS_CardinalityType DEF Masters
<1>6. x = c /\ u \notin Masters(c)
  BY <1>4, <1>5
<1>7. Cardinality(Masters(c)) < limit[c]
  BY <1>1, <1>3 DEF Nominated
<1>8. Cardinality(Masters(c)') = Cardinality(Masters(c)) + 1
  BY <1>4, <1>5, <1>6, FS_AddElement
<1>9. limit[c] \in Nat
  BY DEF MastersSound, RowsTyped
<1> QED BY <1>5, <1>6, <1>7, <1>8, <1>9

\* No step gives a carrier one more master than it may have at that moment: what a
\* nomination counted is still true when it commits.
THEOREM LimitHeldAlways == Spec => LimitHeld
<1>1. MastersSound /\ [Next]_vars => [LimitStep]_vars
  BY LimitStepHeld
<1> QED BY <1>1, MastersAlwaysSound, PTL DEF Spec, LimitHeld

-----------------------------------------------------------------------------
(* The roles                                                                 *)

LinkRequest == [kind: {"link_driver"}, alone: BOOLEAN, user: Users, driver: Drivers]
ProfileRequest == [kind: {"delete_profile", "inactivate_profile"}, alone: BOOLEAN]
TypedToo(r) ==
    /\ r.kind = "link_driver" => r \in LinkRequest
    /\ r.kind \in {"delete_profile", "inactivate_profile"} => r \in ProfileRequest

\* What a request has checked still holds while nothing else was committed.
Checked(r) ==
    /\ r.kind = "create_user" /\ r.alone => RoleExists(r.role)
    /\ r.kind = "update_user" /\ r.alone => RoleExists(r.role) /\ RoleFits(r.user, r.role)
    /\ r.kind = "delete_profile" /\ r.alone => MayDelete
    /\ r.kind = "link_driver" /\ r.alone => MayLink(r.driver, r.user)

RolesSound ==
    /\ profile \in {"active", "inactive", "deleted"}
    /\ access \in [Drivers -> Users \cup {none}]
    /\ \A s \in Slots : TypedToo(request[s]) /\ Checked(request[s])
    /\ RolesFit

LEMMA RolesSoundInit == Init => RolesSound
<1> SUFFICES ASSUME Init PROVE RolesSound
  OBVIOUS
<1>1. TypedToo(Idle) /\ Checked(Idle)
  BY DEF TypedToo, Checked, Idle
<1>2. \A s \in Slots : request[s] = Idle
  BY DEF Init
<1>3. RolesFit
  BY DEF Init, RolesFit
<1> QED BY <1>1, <1>2, <1>3 DEF Init, RolesSound

\* Any commit takes back what the others under way have checked.
LEMMA ChecksTakenBack ==
    ASSUME MastersSound, RolesSound, AtOnce \/ \E s \in Slots : End(s)
    PROVE  \A t \in Slots : TypedToo(request'[t]) /\ Checked(request[t])'
<1> TAKE t \in Slots
<1>1. request'[t] = Idle \/ request'[t] = Overlapped(t)
  BY DEF AtOnce, End
<1>2. CASE request'[t] = Idle
  BY <1>2 DEF TypedToo, Checked, Idle
<1>3. CASE request'[t] # Idle
  <2>1. request[t] # Idle /\ request'[t] = [request[t] EXCEPT !.alone = FALSE]
    BY <1>1, <1>3 DEF Overlapped
  <2>2. request'[t].kind = request[t].kind
    BY <2>1
  <2>3. Typed(request[t]) /\ TypedToo(request[t])
    BY DEF MastersSound, RowsTyped, RequestsTyped, RolesSound
  <2>4. TypedToo(request'[t])
    BY <2>1, <2>2, <2>3 DEF TypedToo, LinkRequest, ProfileRequest
  <2>5. request[t].kind \in {"create_user", "update_user", "delete_profile", "link_driver"}
            => ~request'[t].alone
    BY <2>1, <2>3 DEF Typed, TypedToo, CreateRequest, UpdateRequest, LinkRequest, ProfileRequest
  <2> QED BY <2>2, <2>4, <2>5 DEF Checked
<1> QED BY <1>2, <1>3

\* Writing the row of one user, who is excused, or whose role fits.
LEMMA RoleWritten ==
    ASSUME RolesSound, NEW u \in Users, UNCHANGED <<access, profile>>, crossed \subseteq crossed',
           \A v \in Users \ {u} : users'[v].role = users[v].role,
           \/ u \in crossed'
           \/ users'[u].role = users[u].role
           \/ /\ Linked(u) => users'[u].role = "motorista"
              /\ profile = "deleted" => users'[u].role # "auxiliar"
    PROVE  RolesFit'
<1>1. ASSUME NEW d \in Drivers, access[d] # none, access[d] \notin crossed'
      PROVE  users'[access[d]].role = "motorista" /\ \A e \in Drivers \ {d} : access[e] # access[d]
  <2>1. /\ access[d] \in Users /\ users[access[d]].role = "motorista"
        /\ \A e \in Drivers \ {d} : access[e] # access[d]
    BY <1>1 DEF RolesSound, RolesFit
  <2>2. CASE access[d] = u
    BY <1>1, <2>1, <2>2 DEF Linked
  <2> QED BY <2>1, <2>2
<1>2. ASSUME profile = "deleted", NEW v \in Users, users'[v].role = "auxiliar" PROVE v \in crossed'
  BY <1>2 DEF RolesSound, RolesFit
<1> QED BY <1>1, <1>2 DEF RolesFit

\* A request that begins writes nothing, and has just checked what it needs.
LEMMA RolesBegin ==
    ASSUME MastersSound, RolesSound, NEW s \in Slots, NEW r, Begin(s, r), TypedToo(r), Checked(r),
           UNCHANGED <<profile, users, access, crossed>>
    PROVE  RolesSound'
<1>1. \A t \in Slots : request'[t] = IF t = s THEN r ELSE request[t]
  BY DEF Begin, MastersSound, RowsTyped, RequestsTyped
<1>2. Checked(r)'
  BY DEF Checked, RoleExists, RoleFits, MayDelete, MayLink, InUse, Linked
<1>3. ASSUME NEW t \in Slots PROVE TypedToo(request'[t]) /\ Checked(request[t])'
  <2>1. CASE t = s
    BY <1>1, <1>2, <2>1 DEF Checked, RoleExists, RoleFits, MayDelete, MayLink, InUse, Linked
  <2>2. CASE t # s
    <3>1. request'[t] = request[t] /\ TypedToo(request[t]) /\ Checked(request[t])
      BY <1>1, <2>2 DEF RolesSound
    <3> QED BY <3>1 DEF Checked, RoleExists, RoleFits, MayDelete, MayLink, InUse, Linked
  <2> QED BY <2>1, <2>2
<1>4. RolesFit'
  BY DEF RolesSound, RolesFit
<1> QED BY <1>3, <1>4 DEF RolesSound

LEMMA RolesBeginAny ==
    ASSUME MastersSound, RolesSound, NEW s \in Slots, NEW u \in Users,
           \/ \E c \in Carriers : BeginAddMaster(s, c, u)
           \/ \E role \in Roles, c \in Carriers \cup {none} : BeginCreateUser(s, u, role, c)
           \/ \E role \in Roles : BeginUpdateUser(s, u, role)
           \/ \E d \in Drivers : BeginLinkDriver(s, d, u)
    PROVE  RolesSound'
<1>1. ASSUME NEW c \in Carriers, BeginAddMaster(s, c, u) PROVE RolesSound'
  <2> DEFINE r == [kind |-> "add_master", alone |-> TRUE, user |-> u, carrier |-> c,
                   read |-> [role |-> users[u].role, master |-> master[u],
                             carrier |-> carrierUser[u], first |-> First(c)]]
  <2>1. Begin(s, r) /\ UNCHANGED <<profile, users, access, crossed>>
    BY <1>1 DEF BeginAddMaster
  <2>2. r.kind = "add_master"
    OBVIOUS
  <2> HIDE DEF r
  <2> QED BY <2>1, <2>2, RolesBegin DEF TypedToo, Checked
<1>2. ASSUME NEW role \in Roles, NEW c \in Carriers \cup {none}, BeginCreateUser(s, u, role, c)
      PROVE  RolesSound'
  <2> DEFINE r == [kind |-> "create_user", alone |-> TRUE, user |-> u, role |-> role, carrier |-> c]
  <2>1. Begin(s, r) /\ UNCHANGED <<profile, users, access, crossed>> /\ RoleExists(role)
    BY <1>2 DEF BeginCreateUser
  <2>2. r.kind = "create_user" /\ r.role = role
    OBVIOUS
  <2> HIDE DEF r
  <2> QED BY <2>1, <2>2, RolesBegin DEF TypedToo, Checked
<1>3. ASSUME NEW role \in Roles, BeginUpdateUser(s, u, role) PROVE RolesSound'
  <2> DEFINE r == [kind |-> "update_user", alone |-> TRUE, user |-> u, role |-> role, read |-> users[u].role]
  <2>1. Begin(s, r) /\ UNCHANGED <<profile, users, access, crossed>> /\ RoleExists(role) /\ RoleFits(u, role)
    BY <1>3 DEF BeginUpdateUser
  <2>2. r.kind = "update_user" /\ r.role = role /\ r.user = u
    OBVIOUS
  <2> HIDE DEF r
  <2> QED BY <2>1, <2>2, RolesBegin DEF TypedToo, Checked
<1>4. ASSUME NEW d \in Drivers, BeginLinkDriver(s, d, u) PROVE RolesSound'
  <2> DEFINE r == [kind |-> "link_driver", alone |-> TRUE, user |-> u, driver |-> d]
  <2>1. Begin(s, r) /\ UNCHANGED <<profile, users, access, crossed>> /\ MayLink(d, u)
    BY <1>4 DEF BeginLinkDriver
  <2>2. r.kind = "link_driver" /\ r.driver = d /\ r.user = u /\ r \in LinkRequest
    BY DEF LinkRequest
  <2> HIDE DEF r
  <2> QED BY <2>1, <2>2, RolesBegin DEF TypedToo, Checked
<1> QED BY <1>1, <1>2, <1>3, <1>4

LEMMA RolesBeginProfile ==
    ASSUME MastersSound, RolesSound, NEW s \in Slots,
           NEW kind \in {"delete_profile", "inactivate_profile"}, BeginProfile(s, kind)
    PROVE  RolesSound'
<1> DEFINE r == [kind |-> kind, alone |-> TRUE]
<1>1. /\ Begin(s, r) /\ UNCHANGED <<profile, users, access, crossed>>
      /\ kind = "delete_profile" => MayDelete
  BY DEF BeginProfile
<1>2. r.kind = kind /\ r \in ProfileRequest
  BY DEF ProfileRequest
<1> HIDE DEF r
<1> QED BY <1>1, <1>2, RolesBegin DEF TypedToo, Checked

\* The commits.  Each is excused, or what it has checked still holds.
LEMMA CommitUsersRoles ==
    ASSUME MastersSound, RolesSound, NEW s \in Slots,
           CommitAddMaster(s) \/ CommitCreateUser(s) \/ CommitUpdateUser(s)
    PROVE  RolesSound'
<1> DEFINE r == request[s]
<1>1. /\ Typed(r) /\ Checked(r) /\ users \in [Users -> UserRow]
      /\ UNCHANGED <<access, profile>>
  BY DEF MastersSound, RowsTyped, RequestsTyped, RolesSound, CommitAddMaster, CommitCreateUser,
         CommitUpdateUser
<1>2. \A t \in Slots : TypedToo(request'[t]) /\ Checked(request[t])'
  BY ChecksTakenBack DEF CommitAddMaster, CommitCreateUser, CommitUpdateUser
<1>3. CASE CommitAddMaster(s)
  <2>1. r.user \in Users 
    BY <1>1, <1>3 DEF CommitAddMaster, Typed, Adding, AddRequest
  <2>2. crossed \subseteq crossed'
    BY <1>3 DEF CommitAddMaster
  <2>3. ASSUME users' = users PROVE RolesFit'
    BY <1>1, <2>1, <2>2, <2>3, RoleWritten
  <2>4. ASSUME users' # users PROVE RolesFit'
    <3>1. /\ users' = [users EXCEPT ![r.user].role = "gestor_brasil"]
          /\ crossed' = crossed \cup (IF Linked(r.user) THEN {r.user} ELSE {})
      BY <1>3, <2>4 DEF CommitAddMaster
    <3>2. users'[r.user].role = "gestor_brasil" /\ \A v \in Users \ {r.user} : users'[v].role = users[v].role
      BY <1>1, <2>1, <3>1 DEF UserRow
    <3>3. Linked(r.user) => r.user \in crossed'
      BY <3>1
    <3> HIDE DEF r
    <3> QED BY <1>1, <2>1, <2>2, <3>2, <3>3, RoleWritten
  <2> QED BY <1>1, <1>2, <2>3, <2>4 DEF RolesSound
<1>4. CASE CommitCreateUser(s)
  <2>1. r.kind = "create_user" /\ r \in CreateRequest
    BY <1>1, <1>4 DEF CommitCreateUser, Typed
  <2>2. r.user \in Users /\ r.alone \in BOOLEAN
    BY <2>1 DEF CreateRequest
  <2>3. CASE Exists(r.user)
    <3>1. UNCHANGED <<users, crossed>>
      BY <1>4, <2>3 DEF CommitCreateUser
    <3> QED BY <1>1, <1>2, <2>2, <3>1, RoleWritten DEF RolesSound
  <2>4. CASE ~Exists(r.user)
    <3>1. /\ users' = [users EXCEPT ![r.user] = [role |-> r.role, active |-> TRUE]]
          /\ crossed' = IF r.alone \/ RoleExists(r.role) THEN crossed ELSE crossed \cup {r.user}
      BY <1>4, <2>4 DEF CommitCreateUser, Cross
    <3>2. users'[r.user].role = r.role /\ \A v \in Users \ {r.user} : users'[v].role = users[v].role
      BY <1>1, <2>2, <3>1
    <3>3. r.user \in crossed' \/ RoleExists(r.role)
      BY <1>1, <2>1, <3>1 DEF Checked
    <3>4. crossed \subseteq crossed'
      BY <3>1
    <3>5. Linked(r.user) => r.user \in crossed
      <4>1. users[r.user].role # "motorista"
        BY <2>4 DEF Exists, NoUser
      <4> QED BY <2>2, <4>1, NoneAssumption DEF Linked, RolesSound, RolesFit
    <3>6. RoleExists(r.role) => (profile = "deleted" => r.role # "auxiliar")
      BY DEF RoleExists, SystemRoles
    <3> HIDE DEF r
    <3>7. RolesFit'
      BY <1>1, <2>2, <3>2, <3>3, <3>4, <3>5, <3>6, RoleWritten
    <3> QED BY <1>1, <1>2, <3>7 DEF RolesSound
  <2> QED BY <2>3, <2>4
<1>5. CASE CommitUpdateUser(s)
  <2>1. r.kind = "update_user" /\ r \in UpdateRequest
    BY <1>1, <1>5 DEF CommitUpdateUser, Typed
  <2>2. r.user \in Users /\ r.alone \in BOOLEAN
    BY <2>1 DEF UpdateRequest
  <2>3. /\ users' = IF r.role = r.read THEN users ELSE [users EXCEPT ![r.user].role = r.role]
        /\ crossed' = IF r.alone \/ (RoleExists(r.role) /\ RoleFits(r.user, r.role))
                      THEN crossed ELSE crossed \cup {r.user}
    BY <1>5 DEF CommitUpdateUser, Cross
  <2>4. crossed \subseteq crossed' /\ (r.user \in crossed' \/ (RoleExists(r.role) /\ RoleFits(r.user, r.role)))
    BY <1>1, <2>1, <2>3 DEF Checked
  <2>5. /\ users'[r.user].role = users[r.user].role \/ users'[r.user].role = r.role
        /\ \A v \in Users \ {r.user} : users'[v].role = users[v].role
    BY <1>1, <2>2, <2>3 DEF UserRow
  <2>6. RoleExists(r.role) /\ RoleFits(r.user, r.role) =>
           /\ Linked(r.user) => r.role = "motorista"
           /\ profile = "deleted" => r.role # "auxiliar"
    BY DEF RoleExists, RoleFits, SystemRoles
  <2> HIDE DEF r
  <2>7. RolesFit'
    BY <1>1, <2>2, <2>4, <2>5, <2>6, RoleWritten
  <2> QED BY <1>1, <1>2, <2>7 DEF RolesSound
<1> QED BY <1>3, <1>4, <1>5

LEMMA CommitProfileRoles ==
    ASSUME MastersSound, RolesSound, NEW s \in Slots, CommitProfile(s)
    PROVE  RolesSound'
<1> DEFINE r == request[s]
<1>1. /\ r.kind \in {"delete_profile", "inactivate_profile"} /\ r \in ProfileRequest /\ Checked(r)
      /\ UNCHANGED <<users, access>>
      /\ profile' = IF r.kind = "delete_profile" \/ profile = "deleted" THEN "deleted" ELSE "inactive"
      /\ crossed' = IF r.alone \/ FALSE THEN crossed ELSE crossed \cup {u \in Users : users[u].role = "auxiliar"}
  BY DEF CommitProfile, Cross, RolesSound, TypedToo
<1>2. \A t \in Slots : TypedToo(request'[t]) /\ Checked(request[t])'
  BY ChecksTakenBack DEF CommitProfile
<1>3. crossed \subseteq crossed' /\ profile' \in {"active", "inactive", "deleted"}
  BY <1>1
<1>4. ASSUME profile' = "deleted", NEW u \in Users, users[u].role = "auxiliar" PROVE u \in crossed'
  <2>1. CASE r.alone /\ r.kind = "delete_profile"
    BY <1>1, <1>4, <2>1 DEF Checked, MayDelete, InUse
  <2>2. CASE r.alone /\ r.kind # "delete_profile"
    <3>1. profile = "deleted" /\ crossed' = crossed
      BY <1>1, <1>4, <2>2
    <3> QED BY <1>4, <3>1 DEF RolesSound, RolesFit
  <2>3. CASE ~r.alone
    BY <1>1, <1>4, <2>3
  <2> QED BY <2>1, <2>2, <2>3
<1>5. RolesFit'
  BY <1>1, <1>3, <1>4 DEF RolesSound, RolesFit
<1> QED BY <1>1, <1>2, <1>3, <1>5 DEF RolesSound

LEMMA CommitLinkRoles ==
    ASSUME MastersSound, RolesSound, NEW s \in Slots, CommitLinkDriver(s)
    PROVE  RolesSound'
<1> DEFINE r == request[s]
<1>1. /\ r.kind = "link_driver" /\ r \in LinkRequest /\ Checked(r)
      /\ UNCHANGED <<users, profile>>
      /\ access' = [access EXCEPT ![r.driver] = r.user]
      /\ crossed' = IF r.alone \/ MayLink(r.driver, r.user) THEN crossed ELSE crossed \cup {r.user}
  BY DEF CommitLinkDriver, Cross, RolesSound, TypedToo
<1>2. r.user \in Users /\ r.driver \in Drivers
  BY <1>1 DEF LinkRequest
<1>3. \A t \in Slots : TypedToo(request'[t]) /\ Checked(request[t])'
  BY ChecksTakenBack DEF CommitLinkDriver
<1>4. access' \in [Drivers -> Users \cup {none}] /\ crossed \subseteq crossed'
  BY <1>1, <1>2 DEF RolesSound
<1>5. r.user \in crossed' \/ MayLink(r.driver, r.user)
  BY <1>1 DEF Checked
<1>6. access'[r.driver] = r.user /\ \A d \in Drivers \ {r.driver} : access'[d] = access[d]
  BY <1>1, <1>2 DEF RolesSound
<1> HIDE DEF r
<1>7. ASSUME NEW d \in Drivers, access'[d] # none, access'[d] \notin crossed'
      PROVE  users[access'[d]].role = "motorista" /\ \A e \in Drivers \ {d} : access'[e] # access'[d]
  <2>1. CASE d = r.driver
    BY <1>5, <1>6, <1>7, <2>1 DEF MayLink
  <2>2. CASE d # r.driver
    <3>1. access'[d] = access[d] /\ access[d] \notin crossed
      BY <1>4, <1>6, <1>7, <2>2
    <3>2. users[access[d]].role = "motorista" /\ \A e \in Drivers \ {d} : access[e] # access[d]
      BY <1>7, <3>1 DEF RolesSound, RolesFit
    <3>3. r.user # access[d]
      BY <1>5, <1>7, <2>2, <3>1 DEF MayLink
    <3> QED BY <1>6, <3>1, <3>2, <3>3
  <2> QED BY <2>1, <2>2
<1>8. RolesFit'
  BY <1>1, <1>4, <1>7 DEF RolesSound, RolesFit
<1> QED BY <1>1, <1>3, <1>4, <1>8 DEF RolesSound

\* The requests that are one transaction.
LEMMA AtOnceRoles ==
    ASSUME MastersSound, RolesSound,
           \/ \E c \in Carriers, n \in 1..MaxLimit : SetMaxMasters(c, n)
           \/ \E u \in Users : RepairDriverAccess(u) \/ \E b \in BOOLEAN : ChangeUserStatus(u, b)
           \/ \E d \in Drivers : UnlinkDriver(d)
           \/ ActivateProfile
    PROVE  RolesSound'
<1>1. \A t \in Slots : TypedToo(request'[t]) /\ Checked(request[t])'
  BY ChecksTakenBack DEF SetMaxMasters, RepairDriverAccess, ChangeUserStatus, UnlinkDriver, ActivateProfile
<1>2. users \in [Users -> UserRow]
  BY DEF MastersSound, RowsTyped
<1>3. CASE \E c \in Carriers, n \in 1..MaxLimit : SetMaxMasters(c, n)
  BY <1>1, <1>3 DEF SetMaxMasters, RolesSound, RolesFit
<1>4. ASSUME NEW u \in Users, RepairDriverAccess(u) PROVE RolesSound'
  <2>1. /\ users'[u].role = "motorista" /\ \A v \in Users \ {u} : users'[v].role = users[v].role
        /\ UNCHANGED <<access, profile, crossed>>
    BY <1>2, <1>4 DEF RepairDriverAccess, UserRow
  <2>2. RolesFit'
    BY <2>1, RoleWritten
  <2> QED BY <1>1, <2>1, <2>2 DEF RolesSound
<1>5. ASSUME NEW u \in Users, NEW b \in BOOLEAN, ChangeUserStatus(u, b) PROVE RolesSound'
  <2>1. /\ \A v \in Users : users'[v].role = users[v].role
        /\ UNCHANGED <<access, profile, crossed>>
    BY <1>2, <1>5 DEF ChangeUserStatus, UserRow
  <2>2. RolesFit'
    BY <2>1, RoleWritten
  <2> QED BY <1>1, <2>1, <2>2 DEF RolesSound
<1>6. ASSUME NEW d \in Drivers, UnlinkDriver(d) PROVE RolesSound'
  <2>1. /\ access' = [access EXCEPT ![d] = none] /\ UNCHANGED <<users, profile, crossed>>
    BY <1>6 DEF UnlinkDriver
  <2>2. \A e \in Drivers : access'[e] = none \/ access'[e] = access[e]
    BY <2>1 DEF RolesSound
  <2>3. RolesFit'
    BY <2>1, <2>2 DEF RolesSound, RolesFit
  <2> QED BY <1>1, <2>1, <2>3 DEF RolesSound
<1>7. CASE ActivateProfile
  BY <1>1, <1>7 DEF ActivateProfile, RolesSound, RolesFit
<1> QED BY <1>3, <1>4, <1>5, <1>6, <1>7

LEMMA RolesSoundStep ==
    ASSUME MastersSound, RolesSound, [Next]_vars
    PROVE  RolesSound'
<1>1. CASE UNCHANGED vars
  BY <1>1 DEF vars, RolesSound, RolesFit, Checked, RoleExists, RoleFits, MayDelete, MayLink, InUse, Linked
<1>2. CASE Next
  BY <1>2, CommitUsersRoles, CommitProfileRoles, CommitLinkRoles, RolesBeginAny, RolesBeginProfile, AtOnceRoles
     DEF Next
<1> QED BY <1>1, <1>2

\* A driver's account stays a driver's and one driver's, and nobody keeps a role
\* whose profile is deleted, unless one of the overlaps on record let it happen:
\* what update_user, create_driver and delete_role_profile check holds at their
\* commit as long as nothing was committed between.
THEOREM RolesFitAlways == Spec => []RolesFit
<1>1. MastersSound /\ RolesSound /\ [Next]_vars => RolesSound'
  BY RolesSoundStep
<1>2. RolesSound => RolesFit
  BY DEF RolesSound
<1> QED BY <1>1, <1>2, RolesSoundInit, MastersAlwaysSound, PTL DEF Spec

-----------------------------------------------------------------------------
(* The session of a user                                                    *)

Rows == [active: BOOLEAN, blocked: BOOLEAN, mustChange: BOOLEAN, version: Nat, cut: Nat]
Pairs == [version: Nat, cut: Nat, life: Lives \cup {"none"}]
Forms == {NoForm} \cup [at: {"issued"}, pair: Pairs] \cup [at: {"changing", "orphan"}, read: Rows]

\* The types, without the bounds of the exploration.
SessionTyped ==
    /\ account \in Rows /\ account.version > 0
    /\ office \in {NoRequest} \cup [kind: Kinds, read: Rows]
    /\ store \in Pairs
    /\ calls \in [Calls -> [at: {"idle", "sent", "ok", "unauthorised", "mustChange", "waiting"},
                            pair: Pairs, retried: BOOLEAN]]
    /\ renewal \in [Tabs -> [at: {"none", "sent", "ok", "refused", "itself"}, pair: Pairs]]
    /\ form \in [Tabs -> Forms]
    /\ overtaken \in BOOLEAN

PairSound(a, p) == p.version <= a.version /\ (p.version = 0 \/ p.version = p.cut + 1)

\* Two requests that have read the same version have read the same row.
ReadSound(a, r) == r.version <= a.version /\ (r.version = a.version => r = a)

\* Not accepted, and not to be accepted again.
Spent(a, p) == p.version < a.version \/ ~a.active

CallSound(a, r) ==
    /\ PairSound(a, r.pair)
    /\ r.retried => /\ r.at = "sent" => r.pair.life = "fresh"
                    /\ r.at = "unauthorised" => Spent(a, r.pair)
RenewalSound(a, r) ==
    /\ PairSound(a, r.pair)
    /\ r.at = "ok" => r.pair.life = "fresh"
    /\ r.at = "refused" => r.pair.version = 0 \/ Spent(a, r.pair)
FormSound(a, f) ==
    /\ f.at = "issued" => PairSound(a, f.pair)
    /\ f.at \in {"changing", "orphan"} => ReadSound(a, f.read)

Steady ==
    /\ account.version = account.cut + 1
    /\ account.blocked => ~account.active
    /\ office # NoRequest => ReadSound(account, office.read)
    /\ PairSound(account, store)
    /\ \A c \in Calls : CallSound(account, calls[c])
    /\ \A t \in Tabs : RenewalSound(account, renewal[t])
    /\ \A t \in Tabs : FormSound(account, form[t])

SessionSound == SessionTyped /\ (~overtaken => Steady)

-----------------------------------------------------------------------------

LEMMA Constants == NoPair \in Pairs /\ NoForm \in Forms /\ NoForm.at = "none" /\ NoPair.version = 0
BY DEF NoPair, NoForm, Pairs, Forms, Lives

LEMMA SessionAtStart == SessionInit => SessionSound
<1> SUFFICES ASSUME SessionInit PROVE SessionSound
  OBVIOUS
<1>1. SessionTyped
  <2>1. account \in Rows /\ account.version > 0
    BY DEF SessionInit, Rows
  <2>2. /\ IdleCall \in [at: {"idle", "sent", "ok", "unauthorised", "mustChange", "waiting"},
                         pair: Pairs, retried: BOOLEAN]
        /\ NoRenewal \in [at: {"none", "sent", "ok", "refused", "itself"}, pair: Pairs]
    BY Constants DEF IdleCall, NoRenewal
  <2> QED BY <2>1, <2>2, Constants DEF SessionInit, SessionTyped
<1>2. Steady
  <2>1. PairSound(account, NoPair) /\ FormSound(account, NoForm)
    BY Constants DEF SessionInit, PairSound, FormSound
  <2>2. CallSound(account, IdleCall) /\ RenewalSound(account, NoRenewal)
    BY <2>1 DEF CallSound, RenewalSound, IdleCall, NoRenewal
  <2> QED BY <2>1, <2>2 DEF SessionInit, Steady
<1> QED BY <1>1, <1>2 DEF SessionSound

\* The pair that the server makes out.
LEMMA TokensSound ==
    ASSUME NEW a \in Rows
    PROVE  /\ Tokens(a) \in Pairs /\ Tokens(a).life = "fresh"
           /\ a.version = a.cut + 1 => PairSound(a, Tokens(a))
BY DEF Tokens, Pairs, Rows, Lives, PairSound

-----------------------------------------------------------------------------
(* Commits                                                                  *)

\* A commit raises the version, unless it had read an older one, and then that is
\* on record.
LEMMA CommitRow ==
    ASSUME SessionSound, NEW kind, NEW read \in Rows, Commit(kind, read)
    PROVE  /\ account' \in Rows /\ account'.version > 0 /\ overtaken' \in BOOLEAN
           /\ ~overtaken' =>
                 /\ Steady /\ read.version = account.version
                 /\ account'.version = account.version + 1 /\ account'.version = account'.cut + 1
                 /\ ReadSound(account, read) => (account'.blocked => ~account'.active)
<1>1. account \in Rows /\ account.version \in Nat /\ account.cut \in Nat /\ read.version \in Nat
  BY DEF SessionSound, SessionTyped, Rows
<1>2. account' = Committed(kind, read) /\ overtaken' = (overtaken \/ read.version # account.version)
  BY DEF Commit
<1>3. VersionAfter(kind, read) = read.version + 1 /\ VersionAfter(kind, read) # read.version
  BY <1>1 DEF VersionAfter
<1>4. account'.version = read.version + 1 /\ account'.cut = account.cut + 1
  BY <1>2, <1>3 DEF Committed, Column
<1>5. /\ ActiveAfter(kind, read) \in BOOLEAN /\ BlockedAfter(kind, read) \in BOOLEAN
      /\ MustChangeAfter(kind, read) \in BOOLEAN
  BY DEF ActiveAfter, BlockedAfter, MustChangeAfter, Rows
<1>6. account' \in Rows
  <2>1. \A x, y, z \in BOOLEAN : Column(x, y, z) \in BOOLEAN
    BY DEF Column
  <2>2. Column(VersionAfter(kind, read), read.version, account.version) \in Nat
    BY <1>1, <1>3 DEF Column
  <2>3. /\ read.active \in BOOLEAN /\ read.blocked \in BOOLEAN /\ read.mustChange \in BOOLEAN
        /\ account.active \in BOOLEAN /\ account.blocked \in BOOLEAN /\ account.mustChange \in BOOLEAN
    BY <1>1 DEF Rows
  <2> QED BY <1>1, <1>2, <1>5, <2>1, <2>2, <2>3 DEF Committed, Rows
<1>7. ASSUME ~overtaken' PROVE Steady /\ read.version = account.version
  BY <1>2, <1>7 DEF SessionSound
<1>8. ASSUME ~overtaken', ReadSound(account, read) PROVE account'.blocked => ~account'.active
  <2>1. read = account
    BY <1>7, <1>8 DEF ReadSound
  <2>2. account'.active = ActiveAfter(kind, account) /\ account'.blocked = BlockedAfter(kind, account)
    BY <1>2, <2>1 DEF Committed, Column
  <2>3. account.blocked => ~account.active
    BY <1>7, <1>8 DEF Steady
  <2> QED BY <2>2, <2>3 DEF ActiveAfter, BlockedAfter
<1>9. overtaken' \in BOOLEAN
  BY <1>2
<1> QED BY <1>1, <1>4, <1>6, <1>7, <1>8, <1>9 DEF Steady

\* What was sound is sound after a commit, and no other request has read its row.
LEMMA CommitKeeps ==
    ASSUME NEW a \in Rows, NEW b \in Rows, b.version = a.version + 1
    PROVE  /\ \A p \in Pairs : PairSound(a, p) => PairSound(b, p) /\ Spent(b, p)
           /\ \A r \in Rows : ReadSound(a, r) => ReadSound(b, r)
<1>1. a.version \in Nat /\ \A p \in Pairs : p.version \in Nat
  BY DEF Rows, Pairs
<1>2. \A r \in Rows : r.version \in Nat
  BY DEF Rows
<1> QED BY <1>1, <1>2 DEF PairSound, Spent, ReadSound

LEMMA CommitKeepsAll ==
    ASSUME SessionSound, NEW kind, NEW read \in Rows, Commit(kind, read), ~overtaken'
    PROVE  /\ Steady
           /\ PairSound(account', store)
           /\ \A c \in Calls : CallSound(account', calls[c])
           /\ \A t \in Tabs : RenewalSound(account', renewal[t])
           /\ \A t \in Tabs : FormSound(account', form[t])
           /\ office # NoRequest => ReadSound(account', office.read)
<1>1. SessionTyped /\ Steady /\ account \in Rows /\ account' \in Rows /\ account'.version = account.version + 1
  BY CommitRow DEF SessionSound, SessionTyped
<1>2. PairSound(account', store)
  BY <1>1, CommitKeeps DEF SessionTyped, Steady
<1>3. ASSUME NEW c \in Calls PROVE CallSound(account', calls[c])
  <2>1. calls[c].pair \in Pairs /\ CallSound(account, calls[c])
    BY <1>1 DEF SessionTyped, Steady
  <2> QED BY <1>1, <2>1, CommitKeeps DEF CallSound
<1>4. ASSUME NEW t \in Tabs PROVE RenewalSound(account', renewal[t])
  <2>1. renewal[t].pair \in Pairs /\ RenewalSound(account, renewal[t])
    BY <1>1 DEF SessionTyped, Steady
  <2> QED BY <1>1, <2>1, CommitKeeps DEF RenewalSound
<1>5. ASSUME NEW t \in Tabs PROVE FormSound(account', form[t])
  <2>1. form[t] \in Forms /\ FormSound(account, form[t])
    BY <1>1 DEF SessionTyped, Steady
  <2>2. form[t].at = "issued" => form[t].pair \in Pairs
    BY <2>1 DEF Forms, NoForm
  <2>3. form[t].at \in {"changing", "orphan"} => form[t].read \in Rows
    BY <2>1 DEF Forms, NoForm
  <2> QED BY <1>1, <2>1, <2>2, <2>3, CommitKeeps DEF FormSound
<1>6. office # NoRequest => ReadSound(account', office.read)
  BY <1>1, CommitKeeps DEF SessionTyped, Steady
<1> QED BY <1>1, <1>2, <1>3, <1>4, <1>5, <1>6

LEMMA CommitOfficeSound == ASSUME SessionSound, CommitOffice PROVE SessionSound'
<1>1. office.read \in Rows /\ Commit(office.kind, office.read)
  BY DEF SessionSound, SessionTyped, CommitOffice
<1>2. UNCHANGED <<store, calls, renewal, form>> /\ office' = NoRequest
  BY DEF CommitOffice
<1>3. SessionTyped'
  BY <1>1, <1>2, CommitRow DEF SessionSound, SessionTyped
<1>4. ASSUME ~overtaken' PROVE Steady'
  <2>1. Steady /\ ReadSound(account, office.read)
    BY <1>1, <1>4, CommitRow DEF Steady, CommitOffice
  <2>2. account'.version = account'.cut + 1 /\ (account'.blocked => ~account'.active)
    BY <1>1, <1>4, <2>1, CommitRow
  <2>3. /\ PairSound(account', store)
        /\ \A c \in Calls : CallSound(account', calls[c])
        /\ \A t \in Tabs : RenewalSound(account', renewal[t])
        /\ \A t \in Tabs : FormSound(account', form[t])
    BY <1>1, <1>4, CommitKeepsAll
  <2> QED BY <1>2, <2>2, <2>3 DEF Steady
<1> QED BY <1>3, <1>4 DEF SessionSound

LEMMA CommitChangeSound == ASSUME SessionSound, NEW t \in Tabs, CommitChange(t) PROVE SessionSound'
<1>1. form[t] \in Forms /\ form[t].at \in {"changing", "orphan"} /\ form[t].read \in Rows
      /\ Commit("change", form[t].read)
  BY DEF SessionSound, SessionTyped, CommitChange, Forms, NoForm
<1> DEFINE f == IF form[t].at = "changing" THEN [at |-> "issued", pair |-> Tokens(account')] ELSE NoForm
<1>2. UNCHANGED <<office, store, calls, renewal>> /\ form' = [form EXCEPT ![t] = f]
  BY DEF CommitChange
<1>3. account' \in Rows /\ f \in Forms
  BY <1>1, CommitRow, TokensSound, Constants DEF Forms
<1>4. (f.at = "issued" /\ f.pair = Tokens(account')) \/ f.at = "none"
  BY Constants
<1> HIDE DEF f
<1>5. SessionTyped'
  BY <1>1, <1>2, <1>3, CommitRow DEF SessionSound, SessionTyped
<1>6. ASSUME ~overtaken' PROVE Steady'
  <2>1. Steady /\ ReadSound(account, form[t].read)
    BY <1>1, <1>6, CommitRow DEF Steady, FormSound
  <2>2. account'.version = account'.cut + 1 /\ (account'.blocked => ~account'.active)
    BY <1>1, <1>6, <2>1, CommitRow
  <2>3. /\ PairSound(account', store)
        /\ \A c \in Calls : CallSound(account', calls[c])
        /\ \A u \in Tabs : RenewalSound(account', renewal[u])
        /\ \A u \in Tabs : FormSound(account', form[u])
        /\ office # NoRequest => ReadSound(account', office.read)
    BY <1>1, <1>6, CommitKeepsAll
  <2>4. FormSound(account', f)
    BY <1>3, <1>4, <2>2, TokensSound DEF FormSound
  <2>5. \A u \in Tabs : FormSound(account', form'[u])
    BY <1>2, <2>3, <2>4 DEF SessionSound, SessionTyped
  <2> QED BY <1>2, <2>2, <2>3, <2>5 DEF Steady
<1> QED BY <1>5, <1>6 DEF SessionSound

-----------------------------------------------------------------------------
(* Storage and page                                                         *)

\* A page that is left forgets what it waited for.
LEMMA LeavePageSound ==
    ASSUME SessionSound, NEW t \in Tabs, LeavePage(t), UNCHANGED <<account, office, overtaken>>,
           store' = store \/ store' = NoPair
    PROVE  SessionSound'
<1>1. SessionTyped
  BY DEF SessionSound
<1>2. /\ calls' = [c \in Calls |-> IF TabOf[c] = t THEN IdleCall ELSE calls[c]]
      /\ renewal' = [renewal EXCEPT ![t] = NoRenewal]
      /\ form' = [form EXCEPT ![t] = form'[t]]
      /\ form'[t] = NoForm \/ ( /\ form[t].at \in {"changing", "orphan"}
                                /\ form'[t] = [at |-> "orphan", read |-> form[t].read])
  BY <1>1 DEF LeavePage, SessionTyped
<1>3. form'[t] \in Forms
  BY <1>1, <1>2, Constants DEF SessionTyped, Forms, NoForm
<1>4. SessionTyped'
  BY <1>1, <1>2, <1>3, Constants DEF SessionTyped, IdleCall, NoRenewal
<1>5. ASSUME Steady PROVE Steady'
  <2>1. \A c \in Calls : CallSound(account, calls'[c])
    BY <1>1, <1>2, <1>5 DEF SessionTyped, Rows, Steady, CallSound, PairSound, IdleCall, NoPair
  <2>2. \A u \in Tabs : RenewalSound(account, renewal'[u])
    BY <1>1, <1>2, <1>5 DEF SessionTyped, Rows, Steady, RenewalSound, PairSound, NoRenewal, NoPair
  <2>3. FormSound(account, form'[t])
    BY <1>2, <1>5, Constants DEF Steady, FormSound
  <2>4. \A u \in Tabs : FormSound(account, form'[u])
    BY <1>1, <1>2, <1>5, <2>3 DEF SessionTyped, Steady
  <2>5. PairSound(account, store')
    BY <1>1, <1>5 DEF SessionTyped, Rows, Steady, PairSound, NoPair
  <2> QED BY <1>5, <2>1, <2>2, <2>4, <2>5 DEF Steady
<1> QED BY <1>4, <1>5 DEF SessionSound

LEMMA OfficeAndTimeSound ==
    ASSUME SessionSound, (\E kind \in Kinds : BeginOffice(kind)) \/ Lapse
    PROVE  SessionSound'
<1>1. SessionTyped /\ account \in Rows
  BY DEF SessionSound, SessionTyped
<1>2. ASSUME NEW kind \in Kinds, BeginOffice(kind) PROVE SessionSound'
  <2>1. SessionTyped'
    BY <1>1, <1>2 DEF BeginOffice, SessionTyped
  <2>2. Steady => Steady'
    <3>1. ReadSound(account, account)
      BY <1>1 DEF ReadSound, Rows
    <3>2. office'.read = account
      BY <1>2 DEF BeginOffice
    <3>3. UNCHANGED <<account, store, calls, renewal, form>>
      BY <1>2 DEF BeginOffice
    <3> QED BY <3>1, <3>2, <3>3 DEF Steady
  <2> QED BY <1>2, <2>1, <2>2 DEF SessionSound, BeginOffice
<1>3. CASE Lapse
  <2>1. SessionTyped'
    BY <1>1, <1>3 DEF Lapse, SessionTyped, Pairs, Lives
  <2>2. Steady => PairSound(account, store')
    BY <1>1, <1>3 DEF Lapse, SessionTyped, Pairs, Steady, PairSound
  <2>3. UNCHANGED <<account, office, calls, renewal, form, overtaken>>
    BY <1>3 DEF Lapse
  <2> QED BY <2>1, <2>2, <2>3 DEF SessionSound, Steady
<1> QED BY <1>2, <1>3

LEMMA FormStepSound ==
    ASSUME SessionSound, NEW t \in Tabs,
           Login(t) \/ LoginRefused(t) \/ BeginChange(t) \/ StoreTokens(t) \/ FormLost(t)
    PROVE  SessionSound'
<1>1. SessionTyped /\ account \in Rows
  BY DEF SessionSound, SessionTyped
<1>4. ASSUME NEW f \in Forms, form' = [form EXCEPT ![t] = f],
             UNCHANGED <<account, office, calls, renewal, overtaken>>, store' \in Pairs,
             Steady => FormSound(account, f) /\ PairSound(account, store')
      PROVE  SessionSound'
  <2>1. SessionTyped'
    BY <1>1, <1>4 DEF SessionTyped
  <2>2. Steady => \A u \in Tabs : FormSound(account, form'[u])
    BY <1>1, <1>4 DEF SessionTyped, Steady
  <2> QED BY <1>4, <2>1, <2>2 DEF SessionSound, Steady
<1>5. CASE Login(t)
  <2>1. [at |-> "issued", pair |-> Tokens(account)] \in Forms
    BY <1>1, TokensSound DEF Forms
  <2>2. Steady => FormSound(account, [at |-> "issued", pair |-> Tokens(account)])
    BY <1>1, TokensSound DEF FormSound, Steady
  <2> QED BY <1>1, <1>4, <1>5, <2>1, <2>2 DEF Login, SessionTyped, Steady
<1>6. CASE BeginChange(t)
  <2>1. [at |-> "changing", read |-> account] \in Forms
    BY <1>1 DEF Forms
  <2>2. FormSound(account, [at |-> "changing", read |-> account])
    BY <1>1 DEF FormSound, ReadSound, Rows
  <2> QED BY <1>1, <1>4, <1>6, <2>1, <2>2 DEF BeginChange, SessionTyped, Steady
<1>7. CASE StoreTokens(t) \/ FormLost(t)
  <2>1. FormSound(account, NoForm)
    BY Constants DEF FormSound
  <2>2. form[t] \in Forms /\ form[t].at = "issued"
    BY <1>1, <1>7 DEF SessionTyped, StoreTokens, FormLost
  <2>3. form[t].pair \in Pairs
    BY <2>2 DEF Forms, NoForm
  <2>4. Steady => PairSound(account, form[t].pair) /\ PairSound(account, store)
    BY <2>2 DEF Steady, FormSound
  <2> QED BY <1>1, <1>4, <1>7, <2>1, <2>3, <2>4, Constants DEF StoreTokens, FormLost, SessionTyped
<1>8. CASE LoginRefused(t)
  <2>1. store' = NoPair /\ UNCHANGED <<account, office, calls, renewal, form, overtaken>>
    BY <1>8 DEF LoginRefused
  <2>2. Steady => PairSound(account, NoPair)
    BY <1>1, Constants DEF PairSound, Rows
  <2> QED BY <1>1, <2>1, <2>2, Constants DEF SessionSound, SessionTyped, Steady
<1> QED BY <1>5, <1>6, <1>7, <1>8

-----------------------------------------------------------------------------
(* Calls and renewals                                                       *)

\* Not accepted now, under a version no later than the account's: spent.
LEMMA RefusedIsSpent ==
    ASSUME NEW a \in Rows, NEW p \in Pairs, PairSound(a, p), a.blocked => ~a.active
    PROVE  /\ p.life = "fresh" /\ ~AccessAccepted(a, p) => Spent(a, p)
           /\ ~RefreshAccepted(a, p) => p.version = 0 \/ Spent(a, p)
<1>1. p.version \in Nat /\ a.version \in Nat
  BY DEF Rows, Pairs
<1> QED BY <1>1, Constants DEF AccessAccepted, RefreshAccepted, Spent, PairSound

\* One call and one renewal go on.
LEMMA CallsSound ==
    ASSUME SessionSound,
           calls' \in [Calls -> [at: {"idle", "sent", "ok", "unauthorised", "mustChange", "waiting"},
                                 pair: Pairs, retried: BOOLEAN]],
           renewal' \in [Tabs -> [at: {"none", "sent", "ok", "refused", "itself"}, pair: Pairs]],
           store' \in Pairs, UNCHANGED <<account, office, form, overtaken>>,
           Steady => /\ \A c \in Calls : CallSound(account, calls'[c])
                     /\ \A t \in Tabs : RenewalSound(account, renewal'[t])
                     /\ PairSound(account, store')
    PROVE  SessionSound'
<1>1. SessionTyped'
  BY DEF SessionSound, SessionTyped
<1>2. Steady => Steady'
  BY DEF Steady
<1> QED BY <1>1, <1>2 DEF SessionSound

LEMMA QuietRows ==
    ASSUME NEW a \in Rows
    PROVE  CallSound(a, IdleCall) /\ RenewalSound(a, NoRenewal) /\ PairSound(a, NoPair)
           /\ \A how : CallSound(a, Answered(how))
<1>1. PairSound(a, NoPair)
  BY DEF PairSound, NoPair, Rows
<1> QED BY <1>1 DEF CallSound, RenewalSound, IdleCall, NoRenewal, Answered

LEMMA CallStepSound ==
    ASSUME SessionSound, NEW c \in Calls, Send(c) \/ Answer(c) \/ Settle(c) \/ AwaitRenewal(c)
    PROVE  SessionSound'
<1> DEFINE CallRows == [at: {"idle", "sent", "ok", "unauthorised", "mustChange", "waiting"},
                        pair: Pairs, retried: BOOLEAN]
           RenewalRows == [at: {"none", "sent", "ok", "refused", "itself"}, pair: Pairs]
<1>1. /\ SessionTyped /\ account \in Rows /\ store \in Pairs /\ calls \in [Calls -> CallRows]
      /\ renewal \in [Tabs -> RenewalRows] /\ TabOf[c] \in Tabs /\ NoPair \in Pairs
  BY TabOfAssumption, Constants DEF SessionSound, SessionTyped
<1>2. ASSUME NEW r \in CallRows, calls' = [calls EXCEPT ![c] = r],
             UNCHANGED <<account, office, store, renewal, form, overtaken>>,
             Steady => CallSound(account, r)
      PROVE  SessionSound'
  <2>1. calls' \in [Calls -> CallRows]
    BY <1>1, <1>2
  <2>2. Steady => \A d \in Calls : CallSound(account, calls'[d])
    BY <1>1, <1>2 DEF Steady
  <2> QED BY <1>1, <1>2, <2>1, <2>2, CallsSound DEF Steady
<1>3. CASE Send(c)
  <2> DEFINE r == Sent(store, FALSE)
  <2>1. r \in CallRows /\ (Steady => CallSound(account, r))
    BY <1>1 DEF Sent, CallSound, Steady
  <2> HIDE DEF CallRows, r
  <2>2. calls' = [calls EXCEPT ![c] = r] /\ UNCHANGED <<account, office, store, renewal, form, overtaken>>
    BY <1>3 DEF Send, r
  <2> QED BY <1>2, <2>1, <2>2
<1>4. CASE Answer(c)
  <2> DEFINE r == IF ~AccessAccepted(account, calls[c].pair) THEN [calls[c] EXCEPT !.at = "unauthorised"]
                  ELSE Answered(IF account.mustChange THEN "mustChange" ELSE "ok")
  <2>1. r \in CallRows
    BY <1>1 DEF Answered
  <2>2. ASSUME Steady PROVE CallSound(account, r)
    <3>1. CallSound(account, calls[c]) /\ calls[c] \in CallRows /\ calls[c].at = "sent"
      BY <1>1, <1>4, <2>2 DEF Steady, Answer
    <3>2. CASE AccessAccepted(account, calls[c].pair)
      BY <1>1, <3>2, QuietRows
    <3>3. CASE ~AccessAccepted(account, calls[c].pair)
      <4>1. calls[c].pair.life = "fresh" => Spent(account, calls[c].pair)
        BY <1>1, <2>2, <3>1, <3>3, RefusedIsSpent DEF Steady, CallSound
      <4>2. r = [calls[c] EXCEPT !.at = "unauthorised"]
        BY <3>3
      <4>3. r.pair = calls[c].pair /\ r.retried = calls[c].retried /\ r.at = "unauthorised"
        BY <3>1, <4>2
      <4> HIDE DEF r
      <4> QED BY <3>1, <4>1, <4>3 DEF CallSound
    <3> QED BY <3>2, <3>3
  <2>3. calls' = [calls EXCEPT ![c] = r] /\ UNCHANGED <<account, office, store, renewal, form, overtaken>>
    BY <1>4 DEF Answer
  <2> HIDE DEF CallRows, r
  <2> QED BY <1>2, <2>1, <2>2, <2>3
<1>5. CASE Settle(c)
  <2>1. IdleCall \in CallRows
    BY <1>1 DEF IdleCall
  <2> HIDE DEF CallRows
  <2> QED BY <1>1, <1>2, <1>5, <2>1, QuietRows DEF Settle
<1>6. CASE AwaitRenewal(c)
  <2> DEFINE r == [at |-> "waiting", pair |-> NoPair, retried |-> TRUE]
             n == [at |-> "sent", pair |-> store]
             t == TabOf[c]
  <2>1. r \in CallRows /\ CallSound(account, r) /\ n \in RenewalRows
    BY <1>1, QuietRows DEF CallSound
  <2>2. Steady => RenewalSound(account, n)
    BY DEF Steady, RenewalSound
  <2>3. /\ calls' = [calls EXCEPT ![c] = r]
        /\ renewal' = [renewal EXCEPT ![t] = n] \/ renewal' = renewal
        /\ UNCHANGED <<account, office, store, form, overtaken>>
    BY <1>6 DEF AwaitRenewal
  <2> HIDE DEF r, n
  <2>4. calls' \in [Calls -> CallRows] /\ renewal' \in [Tabs -> RenewalRows]
    BY <1>1, <2>1, <2>3
  <2>5. Steady => /\ \A d \in Calls : CallSound(account, calls'[d])
                  /\ \A u \in Tabs : RenewalSound(account, renewal'[u])
    BY <1>1, <2>1, <2>2, <2>3 DEF Steady
  <2> QED BY <1>1, <2>3, <2>4, <2>5, CallsSound DEF Steady
<1> QED BY <1>3, <1>4, <1>5, <1>6

LEMMA RenewalStepSound ==
    ASSUME SessionSound, NEW t \in Tabs, AnswerRenewal(t) \/ Renewed(t) \/ RenewalLost(t)
    PROVE  SessionSound'
<1> DEFINE CallRows == [at: {"idle", "sent", "ok", "unauthorised", "mustChange", "waiting"},
                        pair: Pairs, retried: BOOLEAN]
           RenewalRows == [at: {"none", "sent", "ok", "refused", "itself"}, pair: Pairs]
<1>1. /\ SessionTyped /\ account \in Rows /\ store \in Pairs /\ calls \in [Calls -> CallRows]
      /\ renewal \in [Tabs -> RenewalRows] /\ renewal[t] \in RenewalRows /\ NoPair \in Pairs
  BY Constants DEF SessionSound, SessionTyped
<1>2. CASE AnswerRenewal(t)
  <2> DEFINE n == IF RefreshAccepted(account, renewal[t].pair)
                  THEN [at |-> "ok", pair |-> Tokens(account)]
                  ELSE [at |-> "refused", pair |-> renewal[t].pair]
  <2>1. n \in RenewalRows
    BY <1>1, TokensSound
  <2>2. ASSUME Steady PROVE RenewalSound(account, n)
    <3>1. PairSound(account, renewal[t].pair)
      BY <2>2 DEF Steady, RenewalSound
    <3>2. CASE RefreshAccepted(account, renewal[t].pair)
      BY <1>1, <2>2, <3>2, TokensSound DEF RenewalSound, Steady
    <3>3. CASE ~RefreshAccepted(account, renewal[t].pair)
      BY <1>1, <2>2, <3>1, <3>3, RefusedIsSpent DEF RenewalSound, Steady
    <3> QED BY <3>2, <3>3
  <2>3. renewal' = [renewal EXCEPT ![t] = n] /\ UNCHANGED <<account, office, store, calls, form, overtaken>>
    BY <1>2 DEF AnswerRenewal
  <2> HIDE DEF n
  <2>4. Steady => \A u \in Tabs : RenewalSound(account, renewal'[u])
    BY <1>1, <2>2, <2>3 DEF Steady
  <2>5. renewal' \in [Tabs -> RenewalRows]
    BY <1>1, <2>1, <2>3
  <2> QED BY <1>1, <2>3, <2>4, <2>5, CallsSound DEF Steady
<1>3. ASSUME renewal' = [renewal EXCEPT ![t] = NoRenewal], NEW r \in CallRows,
             \A c \in Calls : calls'[c] = r \/ calls'[c] = calls[c],
             calls' = [c \in Calls |-> calls'[c]],
             store' \in Pairs, UNCHANGED <<account, office, form, overtaken>>,
             Steady => CallSound(account, r) /\ PairSound(account, store')
      PROVE  SessionSound'
  <2>1. calls' \in [Calls -> CallRows]
    <3>1. \A c \in Calls : calls'[c] \in CallRows
      BY <1>1, <1>3
    <3> HIDE DEF CallRows
    <3> QED BY <1>3, <3>1
  <2>2. renewal' \in [Tabs -> RenewalRows]
    BY <1>1, <1>3 DEF NoRenewal
  <2>3. Steady => /\ \A c \in Calls : CallSound(account, calls'[c])
                  /\ \A u \in Tabs : RenewalSound(account, renewal'[u])
    BY <1>1, <1>3, QuietRows DEF Steady
  <2> QED BY <1>3, <2>1, <2>2, <2>3, CallsSound
<1>4. CASE Renewed(t)
  <2> DEFINE r == Sent(renewal[t].pair, TRUE)
  <2>1. r \in CallRows /\ renewal[t].pair \in Pairs
    BY <1>1 DEF Sent
  <2>2. Steady => CallSound(account, r) /\ PairSound(account, renewal[t].pair)
    BY <1>4 DEF Renewed, Steady, RenewalSound, CallSound, Sent
  <2>3. /\ calls' = [c \in Calls |-> IF c \in Waiting(t) THEN r ELSE calls[c]]
        /\ store' = renewal[t].pair /\ renewal' = [renewal EXCEPT ![t] = NoRenewal]
        /\ UNCHANGED <<account, office, form, overtaken>>
    BY <1>4 DEF Renewed
  <2> HIDE DEF r, CallRows
  <2>4. calls' = [c \in Calls |-> calls'[c]] /\ \A c \in Calls : calls'[c] = r \/ calls'[c] = calls[c]
    BY <2>3
  <2> QED BY <1>3, <2>1, <2>2, <2>3, <2>4
<1>5. CASE RenewalLost(t)
  <2>1. IdleCall \in CallRows
    BY <1>1 DEF IdleCall
  <2>2. /\ calls' = [c \in Calls |-> IF c \in Waiting(t) THEN IdleCall ELSE calls[c]]
        /\ renewal' = [renewal EXCEPT ![t] = NoRenewal]
        /\ UNCHANGED <<account, office, store, form, overtaken>>
    BY <1>5 DEF RenewalLost, KeptWithoutAnswer
  <2> HIDE DEF CallRows
  <2>3. calls' = [c \in Calls |-> calls'[c]] /\ \A c \in Calls : calls'[c] = IdleCall \/ calls'[c] = calls[c]
    BY <2>2
  <2> QED BY <1>1, <1>3, <2>1, <2>2, <2>3, QuietRows DEF Steady
<1> QED BY <1>2, <1>4, <1>5

-----------------------------------------------------------------------------
(* The specification                                                        *)

\* canRefresh keeps the renewal's own refusal out: it ends the session.
LEMMA NotRenewedClears ==
    ASSUME NEW t \in Tabs, NotRenewed(t)
    PROVE  ClearSession(t, ByRefusal(renewal[t].pair)) /\ UNCHANGED <<account, office, overtaken>>
BY DEF NotRenewed, MayRefresh

LEMMA SessionStep == SessionSound /\ [SessionNext]_sessionVars => SessionSound'
<1> SUFFICES ASSUME SessionSound, [SessionNext]_sessionVars PROVE SessionSound'
  OBVIOUS
<1>1. CASE UNCHANGED sessionVars
  BY <1>1 DEF sessionVars, SessionSound, SessionTyped, Steady
<1>2. CASE (\E kind \in Kinds : BeginOffice(kind)) \/ Lapse
  BY <1>2, OfficeAndTimeSound
<1>3. CASE CommitOffice
  BY <1>3, CommitOfficeSound
<1>5. ASSUME NEW t \in Tabs, Login(t) \/ LoginRefused(t) \/ BeginChange(t) \/ StoreTokens(t) \/ FormLost(t)
      PROVE  SessionSound'
  BY <1>5, FormStepSound
<1>6. ASSUME NEW t \in Tabs, CommitChange(t) PROVE SessionSound'
  BY <1>6, CommitChangeSound
<1>7. ASSUME NEW t \in Tabs, Logout(t) \/ NotRenewed(t) PROVE SessionSound'
  BY <1>7, LeavePageSound, NotRenewedClears DEF Logout, ClearSession
<1>8. ASSUME NEW t \in Tabs, AnswerRenewal(t) \/ Renewed(t) \/ RenewalLost(t) PROVE SessionSound'
  BY <1>8, RenewalStepSound
<1>9. ASSUME NEW c \in Calls, ToChangePassword(c) \/ EndSession(c) PROVE SessionSound'
  <2>1. TabOf[c] \in Tabs
    BY TabOfAssumption
  <2> QED BY <1>9, <2>1, LeavePageSound DEF ToChangePassword, EndSession, ClearSession
<1>10. ASSUME NEW c \in Calls, Send(c) \/ Answer(c) \/ Settle(c) \/ AwaitRenewal(c) PROVE SessionSound'
  BY <1>10, CallStepSound
<1> QED BY <1>1, <1>2, <1>3, <1>5, <1>6, <1>7, <1>8, <1>9, <1>10
        DEF SessionNext, CallStep, RenewalStep

THEOREM SessionSoundAlways == SessionSpec => []SessionSound
<1> QED BY SessionAtStart, SessionStep, PTL DEF SessionSpec

\* A pair issued before the last reset, change of password or of situation is never
\* again one the server takes, unless two such requests overlapped (the version
\* check of deps.py and of refresh).
THEOREM OldPairsRefusedAlways == SessionSpec => []OldPairsRefused
<1>1. ASSUME SessionSound, ~overtaken, NEW p \in Held, p.version = account.version
      PROVE  p.cut = account.cut
  <2>1. SessionTyped /\ Steady
    BY <1>1 DEF SessionSound
  <2>2. p \in Pairs /\ PairSound(account, p)
    <3>1. CASE p = store
      BY <2>1, <3>1 DEF SessionTyped, Steady
    <3>2. CASE \E c \in Calls : p = calls[c].pair
      BY <2>1, <3>2 DEF SessionTyped, Steady, CallSound
    <3>3. CASE \E t \in Tabs : p = renewal[t].pair
      BY <2>1, <3>3 DEF SessionTyped, Steady, RenewalSound
    <3>4. ASSUME NEW t \in Tabs, form[t].at = "issued", p = form[t].pair PROVE p \in Pairs /\ PairSound(account, p)
      BY <2>1, <3>4 DEF SessionTyped, Forms, NoForm, Steady, FormSound
    <3> QED BY <1>1, <3>1, <3>2, <3>3, <3>4 DEF Held
  <2>3. /\ p.version \in Nat /\ p.cut \in Nat /\ account.cut \in Nat /\ account.version > 0
        /\ p.version = 0 \/ p.version = p.cut + 1
        /\ account.version = account.cut + 1
    BY <2>1, <2>2 DEF PairSound, Steady, SessionTyped, Rows, Pairs
  <2> QED BY <1>1, <2>3
<1>2. SessionSound => OldPairsRefused
  BY <1>1 DEF OldPairsRefused
<1> QED BY <1>2, SessionSoundAlways, PTL

\* The interceptor throws away only sessions that the server would no longer renew,
\* that another tab has stored meanwhile, or that a refused login form throws away (the
\* last lines of api.ts).
THEOREM SessionEndedOnlyWhenRefusedAlways == SessionSpec => SessionEndedOnlyWhenRefused
<1> DEFINE Excused == \/ ended'.by \in {"user", "form"}
                      \/ ended'.version # store.version
                      \/ ~RefreshAccepted(account, store)
                      \/ overtaken
<1>1. ASSUME SessionSound, SessionNext, store # NoPair, store' = NoPair PROVE Excused
  <2> SUFFICES ASSUME ~overtaken, ended'.by \notin {"user", "form"}, ended'.version = store.version
               PROVE  ~RefreshAccepted(account, store)
    OBVIOUS
  <2>1. SessionTyped /\ Steady
    BY <1>1 DEF SessionSound
  <2>2. account.version \in Nat
    BY <2>1 DEF SessionTyped, Rows
  <2>3. ASSUME NEW c \in Calls, EndSession(c) PROVE ~RefreshAccepted(account, store)
    <3>1. calls[c].at = "unauthorised" /\ calls[c].retried /\ store.version = calls[c].pair.version
      BY <1>1, <2>3 DEF EndSession, ClearSession, MayRefresh, ByRefusal
    <3>2. Spent(account, calls[c].pair) /\ calls[c].pair.version \in Nat
      BY <2>1, <3>1 DEF Steady, CallSound, SessionTyped, Pairs
    <3> QED BY <2>2, <3>1, <3>2 DEF Spent, RefreshAccepted
  <2>4. ASSUME NEW t \in Tabs, NotRenewed(t) PROVE ~RefreshAccepted(account, store)
    <3>3. ended' = ByRefusal(renewal[t].pair)
      BY <2>4, NotRenewedClears DEF ClearSession
    <3>1. renewal[t].at = "refused" /\ store.version = renewal[t].pair.version
      BY <2>4, <3>3 DEF NotRenewed, ByRefusal
    <3>2. /\ renewal[t].pair.version = 0 \/ Spent(account, renewal[t].pair)
          /\ renewal[t].pair.version \in Nat /\ account.version > 0
      BY <2>1, <2>4, <3>1 DEF Steady, RenewalSound, SessionTyped, Pairs
    <3> QED BY <2>2, <3>1, <3>2 DEF Spent, RefreshAccepted
  <2>5. ~(\E kind \in Kinds : BeginOffice(kind)) /\ ~CommitOffice /\ ~Lapse
    BY <1>1, <2>1 DEF BeginOffice, CommitOffice, Lapse, NoPair, SessionTyped, Pairs
  <2>6. \A t \in Tabs : ~Logout(t) /\ ~LoginRefused(t)
    BY DEF Logout, ClearSession, LoginRefused, ByUser, ByForm
  <2>7. \A t \in Tabs : ~Login(t) /\ ~BeginChange(t) /\ ~CommitChange(t) /\ ~FormLost(t)
    BY <1>1 DEF Login, BeginChange, CommitChange, FormLost
  <2>10. \A t \in Tabs : ~AnswerRenewal(t) /\ ~RenewalLost(t)
    <3>1. store' # store
      BY <1>1
    <3>2. \A t \in Tabs : RenewalLost(t) => store' = store
      BY DEF RenewalLost, KeptWithoutAnswer
    <3>3. \A t \in Tabs : AnswerRenewal(t) => store' = store
      BY DEF AnswerRenewal
    <3> QED BY <3>1, <3>2, <3>3
  <2>8. \A t \in Tabs : ~StoreTokens(t) /\ ~Renewed(t)
    <3>1. ended' # ByUser
      BY DEF ByUser
    <3> QED BY <3>1 DEF StoreTokens, Renewed
  <2>9. \A c \in Calls : ~Send(c) /\ ~Answer(c) /\ ~Settle(c) /\ ~ToChangePassword(c) /\ ~AwaitRenewal(c)
    BY <1>1 DEF Send, Answer, Settle, ToChangePassword, AwaitRenewal
  <2> QED BY <1>1, <2>3, <2>4, <2>5, <2>6, <2>7, <2>8, <2>9, <2>10 DEF SessionNext, CallStep, RenewalStep
<1> HIDE DEF Excused
<1>2. ASSUME SessionSound, [SessionNext]_sessionVars
      PROVE  [store # NoPair /\ store' = NoPair => Excused]_sessionVars
  BY <1>1, <1>2
<1> USE DEF Excused
<1> QED BY <1>2, SessionSoundAlways, PTL DEF SessionSpec, SessionEndedOnlyWhenRefused

=============================================================================
