----------------------------- MODULE UserRegistry -----------------------------
(***************************************************************************)
(* Who the users are: their role profiles, the carrier they work for, the   *)
(* masters of a carrier and how many it may have, and the account a driver  *)
(* signs in with.  Every request checks the tables, works on (a password is *)
(* hashed, a form validated) and then commits; only add_master locks a row. *)
(***************************************************************************)
EXTENDS Naturals, FiniteSets

CONSTANTS
    Carriers, Users, Drivers,
    Slots,       \* requests that may run at the same time
    MaxLimit,    \* bound: the masters a carrier may be allowed
    MaxRequests, \* bound: requests made
    none         \* no carrier, no user

ASSUME NoneAssumption == none \notin Carriers \cup Users \cup Slots
ASSUME BoundsAssumption == IsFiniteSet(Users) /\ MaxLimit \in Nat /\ MaxRequests \in Nat

VARIABLES
    profile,   \* role_profiles: what became of the only one that is no system profile
    users,     \* users
    carrierUser,   \* carrier_users: the carrier of a user
    master,    \* carrier_masters: of which carrier, and whether its first
    limit,     \* carriers.max_masters, or the default of its company
    access,    \* drivers.user_id
    lock,      \* carriers row locked by SELECT ... FOR UPDATE
    request,   \* per slot: the request under way and what it has read
    made,      \* history: requests made so far
    crossed    \* history: users for whom a request's checks no longer held when it
               \* committed, after another's commit, and drivers made masters

vars == <<profile, users, carrierUser, master, limit, access, lock, request, made, crossed>>

\* "auxiliar" stands for a profile made by the administrator.
SystemRoles == {"motorista", "gestor_brasil"}
Roles == SystemRoles \cup {"auxiliar"}
NoUser == [role |-> "none", active |-> FALSE]
NoMaster == [carrier |-> none, first |-> FALSE]
Idle == [kind |-> "none"]

Reads == [role: Roles, master: [carrier: Carriers \cup {none}, first: BOOLEAN],
          carrier: Carriers \cup {none}, first: BOOLEAN]
RequestTypes ==
    {Idle}
    \cup [kind: {"add_master"}, alone: BOOLEAN, user: Users, carrier: Carriers, read: Reads]
    \cup [kind: {"update_user"}, alone: BOOLEAN, user: Users, role: Roles, read: Roles]
    \cup [kind: {"create_user"}, alone: BOOLEAN, user: Users, role: Roles, carrier: Carriers \cup {none}]
    \cup [kind: {"link_driver"}, alone: BOOLEAN, user: Users, driver: Drivers]
    \cup [kind: {"delete_profile", "inactivate_profile"}, alone: BOOLEAN]

TypeOK ==
    /\ profile \in {"active", "inactive", "deleted"}
    /\ users \in [Users -> {NoUser} \cup [role: Roles, active: BOOLEAN]]
    /\ carrierUser \in [Users -> Carriers \cup {none}]
    /\ master \in [Users -> [carrier: Carriers \cup {none}, first: BOOLEAN]]
    /\ limit \in [Carriers -> 1..MaxLimit]
    /\ access \in [Drivers -> Users \cup {none}]
    /\ lock \in [Carriers -> Slots \cup {none}]
    /\ request \in [Slots -> RequestTypes]
    /\ made \in 0..MaxRequests /\ crossed \subseteq Users

Init ==
    /\ profile = "active"
    /\ users \in [Users -> {NoUser, [role |-> "motorista", active |-> TRUE],
                            [role |-> "auxiliar", active |-> TRUE]}]
    /\ carrierUser = [u \in Users |-> none]
    /\ master = [u \in Users |-> NoMaster]
    /\ limit \in [Carriers -> 1..MaxLimit]
    /\ access = [d \in Drivers |-> none]
    /\ lock = [c \in Carriers |-> none]
    /\ request = [s \in Slots |-> Idle]
    /\ made = 0 /\ crossed = {}

-----------------------------------------------------------------------------
(* What the requests read                                                  *)

Exists(u) == users[u] # NoUser
Masters(c) == {u \in Users : master[u].carrier = c}
Linked(u) == \E d \in Drivers : access[d] = u
InUse(us) == \E u \in us : users[u].role = "auxiliar"
ActiveUsers == {u \in Users : users[u].active}

\* _ensure_role_exists
RoleExists(role) == role \in SystemRoles \/ profile = "active"

\* Variant: the link with a driver is not looked at.
RoleFits_Any(u, role) == TRUE

\* update_user: the account of a driver stays a driver's.
RoleFits(u, role) == Linked(u) => role = "motorista"

\* _validate_linked_user
MayLink(d, u) ==
    /\ users[u].role = "motorista"
    /\ \A e \in Drivers \ {d} : access[e] # u

\* delete_role_profile, update_role_profile
MayDelete == ~InUse(Users)
MayInactivate == ~InUse(ActiveUsers)

Begin(s, req) ==
    /\ request[s] = Idle /\ made < MaxRequests
    /\ request' = [request EXCEPT ![s] = req]
    /\ made' = made + 1

\* A commit finds those that have read before it no longer alone.
Overlapped(t) == IF request[t] = Idle THEN Idle ELSE [request[t] EXCEPT !.alone = FALSE]

End(s) ==
    /\ request' = [t \in Slots |-> IF t = s THEN Idle ELSE Overlapped(t)]
    /\ UNCHANGED made

AtOnce ==
    /\ made < MaxRequests /\ made' = made + 1
    /\ request' = [t \in Slots |-> Overlapped(t)]

\* Users us are excused when the request's check has been overtaken.
Cross(r, us, check) == crossed' = IF r.alone \/ check THEN crossed ELSE crossed \cup us

-----------------------------------------------------------------------------
(* add_master                                                              *)

\* Variant: the carrier's row is read without a lock.
RowFree_NotLocked(c) == TRUE

\* SELECT ... FOR UPDATE waits until nobody else has the row.
RowFree(c) == lock[c] = none

\* Variant: whoever finds fewer masters than allowed is a first one.
First_Any(c) == Cardinality(Masters(c)) < limit[c]

First(c) == Masters(c) = {}

BeginAddMaster(s, c, u) ==
    /\ RowFree(c) /\ Exists(u)
    /\ master[u].carrier \in {none, c}
    /\ master[u] = NoMaster => Cardinality(Masters(c)) < limit[c]
    /\ carrierUser[u] \in {none, c}
    /\ Begin(s, [kind |-> "add_master", alone |-> TRUE, user |-> u, carrier |-> c,
                 read |-> [role |-> users[u].role, master |-> master[u],
                           carrier |-> carrierUser[u], first |-> First(c)]])
    /\ lock' = [lock EXCEPT ![c] = s]
    /\ UNCHANGED <<profile, users, carrierUser, master, limit, access, crossed>>

\* The row of a user is unique in carrier_masters and in carrier_users.
Unique(r) ==
    /\ r.read.master = NoMaster => master[r.user] = NoMaster
    /\ r.read.carrier = none => carrierUser[r.user] = none

CommitAddMaster(s) ==
    LET r == request[s]
        u == r.user
    IN /\ r.kind = "add_master"
       /\ IF Unique(r)
          THEN /\ master' = IF r.read.master = NoMaster
                            THEN [master EXCEPT ![u] = [carrier |-> r.carrier, first |-> r.read.first]]
                            ELSE master
               /\ carrierUser' = [carrierUser EXCEPT ![u] = r.carrier]
               /\ users' = IF r.read.role = "gestor_brasil" THEN users
                           ELSE [users EXCEPT ![u].role = "gestor_brasil"]
               /\ crossed' = crossed \cup (IF Linked(u) THEN {u} ELSE {})
          ELSE UNCHANGED <<master, carrierUser, users, crossed>>
       /\ End(s)
       /\ lock' = [lock EXCEPT ![r.carrier] = none]
       /\ UNCHANGED <<profile, limit, access>>

\* update_carrier: its UPDATE waits for the row as well.
SetMaxMasters(c, n) ==
    /\ lock[c] = none /\ AtOnce
    /\ limit' = [limit EXCEPT ![c] = n]
    /\ UNCHANGED <<profile, users, carrierUser, master, access, lock, crossed>>

-----------------------------------------------------------------------------
(* Users and their profiles                                                *)

\* A carrier's own people are made by a master of it, who cannot give every role.
BeginCreateUser(s, u, role, c) ==
    /\ ~Exists(u) /\ RoleExists(role)
    /\ c # none => role = "motorista"
    /\ Begin(s, [kind |-> "create_user", alone |-> TRUE, user |-> u, role |-> role, carrier |-> c])
    /\ UNCHANGED <<profile, users, carrierUser, master, limit, access, lock, crossed>>

\* The address is unique: a second account with it is refused.
CommitCreateUser(s) ==
    LET r == request[s] IN
    /\ r.kind = "create_user"
    /\ IF Exists(r.user) THEN UNCHANGED <<users, carrierUser, crossed>>
       ELSE /\ users' = [users EXCEPT ![r.user] = [role |-> r.role, active |-> TRUE]]
            /\ carrierUser' = [carrierUser EXCEPT ![r.user] = r.carrier]
            /\ Cross(r, {r.user}, RoleExists(r.role))
    /\ End(s)
    /\ UNCHANGED <<profile, master, limit, access, lock>>

BeginUpdateUser(s, u, role) ==
    /\ Exists(u) /\ RoleExists(role) /\ RoleFits(u, role)
    /\ Begin(s, [kind |-> "update_user", alone |-> TRUE, user |-> u, role |-> role, read |-> users[u].role])
    /\ UNCHANGED <<profile, users, carrierUser, master, limit, access, lock, crossed>>

CommitUpdateUser(s) ==
    LET r == request[s] IN
    /\ r.kind = "update_user"
    /\ users' = IF r.role = r.read THEN users ELSE [users EXCEPT ![r.user].role = r.role]
    /\ Cross(r, {r.user}, RoleExists(r.role) /\ RoleFits(r.user, r.role))
    /\ End(s)
    /\ UNCHANGED <<profile, carrierUser, master, limit, access, lock>>

\* change_user_status
ChangeUserStatus(u, active) ==
    /\ Exists(u) /\ users[u].active # active /\ AtOnce
    /\ users' = [users EXCEPT ![u].active = active]
    /\ UNCHANGED <<profile, carrierUser, master, limit, access, lock, crossed>>

BeginProfile(s, kind) ==
    /\ profile # "deleted"
    /\ IF kind = "delete_profile" THEN MayDelete ELSE MayInactivate
    /\ Begin(s, [kind |-> kind, alone |-> TRUE])
    /\ UNCHANGED <<profile, users, carrierUser, master, limit, access, lock, crossed>>

CommitProfile(s) ==
    LET kind == request[s].kind IN
    /\ kind \in {"delete_profile", "inactivate_profile"}
    /\ profile' = IF kind = "delete_profile" \/ profile = "deleted" THEN "deleted" ELSE "inactive"
    /\ Cross(request[s], {u \in Users : users[u].role = "auxiliar"}, FALSE)
    /\ End(s)
    /\ UNCHANGED <<users, carrierUser, master, limit, access, lock>>

\* create_role_profile, and update_role_profile with active
ActivateProfile ==
    /\ profile # "active" /\ AtOnce
    /\ profile' = "active"
    /\ UNCHANGED <<users, carrierUser, master, limit, access, lock, crossed>>

-----------------------------------------------------------------------------
(* The account of a driver: create_driver, update_driver                    *)

BeginLinkDriver(s, d, u) ==
    /\ MayLink(d, u)
    /\ Begin(s, [kind |-> "link_driver", alone |-> TRUE, user |-> u, driver |-> d])
    /\ UNCHANGED <<profile, users, carrierUser, master, limit, access, lock, crossed>>

CommitLinkDriver(s) ==
    LET r == request[s] IN
    /\ r.kind = "link_driver"
    /\ access' = [access EXCEPT ![r.driver] = r.user]
    /\ Cross(r, {r.user}, MayLink(r.driver, r.user))
    /\ End(s)
    /\ UNCHANGED <<profile, users, carrierUser, master, limit, lock>>

UnlinkDriver(d) ==
    /\ access[d] # none /\ AtOnce
    /\ access' = [access EXCEPT ![d] = none]
    /\ UNCHANGED <<profile, users, carrierUser, master, limit, lock, crossed>>

RepairDriverAccess(u) ==
    /\ Linked(u) /\ AtOnce
    /\ users' = [users EXCEPT ![u].role = "motorista"]
    /\ UNCHANGED <<profile, carrierUser, master, limit, access, lock, crossed>>

-----------------------------------------------------------------------------
Next ==
    \/ \E s \in Slots : CommitAddMaster(s) \/ CommitCreateUser(s) \/ CommitUpdateUser(s)
                        \/ CommitProfile(s) \/ CommitLinkDriver(s)
    \/ \E s \in Slots, u \in Users :
          \/ \E c \in Carriers : BeginAddMaster(s, c, u)
          \/ \E role \in Roles, c \in Carriers \cup {none} : BeginCreateUser(s, u, role, c)
          \/ \E role \in Roles : BeginUpdateUser(s, u, role)
          \/ \E d \in Drivers : BeginLinkDriver(s, d, u)
    \/ \E s \in Slots, kind \in {"delete_profile", "inactivate_profile"} : BeginProfile(s, kind)
    \/ \E c \in Carriers, n \in 1..MaxLimit : limit[c] # n /\ SetMaxMasters(c, n)
    \/ \E u \in Users : RepairDriverAccess(u) \/ \E b \in BOOLEAN : ChangeUserStatus(u, b)
    \/ \E d \in Drivers : UnlinkDriver(d)
    \/ ActivateProfile

Spec == Init /\ [][Next]_vars

-----------------------------------------------------------------------------
\* However add_master requests overlap, a carrier never gets one more master
\* than it may have (the comment on the row lock in access_model/router.py).
LimitStep ==
    \A c \in Carriers : Cardinality(Masters(c)) < Cardinality(Masters(c)')
                         => Cardinality(Masters(c)') <= limit[c]
LimitHeld == [][LimitStep]_vars

\* A carrier with masters has one first master, who alone names the others, and
\* its masters are its own users (what _is_active_carrier_master joins on).
OneFirstMaster ==
    \A c \in Carriers :
        /\ Masters(c) # {} => Cardinality({u \in Masters(c) : master[u].first}) = 1
        /\ \A u \in Masters(c) : carrierUser[u] = c

\* Every account keeps a role it can work with, unless requests overlapped or
\* add_master, which does not look at the link, made a driver's account a master:
\* the one a driver signs in with has the driver's role and is no other driver's
\* (update_user: "deve permanecer com o perfil Motorista"), and nobody is left with
\* a role whose profile was deleted, and with it all its permissions.
RolesFit ==
    /\ \A d \in Drivers : access[d] # none =>
          \/ access[d] \in crossed
          \/ /\ users[access[d]].role = "motorista"
             /\ \A e \in Drivers \ {d} : access[e] # access[d]
    /\ profile = "deleted" => \A u \in Users : users[u].role = "auxiliar" => u \in crossed
=============================================================================
