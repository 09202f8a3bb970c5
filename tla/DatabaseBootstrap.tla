--------------------------- MODULE DatabaseBootstrap ---------------------------
(***************************************************************************)
(* How a release prepares its database.  Every process of the API runs       *)
(* init_db when it starts: under a lock of the database, unless a version     *)
(* row says that it was done, it adds the columns, writes the default rows,   *)
(* consolidates what older releases have left, and records its version.       *)
(* Meanwhile processes of an older release serve, and the hourly              *)
(* synchronisation writes the revenues that the bootstrap bills and posts.    *)
(***************************************************************************)
EXTENDS Naturals

CONSTANTS
    Processes,   \* of the API
    Releases,    \* values of _BOOTSTRAP_VERSION
    Trips,       \* routes with a freight
    MaxFaults,   \* bound: processes that die
    MaxEdits     \* bound: requests and synchronisations that write

ASSUME TripsAssumption == "none" \notin Trips \cup Releases
ASSUME BoundsAssumption == MaxFaults \in Nat /\ MaxEdits \in Nat

VARIABLES
    applied,   \* app_bootstrap_versions
    columns,   \* create_all and _add_missing_columns are committed
    rows,      \* the rows the bootstrap reads and writes
    process,   \* per process: its release, what it is at, the rows it has read
    lock,      \* pg_advisory_lock: the processes that hold it
    sync,      \* the synchronisation under way: a trip, its freight, what it has read
    seeded,    \* history: default branches inserted
    renamed,   \* history: default branches given another name
    faults, edits

bootVars == <<applied, columns, rows, process, lock, sync, seeded, renamed, faults, edits>>

Amounts == 0..2   \* 0: no such row

\* default: branches named "Salto".  profile: role_profiles of a role of older
\* releases; legacy: accounts that have it, "late" if given to one while a
\* bootstrap was consolidating.  freight: the revenue of a trip.  receivable and
\* entry: its accounts row and its posting, by their amounts.
BootRows == [default: Nat, profile: {"absent", "active", "inactive"},
         legacy: {"none", "given", "late"}, freight: [Trips -> Amounts],
         receivable: [Trips -> Amounts], paid: SUBSET Trips, entry: [Trips -> Amounts]]
NotRead == [default |-> "not read"]
Down == [at |-> "down", release |-> "none", read |-> NotRead]

Stages == {"down", "waiting", "columns", "reading", "writing", "recording", "unlocking", "serving"}
NoSync == [trip |-> "none"]

BootTypeOK ==
    /\ applied \subseteq Releases /\ columns \in BOOLEAN /\ rows \in BootRows
    /\ process \in [Processes -> [at: Stages, release: Releases \cup {"none"}, read: BootRows \cup {NotRead}]]
    /\ lock \subseteq Processes
    /\ sync \in {NoSync} \cup [trip: Trips, amount: Amounts \ {0}, account: {"absent", "due", "paid"}]
    /\ seeded \in Nat /\ renamed \in Nat
    /\ faults \in 0..MaxFaults /\ edits \in 0..MaxEdits

\* An empty database, or one of the time before the versions were recorded.
BootInit ==
    /\ applied = {} /\ columns = FALSE /\ lock = {} /\ sync = NoSync
    /\ rows \in [default: {0, 1}, profile: {"absent", "active"}, legacy: {"none", "given"},
                 freight: [Trips -> {0, 1}], receivable: [Trips -> {0}], paid: {{}},
                 entry: [Trips -> {0}]]
    /\ rows.profile = "absent" => rows.legacy = "none"
    /\ rows.default = 0 => rows.freight = [v \in Trips |-> 0]
    /\ process = [p \in Processes |-> Down]
    /\ seeded = 0 /\ renamed = 0 /\ faults = 0 /\ edits = 0

-----------------------------------------------------------------------------
(* init_db                                                                 *)

At(p, stage) == process[p].at = stage
Moves(p, stage, release, read) ==
    process' = [process EXCEPT ![p] = [at |-> stage, release |-> release, read |-> read]]
Goes(p, stage) == Moves(p, stage, process[p].release, NotRead)
Serving == {p \in Processes : At(p, "serving")}

StartProcess(p, r) ==
    /\ At(p, "down")
    /\ Moves(p, "waiting", r, NotRead)
    /\ UNCHANGED <<applied, columns, rows, lock, sync, seeded, renamed, faults, edits>>

LockFree == lock = {}

\* The version is looked up once the lock is held.
Acquire(p) ==
    /\ At(p, "waiting") /\ LockFree
    /\ lock' = lock \cup {p}
    /\ Goes(p, IF process[p].release \in applied THEN "unlocking" ELSE "columns")
    /\ UNCHANGED <<applied, columns, rows, sync, seeded, renamed, faults, edits>>

\* In transactions of their own, which a process that dies later leaves behind.
AddMissingColumns(p) ==
    /\ At(p, "columns")
    /\ columns' = TRUE
    /\ Goes(p, "reading")
    /\ UNCHANGED <<applied, rows, lock, sync, seeded, renamed, faults, edits>>

\* The next transaction finds what is missing.
ReadRows(p) ==
    /\ At(p, "reading")
    /\ Moves(p, "writing", process[p].release, rows)
    /\ UNCHANGED <<applied, columns, rows, lock, sync, seeded, renamed, faults, edits>>

\* A profile made by this very transaction is not found again (no autoflush), so the
\* first bootstrap of a database leaves the old roles on offer.
ProfileAfter(read) == IF read.profile = "absent" THEN "active" ELSE "inactive"

\* Accounts that were given the role after the update stay.
LegacyAfter(now) == IF now.legacy = "late" THEN "late" ELSE "none"

Missing(read) == {v \in Trips : read.freight[v] # 0 /\ read.receivable[v] = 0}
Unposted(read) == {v \in Trips : read.freight[v] # 0 /\ read.entry[v] = 0}

\* One receivable per revenue: a unique index.
Billable(read) == \A v \in Missing(read) : rows.receivable[v] = 0

\* The freights without a receivable are billed.
BillRevenues(read) == [v \in Trips |-> IF v \in Missing(read) THEN read.freight[v] ELSE rows.receivable[v]]

\* And those without an entry are posted, at the amount of this moment.
PostRevenues(read) == [v \in Trips |-> IF v \in Unposted(read) THEN read.freight[v] ELSE rows.entry[v]]

DefaultBranch(read) == IF read.default = 0 THEN 1 ELSE 0

Seeded(read) ==
    [rows EXCEPT !.profile = ProfileAfter(read), !.legacy = LegacyAfter(rows),
                 !.receivable = BillRevenues(read), !.entry = PostRevenues(read),
                 !.default = @ + DefaultBranch(read)]

CommitRows(p) ==
    LET read == process[p].read IN
    /\ At(p, "writing") /\ Billable(read)
    /\ rows' = Seeded(read) /\ seeded' = seeded + DefaultBranch(read)
    /\ Goes(p, "recording")
    /\ UNCHANGED <<applied, columns, lock, sync, renamed, faults, edits>>

\* The error leaves init_db, which unlocks; the process does not start.
FailRows(p) ==
    /\ At(p, "writing") /\ ~Billable(process[p].read)
    /\ lock' = lock \ {p} /\ process' = [process EXCEPT ![p] = Down]
    /\ UNCHANGED <<applied, columns, rows, sync, seeded, renamed, faults, edits>>

RecordVersion(p) ==
    /\ At(p, "recording")
    /\ applied' = applied \cup {process[p].release}
    /\ Goes(p, "unlocking")
    /\ UNCHANGED <<columns, rows, lock, sync, seeded, renamed, faults, edits>>

Unlock(p) ==
    /\ At(p, "unlocking")
    /\ lock' = lock \ {p} /\ Goes(p, "serving")
    /\ UNCHANGED <<applied, columns, rows, sync, seeded, renamed, faults, edits>>

\* The session of a process that dies ends, and its lock with it.
ProcessDies(p) ==
    /\ ~At(p, "down") /\ faults < MaxFaults
    /\ faults' = faults + 1 /\ lock' = lock \ {p}
    /\ process' = [process EXCEPT ![p] = Down]
    /\ UNCHANGED <<applied, columns, rows, sync, seeded, renamed, edits>>

-----------------------------------------------------------------------------
(* What else writes these rows                                             *)

Edit == edits < MaxEdits /\ edits' = edits + 1

\* update_branch, through a process that serves.
RenameBranch ==
    /\ Serving # {} /\ rows.default > 0 /\ Edit
    /\ rows' = [rows EXCEPT !.default = @ - 1] /\ renamed' = renamed + 1
    /\ UNCHANGED <<applied, columns, process, lock, sync, seeded, faults>>

\* update_user: a profile that is on offer may be given.
GiveLegacyRole ==
    /\ Serving # {} /\ rows.profile = "active" /\ Edit
    /\ rows' = [rows EXCEPT !.legacy = IF \E p \in Processes : At(p, "writing") THEN "late" ELSE "given"]
    /\ UNCHANGED <<applied, columns, process, lock, sync, seeded, renamed, faults>>

SettleReceivable(v) ==
    /\ Serving # {} /\ rows.receivable[v] # 0 /\ v \notin rows.paid /\ Edit
    /\ rows' = [rows EXCEPT !.paid = @ \cup {v}]
    /\ UNCHANGED <<applied, columns, process, lock, sync, seeded, renamed, faults>>

\* import_torre_controle: nothing without a branch of the country.
BeginFreight(v, amount) ==
    /\ sync = NoSync /\ Edit /\ rows.default + renamed > 0
    /\ sync' = [trip |-> v, amount |-> amount,
                 account |-> IF rows.receivable[v] = 0 THEN "absent"
                             ELSE IF v \in rows.paid THEN "paid" ELSE "due"]
    /\ UNCHANGED <<applied, columns, rows, process, lock, seeded, renamed, faults>>

\* Variant: no receivable follows the sheet.
Billed_Kept(v, amount) == IF sync.account = "absent" THEN amount ELSE rows.receivable[v]

\* A receivable that was found to wait for its payment follows the sheet.
Billed(v, amount) == IF sync.account = "paid" THEN rows.receivable[v] ELSE amount

\* A second receivable is refused by its index, and the run with it.
CommitFreight ==
    LET v == sync.trip IN
    /\ sync # NoSync
    /\ rows' = IF sync.account = "absent" /\ rows.receivable[v] # 0 THEN rows
               ELSE [rows EXCEPT !.freight = [@ EXCEPT ![v] = sync.amount],
                                 !.receivable = [@ EXCEPT ![v] = Billed(v, sync.amount)]]
    /\ sync' = NoSync
    /\ UNCHANGED <<applied, columns, process, lock, seeded, renamed, faults, edits>>

-----------------------------------------------------------------------------
BootNext ==
    \/ \E p \in Processes : \/ \E r \in Releases : StartProcess(p, r)
                            \/ Acquire(p) \/ AddMissingColumns(p) \/ ReadRows(p) \/ CommitRows(p)
                            \/ FailRows(p) \/ RecordVersion(p) \/ Unlock(p) \/ ProcessDies(p)
    \/ RenameBranch \/ GiveLegacyRole \/ CommitFreight
    \/ \E v \in Trips : SettleReceivable(v) \/ \E a \in Amounts \ {0} : BeginFreight(v, a)

BootSpec == BootInit /\ [][BootNext]_bootVars

-----------------------------------------------------------------------------
(* Properties *)

\* Whoever serves does so on a database that its own release has prepared.
ServesPrepared ==
    \A p \in Serving : columns /\ process[p].release \in applied

\* However many processes start at once, die half way and start again ("os demais
\* esperam e seguem (idempotente)", init_db), the default branch is inserted once,
\* and again only for one that was renamed.
SeedsOnce == seeded <= 1 + renamed

\* Once a release is recorded, every revenue has its receivable, whichever of the
\* bootstrap and the synchronisation came first, and one that is not paid yet asks
\* for the freight of the last sheet.
RevenuesBilled ==
    /\ applied # {} => \A v \in Trips : rows.freight[v] # 0 => rows.receivable[v] # 0
    /\ \A v \in Trips \ rows.paid : rows.receivable[v] # 0 => rows.receivable[v] = rows.freight[v]

\* No account keeps a role of the older releases that is no longer on offer, unless
\* it was given while a bootstrap was consolidating.
LegacyOnOffer == rows.legacy = "given" => rows.profile = "active"

\* What a bootstrap promises to those that wait for it and to those that serve.
BootstrapSound == ServesPrepared /\ SeedsOnce /\ RevenuesBilled /\ LegacyOnOffer
=============================================================================
