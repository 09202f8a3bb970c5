# Rotas Brasil RSM: a specification of the route platform

This directory models the delivery-route platform of the repository: a FastAPI
and PostgreSQL back end (`apps/api`), a React web application that the driver
also uses offline (`apps/web`), a Celery worker, and an Android shell around the
web application. Routes are planned or imported, loaded at a distribution
centre (CD), driven stop by stop, and closed; around them are the registers of
carriers, vehicles, drivers and users, the driver's money, two sources of
positions, and the start-up that prepares the database of all of them.

The modules are translated from the Python and TypeScript sources. Line numbers
in `PROJECT.json` ("map") lead from every definition to the code; paths below are
relative to `apps/api/app` unless they say otherwise.

## 1. Inventory

| Part | State it keeps | Operations | Hard because |
|---|---|---|---|
| Route lifecycle (`modules/routes/router.py`) | rows of `routes`, `dock_sessions`, `route_stops`, `route_events`, `checkins` | plan, dock steps, release, depart, force-start, check-in, deliver, return receipt, close, reopen, two admin corrections | about thirty endpoints write the same rows, each with its own guard; no version, no row lock |
| Occurrences (`modules/erp_admin/router.py`) | `route_occurrences` and their events | create (takes the current leg back), treat, resolve, finish, cancel, tie to another route | an open occurrence holds the vehicle, and every promotion of a stop has to look |
| Proof gallery (`modules/gallery/router.py`) | proofs of stops | remove, ask for a new one | touches stops of routes in any status |
| Torre de Controle synchronisation (`services/torre_controle_import.py`) | the same route rows, and the freight's revenue and receivable | hourly: status by date, final stop statuses, new stops, freight | overrides operation while it runs |
| Load imports (`jm_load_import.py`, `generic_route_import.py`, `adimax_route_import.py`, `import_changes.py`) | routes, stops, audit | upload, refusal with a list of changes, confirmed upload | what is confirmed is not what was shown, when others write in between |
| Maps (`services/routing.py`, `workers/celery_app.py`) | the line, the suggested order, `map_status` | refresh, optimise, apply a suggestion | a job takes minutes and writes what it has read |
| Idempotency receipts (`main.py`) | `client_action_receipts` | look up before, record after | two transactions around a third |
| Offline queue (`apps/web/src/services/offlineQueue.ts`) | actions in IndexedDB | queue, replay in order, drop | lost answers, restarts, several pages, refused actions at the head |
| Session (`apps/web/src/services/api.ts`, `modules/auth`) | the pair of tokens, `auth_version` | call, single-flight renewal, login, logout, change and reset of password, block | tabs share a pair, and lose answers |
| Users (`modules/users`, `modules/access_model`) | users, role profiles, masters, driver accounts | create, change role, nominate, remove, link | counted and checked before they are written |
| Registers and availability (`modules/carriers`, `drivers`, `vehicles`, `branches`, `access_model`) | carriers, links, availability, approvals, the crew of a route | register, move, make available, review, assign | one fact is kept in several rows |
| Truck positions (`services/truckcontrol.py`) | message cursor, positions | poll under a Redis lock | the lock expires under the job |
| Live tracking (`modules/tracking`, `Layout.tsx`) | consents, positions, the watch of the telephone | consent, follow, poll, stop | effects of the page that outlive it |
| Purchases, stock, accounts, statements (`modules/erp_admin`) | documents with a status | approve, pay, release, contest, accept, move stock | read, check and write without locks |
| Start-up (`services/bootstrap.py`) | versions, default rows, receivables and postings | prepare the database | every worker of every release does it, and may die in it |
| Notifications, dashboards, reports, branding, settings, audit, storage | | | read-only or single-row forms |

The parts meet in the database: the imports, the synchronisation, the worker and
the occurrences write rows that the route endpoints read; the synchronisation
and the start-up write the same receivables. The offline queue replays requests
of the driver through the middleware of the receipts into the route endpoints.
The browser's tabs share one pair of tokens, its pages one queue.

What would make each part correct, in a sentence (where the code keeps less, the
property names the exception, and section 3 the place):

- lifecycle: the columns of a stop tell one story, the vehicle is sent only to
  the first open stop and never while an occurrence is open, an outcome is never
  overwritten, a finished route is complete and frozen, the timeline agrees with
  the rows; and requests that overlap may tear rows, but lose no event;
- imports and synchronisation: they may move statuses but lose no history, add
  nothing twice and overwrite nothing that nobody has seen;
- receipts and queue: every action the driver was told is saved takes effect once, in
  order, at last;
- maps: the line a job draws from the stops as they are fits them, whatever others do;
- session: old pairs are refused, and nobody is thrown out whom the server would
  let in;
- users and registers: the limit of masters, roles that fit, one fact in all its
  copies;
- positions: no message of a linked vehicle is passed by; no telephone is followed for nothing;
- money: documents agree with each other, and a period is paid once;
- start-up: whoever serves is prepared, and nothing is seeded or billed twice.

## 2. Modules

| Module | What it is |
|---|---|
| `RouteHandlers` | The handlers as functions on the rows of one route: a guard `CanX(d, ...)` and an effect `AfterX(d, ...)` for every operation, with the helpers they share (`StartNextStopTravel`, `EnsureStopCheckin`, `ResetDockFlow`). No variables, so that several state machines can use them. |
| `RouteLifecycle` | One request at a time: every action is an endpoint, from load to commit. |
| `RouteRequests` | The same handlers, several requests at a time: load, decide, commit, with commits that write only the columns a request has changed. |
| `StopLedger` | The abstract specification of the timeline that `RouteRequests` implements. |
| `RouteMaps` | The line, the suggested order and the jobs that compute them. |
| `RouteImports` | Sheets uploaded, refused, confirmed and uploaded again by several people. |
| `DriverQueue` | The phone's queue, the network, the receipts and the server. |
| `UserSessions` | The tabs of a browser, the renewal of the pair and the administrator. |
| `UserRegistry` | Users, profiles, masters and driver accounts, several requests at a time. |
| `CarrierAccess` | Carriers, their fleet, availability, approvals and the crew of a route. |
| `FinanceDocuments` | Part, purchase, accounts and a driver's statement, several requests at a time. |
| `TruckPositions` | The positions job, its lock and the provider's messages. |
| `DriverTracking` | The page that follows the telephone, and the driver's consent. |
| `DatabaseBootstrap` | The start-up of several processes of several releases, the edits of those that serve, and the synchronisation. |
| `MCRouteLifecycle`, `MCRouteSheets`, `MCLiveTracking`, `MCBackOffice`, `MCUserSessions`, `MCUserRegistry` | Values and constraints for TLC. Some put modules side by side that share no row, so that one run explores each: a behaviour of `MCRouteSheets` and `MCBackOffice` is about one of their parts (`about`), and in `MCLiveTracking` an installation has one of the two sources. |
| `*_proofs` | The theorems and their proofs, see section 4. |

Operators named `X_Something` after another operator `X` ("Variant: ...") are
mistakes one could make in `X`; no definition uses them. They exist so that each
property can be shown to notice one of them.

### How overlapping requests are modelled

No handler takes a row lock, except `add_master`, and PostgreSQL runs in READ
COMMITTED. A request reads rows at one moment, works (uploads a file, hashes a
password, asks the planner), and commits later. SQLAlchemy writes only the
columns that differ from what was read; rows that it adds are inserted, and a
unique index may refuse them and with them the whole commit. The modules say so
in the same way: an action that reads (`Load`, `Begin...`, `Upload`, `LoadRoute`,
`ReadRows`), and one that commits and merges (`Merged`, `MergedRow`, `Written`).
Where a property holds only of requests that do not overlap, a history variable
(`raced`, `stale`, `crossed`, `overlap`, `overtaken`) notices the overlaps that
can break it, and the property says which those are. In `RouteRequests` the look
for open occurrences is a second read (`Decide`), because the code asks the
database for them late in the request.

### The rows of a route (`RouteHandlers`)

`db` is a record with the columns of the route that a guard reads: `status`, the
dock times as the set of recorded `DockFields`, `actual_departure_at`
(`departed`), `closed_at` (`closedAt`), the two photos, and the tables `stops`
and `occ`. A timestamp or a foreign key is a boolean: set or not. Events are
tallies (none, one, several) per stop, because the properties only ask whether
there is one too many. `next` is the next row id. A row that does not exist is
`NoRow`; ids are never reused, as with a serial column.

Left out of the guards: who is calling (role, carrier, branch, driver of the
route), the expiry of the route's date, the geofence and the file type. All of
them only refuse requests, so the model allows more than the code and what holds
here holds there. Each handler commits once, at its end, so a request that fails
leaves nothing behind and needs no action.

`overrides` is a history variable. It names the interventions that have
overwritten operation: an administrator's correction or planning edit outside
`planejada`, the synchronisation, an import into a route that is not
`planejada`. The promises of the handlers are stated for routes where it is
empty (`Untouched`); what must survive any intervention is stated without it.

The sessions are created with `autoflush=False`; `_create_return_occurrence`
flushes before the promotion looks for open occurrences, so a failure always
sees its own. `AfterFailure` therefore opens the occurrence before it calls
`StartNextStopTravel`.

The suggestion of the optimiser (`optimized_sequence`) is not kept as state here
(it is in `RouteMaps`): `ApplyOptimizedSequence` takes any order that gives every
stop a position of its own no higher than the rows ever created, which includes
every suggestion that is older than the latest deletion.

A deleted stop must have no event or check-in that refers to it: the foreign
keys have no cascade, the database refuses, and the request fails
(`CanDeleteStop`). An occurrence made through the API has an event of its own, so
deleting one fails in the same way; legacy ones can go, which has the effect of
`MoveOccurrenceOut`.

### The other modules

`RouteMaps`. `map` holds the columns a job may write: per stop its `sequence`,
`optimized_sequence` and address, the route's origin, `map_status` and the two
lines. A line stands for the stops it visits with the addresses they had;
coordinates, distance and time go with it, and the planner's answer is any order
of the stops (`Reorderings`, external) or a failure. A job is in phases: queued,
loaded, done. `refresh_route_map`, an import and `optimize_sequence` start one
each way. The route is not finished, and a job reads its rows at one moment. A
job that has loaded the route notes what happens behind it: `stale` when the stops
or the origin changed, `touched` with the lines that another job replaced. `fit`
is the set of lines that are vouched for. A job that is not stale vouches for
what it draws, whether or not another one overlapped it, except for columns that
a commit of the other left standing (`Fitting`); every commit takes the lines it
changes out of `fit` first, so a stale result unsettles them.

`RouteImports`. One load of one branch and one date, its carrier with it. A stop
has an order number and one column that stands for all the columns a sheet
overwrites; the rows of one order in a sheet are at most two, and one row may come
without an order, which is never found again. `jm` is the layout of JM, which makes
a stop of every row of a new order; the others overwrite what they have just
added. `twice` remembers the orders that a sheet stored as two stops. A sheet names a
carrier or none that can be found (`carrier`), and is sent by somebody of the
company or by a carrier's own user (`own`), who may only send the carrier's loads
again (`Permitted`). `Upload` reads and collects changes, `Refuse` answers 409 with
their number and shows at most `MaxShown` of them (five in the code), `Confirm`
sends the file again, `CommitUpload` writes what the reading of that second time
says, and the carrier, which the list never has. `since` remembers what others
wrote after the list was shown. In the Adimax layout a value that two rows of an
order change and change back is not written, in the model it is written with the
same value.

`DriverQueue`. Taps of the driver are requests whose answer may be lost before or
after the server has handled it; then they are kept under an action id (`store`)
and replayed by the loop of each open page (`StartSync`, `SendReplay`,
`ReplayAnswered`, `ReplayLost`). One of the method and path of an action that waits
is ignored, whatever its body, and answered 202 like the others (`merged`); `Kept`
is what the driver was promised. The server looks up the receipt, handles, and
writes the receipt, in three transactions (`LookUp`, `Handle`, `Receipt`), and
may fail after each. `copies` are the requests under way. The rules of the
business are reduced to what a stop's steps allow (`Accepts`): a delivery needs
the check-in, a second delivery is refused.

`UserSessions`. `store` is the pair in local storage; `version` is what the
token carries of `users.auth_version`, and `cut` counts the decisions to end the
sessions, so that a pair can be recognised as older than one. Calls, the
renewal of each tab (`refreshPromise`), a form (login, change of password) and
one administrator's request each have their own steps and lose their answers. A
login may be refused (`LoginRefused`): that 401 is not renewed, and so clears the
pair that the other tabs share. `ended` says by what the session went: the user,
a refused login form, or the refusal of a call or renewal.

`UserRegistry`. One profile that is no system profile, three roles of interest,
masters with `first`, and the account of a driver. Requests on users read, and
commit later; `add_master` holds the row of its carrier from `SELECT ... FOR
UPDATE` to its commit (`lock`).

`CarrierAccess`. One transaction per request. `register` holds a driver's or
vehicle's row, `fleet` the links of carriers to vehicles, `available` the
availability rows with their approval, `route` one route with its carrier and
crew. Branches open and close (`closed`); vehicles are offered only in those that are
open, drivers in all. A review may leave the note "ANTT pendente" on a vehicle's link
(`antt`), and whoever saves the vehicle or the carrier with its number switches
such links on again (`Looked`, `Lifted`), with the decision they had. The Torre
sheet registers names and plates that it does not find, without carrier or
branches, and writes the crew over that of the route (`ImportTorre`). `unsynced` and
`drifted` are the changes after which the code itself does not bring the copies
together: a move to another carrier without a look at the branches, a branch that
was closed at the look, a row made by the Torre sheet; and a move of the register
of the crew, an import of either kind. The deletion of a branch, which
needs that nobody is registered in it, is left out.

`FinanceDocuments`. One part, one purchase, one driver's period. `After` gives the
tables after a request on the tables it has read; `Merged` writes the difference;
`Refused` is a unique index. `stale` notices commits that did something else than
the request would have done on what was then stored.

`TruckPositions`. Messages have growing ids; `cursor` is `last_message_id`. A task
reads the cursor, asks, resolves the vehicles and commits positions and cursor
together; `lock` may expire at any moment in between. `fleet` are the units whose
plate is on an active vehicle of the company, `linked` those that the last
synchronisation found there: a vehicle that joins is not linked until the next one.
`settled` remembers the messages whose unit was both when they were sent, and has
been since. An answer of more than 5 MB is refused (`TooLarge`); how many messages
that takes depends on the provider and is a choice of the instance (`Limits`).

`DriverTracking`. The effect of `Layout.tsx` as polls in phases, for the effect in
force and the one that was disposed of; timers, visibility, the watch, the last
consent and whether any was ever given.

`DatabaseBootstrap`. A process has a stage of `init_db` and what it has read. One
default row (the branch) stands for the rows that are seeded when missing:
reasons, checklist, categories, tenant, administrator. The columns of
`_add_missing_columns` are one fact, and the data statements among them are left
out. `rows` has, per route, the freight, the receivable and the posting, by their
amounts; no accounting period is closed. The rows are read at one moment; in the
code the receivables are looked for and written a little later in the same
transaction. Every release is taken to run this code, under a version of its
own. The process that serves a request is left out of the edits.

## 3. Runs

| Run | Instance | Shows |
|---|---|---|
| `route_operation` | 2 stops, 1 occurrence | all operational requests in any order: `TypeOK`, `EventLedger`, `FinishedIsComplete`, `DockOrder`, `ClosedIsFrozen` |
| `route_interventions` | 2 stops, 1 occurrence, 10 kinds of route correction and 6 of stop correction, synchronisation, imports; constraint `OneKindOfIntervention` | what survives every intervention: `ArrivalHasEvent`, `HistoryKept` |
| `route_road` | 3 stops, 2 sequences, 2 occurrences (symmetric); constraint `RoadTrip` | `TravelFollowsPlan`, `OutcomeConsistent`, `OutcomeIsFinal` |
| `requests` | 2 stops, 1 occurrence, 2 workers, 5 requests of 8 kinds | two requests at once: which overlaps break what (`RowsTornOnlyByOverlap`, `LedgerDoubledOnlyByOverlap`, `FinishedIncompleteOnlyByOverlap`, `LegUnderOccurrenceOnlyByOverlap`), and that none breaks the ledger (`LedgerKept`, a refinement) |
| `sheets` | maps: 3 stops, 2 addresses, 2 jobs, 1 edit, 1 death; sheets: 2 clerks, 2 uploads (each may be confirmed), 1 order in up to two rows, 3 values, 1 carrier, 1 change shown, 1 correction | `LinesFollowStops`, `RefreshEnds`; `OnceUnlessOverlapped`, `OverwritesAccountedFor` |
| `queue` | 2 pages, 2 taps, 1 fault | `NothingLost`, `OnceUnlessRaced`, `ReplayInOrder`, `Drains` |
| `sessions` | 2 tabs, 2 calls, 2 commits on the account | `OldPairsRefused`, `SessionEndedOnlyWhenRefused`, `CallsEnd` |
| `users` | 2 carriers, 3 users, 2 drivers, 2 requests at a time, 4 in all (symmetric) | `OneFirstMaster`, `LimitHeld`, `RolesFit` |
| `tracking` | trucks: 1 unit, 2 tasks, 2 messages (ids 2 and 3), answers of at most 1 or of 2, 1 fault; telephone: 5 changes, 2 timers, 1 failure | `NothingMissed`, `MessagesDealtWith`; `NoWatchLeft`, `WatchEnds` |
| `back_office` | registers: 2 branches, 2 carriers, a driver, a vehicle, 6 requests; documents: 2 at a time, 4 in all; start-up: 2 processes, 2 releases, 1 death, 2 edits | `FleetAgreesWithVehicles`, `ServedBranchesOffered`, `CrewOfCarrier`, `ApprovedOnlyByReview`; `BooksAgree`, `PaidOnce`; `BootstrapSound` |
| `claim_checkin` | 1 stop, stop corrections | refuted: an ended delivery cannot be overwritten |
| `claim_consent` | as `tracking`, smaller | refuted: a position needs the driver's consent |

`TypeOK` of the route is checked in `route_operation`. The type invariants of the
other modules (`MapTypeOK`, `BootTypeOK` and so on) hold on the same instances; they
are not listed in the configurations, where they would say nothing of the code.

### Why the bounds are enough

A promotion compares two open stops, so an error in the choice shows with three
(one finished, two to choose from), and equal sequences with two. One occurrence
shows whether it holds the vehicle; the second shows that ending one is not
ending all. The dock and the closing do not look at how many stops there are
beyond none, some and all. Two overlapping requests are the least that can
disagree, and the third to fifth give them something to disagree about (a
departure, an arrival, an occurrence). Two pages are the least that replay the
same action; two taps have an order; a fault can be a lost answer, a server error
or a closed page, so one fault is one of each, at every moment. Two tabs share a
pair, and two commits on the account are the least that overtake each other. Three
users and a limit of two reach the limit with one to spare. Two messages
are a batch and a later one, or one of each of two tasks, and more than an answer
may hold when one may. In the registers, six requests are enough to make a branch,
a carrier, a link and a vehicle, and to change two of them. Two uploads that
overlap and are confirmed read four times; a third that starts after the overlap is
not in the run, and is covered by the theorem. Two processes wait for one lock, two releases start over each other,
one death is at every stage, and two edits put a freight and a payment, or two
freights, before, into and after a start.

The constraints cut states, not steps: TLC still takes every step out of a state
that satisfies them and checks the properties on it. `RoadTrip` keeps the whole
road with stops that need no further proof; proofs are exercised in
`route_operation`. `OneKindOfIntervention` explores corrections on a route of one
stop (a correction writes one stop, or all of them alike), and imports and
synchronisations on two, with the dock empty, full, or as a lone correction
leaves it, since the dock's own steps are exercised in `route_operation`.
`OneDesk` keeps stock, purchases and statements apart, which share only the table of
accounts.

The runs of `RouteLifecycle` check for deadlock: in every state some request is
possible. The others stop at their bounds by design, so their configurations turn
that check off.

### Fairness

- `queue` (`Fairness`): the server and the loops of the phone run on, and the
  signal comes back; a replay is started again by the online event, the next
  start or the banner, which stays on the screen while something waits. Nobody
  owes a tap, nothing owes a fault.
- `sessions` (`Fairness`): a request is answered or fails (the client sets no
  timeout of its own: the connection ends it), and a tab handles what it receives.
  Nobody owes a call or a login.
- `tracking` (`TruckFairness`, `DriverFairness`): the beat starts a task every 30
  seconds, a request ends after its timeout, Redis drops a lock after 25 seconds;
  timers go off. Nobody owes a message, a page or a route.
- `sheets` (`MapFairness`): the worker goes on, every request to the planner ends
  after 90 seconds. Nobody owes an edit, and a death is never owed.

All of it is weak fairness: each of these steps stays possible until it is taken,
so strong fairness is nowhere needed. `RouteLifecycle` and the registers
claim no liveness: every step there is a person's decision.

### Where the program says something else

Two claims are refuted by a run (`PROJECT.json`, "findings"): a check-in at a
stop that a correction has marked as delivered overwrites it (it becomes `em_rota`
with `delivered_at`, which `deliver` and `close` both refuse until another
correction); and a withdrawn consent does not stop positions from being recorded,
because any earlier acceptance counts.

The following came up while modelling. The models follow the code.

- `docs/fluxo-operacional.md:4` gives an order of statuses that imports,
  corrections and the closing of a route in `em_carregamento` do not keep.
- `docs/seguranca.md:12` locks closed routes; an import adds open stops to a
  closed one.
- The user's manual (l. 210) has a route with a return closed only with the
  warehouse's receipt; `close_route` does not look for it.
- The driver's manual (l. 214) says actions are sent in order; a request made while the
  queue waits is tried at once (`apps/web/src/services/api.ts:53`) and may overtake
  it. `ReplayInOrder` is about the queue itself.
- The queue tells duplicates by method and path
  (`apps/web/src/services/offlineQueue.ts:127-133`): a second request with another body
  is ignored while the first waits, and its caller is told "saved" with 202.
- The 401 of a login form with a wrong password clears the shared tokens
  (`apps/web/src/services/api.ts:89`), and so ends a session of another tab that the
  server would renew. An inactive or blocked account gets 403 there, which does not.
- Messages of a vehicle that was just registered are passed by the cursor until the next
  synchronisation of vehicles, every 300 seconds, and not asked for again
  (`services/truckcontrol.py:107-116`).
- An answer of the provider over 5 MB (`services/truckcontrol.py:34-35`), and a date that
  cannot be read, fail again with each task, for the cursor stays. `MessagesDealtWith`
  excepts both (`InTheWay`).
- The user's manual (l. 218) leaves changes of carrier to the global administrator,
  with a reason and with driver and vehicle unlinked; an import replaces it too
  (`services/route_carrier.py:52`), and leaves the crew. In all three layouts it is
  written after `collect_changes` has looked, so that the change is
  neither shown, nor confirmed, nor audited; `OverwritesAccountedFor` is about the
  values of stops.
- `refresh_route_map` leaves "processing" for good when its task finds nothing to
  ask or dies (`modules/routes/router.py:829`, `services/routing.py:109`), and the
  page then polls on. `RefreshEnds` excludes these (`silent`).
- The fallback that draws a line leg by leg keeps the old suggested order with it.
- A job that had loaded the stops before an edit writes its lines over those of a job
  that loaded them after it, and two jobs that overlap may leave a suggestion with the
  columns of both (`workers/celery_app.py:130`). `LinesFollowStops` excepts both.
- A stop without an order number is added again by every upload of its sheet
  (the generic and the Adimax layout). Two first uploads of one load leave it twice.
- A sheet of the layout of JM that repeats a new order makes a stop of each row
  (`services/jm_load_import.py:248-257`: `existing` is not updated in the loop).
- A 409 of an import lists at most five changes (`modules/routes_import/router.py:179`);
  the confirmation covers all. `OverwritesAccountedFor` has a change counted, and shown
  if they were no more than that.
- The Torre sheet writes its driver and vehicle over those of a route it knows
  (`services/torre_controle_import.py:301-309`), whatever the route's carrier, and leaves
  the carrier. It registers drivers and vehicles without carrier and without any
  branch (`:189`, `:223`).
- A vehicle is offered only in active branches (`modules/vehicles/router.py:85`); when a
  branch opens again nothing is offered, until somebody saves the vehicle, or
  the number or the vehicles of its carrier.
- Links that a review has left with the note "ANTT pendente" are active again as soon as
  the vehicle, or the carrier with its number, is saved
  (`modules/vehicles/router.py:91-94`), whether or not there is a number. Their
  decision stays: one that was approved with that note lets the vehicle in again
  without a review. A rejected one stays rejected.
- After a release straight from the arrival, the step "enter dock" is still open, and
  sets the status of a route that has left back to `em_carregamento`
  (`modules/routes/router.py:698`).
- Ending an occurrence does not restart the vehicle; the next delivery does.
- Two stock movements that overlap lose one of the two quantities.
- `add_master` turns the account of a driver into one of a manager without asking
  for the link that `update_user` protects.
- A stop's check-in without an approved departure is excluded by the proof of
  `NothingBeforeDeparture`, and by nothing in the interface.
- The first start on a database of the time of the old roles leaves their profiles on
  offer although `services/bootstrap.py:516` says inactive when the very same
  transaction has created them: `db.get` does not find a row that is not flushed.
  `LegacyOnOffer` is stated so that it holds of what the code does.
- The first statement of the bootstrap on `driver_branches`
  (`services/bootstrap.py:49`) approves a driver in his own branch whatever its
  approval policy.
- A revenue is posted once, at the amount of that moment; a freight that changes
  later is not posted again (`repost_revenue` in `services/accounting.py` has no
  caller in the synchronisation). That is why no property compares `entry` with
  `freight`.
- Every new version deactivates vehicle types that the administrator has added, and
  creates the branch "Salto" again when it was renamed (`SeedsOnce` counts those).
- A bootstrap that bills a revenue while the synchronisation bills the same one
  fails at the unique index, and the process does not start (`FailRows`); the next
  start succeeds.

## 4. Proofs

Eight modules are checked by TLAPS and hold for every value of the constants.
They rest on the named assumptions of the modules they extend, which TLC evaluates
on every run: bounds are natural numbers, ids and "no id" differ, `Users`, the
order numbers and the stops on a map are finite, sequences and stop ids are
positive, there is a city, corrections are requests that the schemas admit.
`MaxStops`, the tallies and the other bounds are part of what is proved about:
the theorems are about every finite bound, not about an unbounded table.

Every invariant and every action property that a passing run checks is also a
theorem; the run shows it on a small instance and shows the model alive, the theorem
leaves no instance out. `PROJECT.json` names the theorem of each property.

| Module | Theorems |
|---|---|
| `RouteHandlers_proofs` | what each handler returns is well formed (lemmas, stated on any well-formed rows) |
| `RouteLifecycle_proofs` | `TypeCorrect`; `TravelFollowsPlan`, `OutcomeConsistent`, `EventLedger`, `NothingBeforeDeparture`, `FinishedIsComplete`, `DockOrder`; the action properties `OutcomeIsFinal`, `ClosedIsFrozen`; `ArrivalHasEvent`, `HistoryKept` |
| `RouteRequests_proofs` | `LedgerKept`, the refinement of `StopLedger`; `RowsTornOnlyByOverlap`, `LedgerDoubledOnlyByOverlap`, `FinishedIncompleteOnlyByOverlap`, `LegUnderOccurrenceOnlyByOverlap` |
| `DriverQueue_proofs` | `NothingLost`, `OnceUnlessRaced`, `ReplayInOrder` |
| `UserAccounts_proofs` | of `UserRegistry`: `OneFirstMaster`, `LimitHeld`, `RolesFit`; of `UserSessions`: `OldPairsRefused`, `SessionEndedOnlyWhenRefused` |
| `BackOffice_proofs` | of the registers: `FleetAgreesWithVehicles`, `ServedBranchesOffered`, `CrewOfCarrier`, `ApprovedOnlyByReview`; of the documents: `PaidOnce`, `BooksAgree`; of the start-up: `BootTypeOK`, `BootstrapSound` |
| `LiveTracking_proofs` | `NothingMissed`, `NoWatchLeft` |
| `RouteSheets_proofs` | `OnceUnlessOverlapped`, `OverwritesAccountedFor`, `LinesFollowStops` |

The theorems about a part of `MCBackOffice` or `MCRouteSheets` are about the
specification of that part, `Documents!Spec` for instance, with the constants of the
MC module and none of the constraints of its runs.

**Types of the route.** `TypeOK` is inductive as it stands, because it says more
than types: an id that was not handed out yet has no row (`Fresh`). Without that
part nothing would keep a promotion or a synchronisation from writing to a row
that does not exist. The proof has a lemma per group of handlers (`RoadTyped`,
`RouteColumnsTyped`, `OccurrencesTyped`, `SheetTyped` ...), which
`RouteRequests_proofs` cites again; `TypeStep` has one step per action.

**The promises of the operational handlers.** Only `DockOrder` stands alone. That
a new stop cannot get ahead of the one the vehicle travels to needs that planning
happens in `planejada` only, that a planned route has not left
(`DepartureSound`), and that before leaving every stop waits. That a check-in adds
exactly one event needs `OutcomeConsistent` (an ended stop has its arrival) and
the departure. That a receipt leaves two outcome events needs that no other stop
has one (`returned` only with `falha`, which no invariant states). So they
are proved together, as

    Sound == TypeOK /\ (overrides = {} => Operational(db))

where `Operational` is `StopsSound` (rows, and who travels), `DepartureSound`,
`ClosingSound` and `DockSound`. The argument goes from rows to routes:

1. `OpenRowsSound`, `ProofRowsSound`, `PlannedRowsSound`: what each handler writes
   into one row keeps `RowSound`.
2. `StopWritten`, `StartNextStopTravelSound`, `StillFirst`: writing one stop without
   reopening it, or promoting the first open one, keeps `StopsSound`, because a
   stop that is first among the open ones is first among fewer.
3. `OperationalKept`: a handler that leaves the route's columns alone owes only
   two things, waiting stops before the departure and no open stop under a
   finished route.
4. One lemma per group of handlers: `PlanningSound`, `DockStepsSound`,
   `ClosingStepsSound`, `RoadSound`, `OccurrencesSound`, `ImportSound`. On the way,
   `DockStepsSound` shows that `depart` is never enabled without a correction: a
   release is a departure.
5. `SoundStep`: one step per action. Corrections and the synchronisation make
   `overrides` nonempty, so nothing is owed there.

**History.** What survives interventions too is argued row by row: `RowKept(r)` (a
row that is gone is `NoRow`, an arrival has its event) is kept by every handler,
and `Onward(r, q)` says that row `q` may follow row `r`: events are only added, and
a row with events stays. Every handler moves every row onward (`Advances`), which
is transitive, so handlers made of two writes need no case of their own.
`ArrivalHasEvent` follows from `RowKept`, `HistoryKept` from `Advances`.

`EventLedger` has two halves. The invariant `EventsAgree` counts: an arrival, a
delivery and a close have one event each, a failure has at least one, with a receipt
at least two. That no failure has a further one without a receipt is the action property
`AnnouncedOnce`: an outcome event is added only by the request that ends the delivery,
and afterwards only by `UploadWarehouseReturnProof`. Its proof goes through the
handlers by what each announces (`Announced`): nothing, or the outcome of a stop
that was open and is not any more.

`OutcomeIsFinal` and `ClosedIsFrozen` look at one step, but from sound rows:
a handler finds the row of an ended stop or of a closed route only through a guard
that refuses it, and that the guard refuses is part of `Sound`.

**Overlapping requests.** The refinement maps the columns to the variables of
`StopLedger` (`Ledger` in `RouteRequests`). The invariant `RequestsSound` says of
each request under way that what it has read is behind the rows (`Behind`: flags
only go up, tallies only grow), and that what it is about to write is a handler's
`Effect` on what it has read. As a commit writes only what the handler changed,
the merge of an effect on old rows into newer ones is a step of the ledger on the
newer ones. That a departure is never taken back makes guards on it stay true,
which is why nothing comes before the departure even when requests overlap.

Which overlaps break what needs more (`OverlapSound`). What a request has missed
(`missed`) bounds how far the rows have gone from what it has read: `Drift` says
what each of the missed commits is able to write into a stop, and a guard that none
of them can falsify still holds at the commit. The parts of the invariant depend on
each other in one direction. The route's columns are sound whatever overlaps
(`ColumnsSound`). As long as no request that writes stops has missed an outcome, an
ended stop stays ended (`EndsSound`): nothing then reopens a stop under a finished
route, and rows are torn only by an arrival and an occurrence that cross. On top of
that, as long as no arrival was missed and no close, the tallies are those of one
story (`TalliesSound`). The case analysis is by the kind of row that is written
(`RowAfter`: unchanged, a leg, an arrival, an outcome, a return to the queue), not by
pairs of requests. The properties name the overlaps that the proof could not do
without, and no more: departures, closes, reopenings and settlements of
occurrences never tear a row.

**The queue.** `QueueSound` says who owns what. Everything that waits has a place in
the order (`BornSound`); a loop has applied what is behind it, and waits for the
earliest of the rest (`LoopSound`); every request under way belongs to the loop or
to the first attempt that waits for its answer, or its page is gone (`Owned`). That
nothing is lost follows from one line, that a queued action is in the store or has
taken effect: only an answer removes it, and an answer comes after the effect. An
ignored duplicate had such an action in the store when it was ignored.
That an action takes effect once needs its effect to be traceable (`Traced`: a
receipt, or a copy on its way to writing one) and at most one copy past the look-up
(`Busy`), and both hold of the actions for which none of the windows was hit (`raced`).

**Sessions.** While no commit on the account has overtaken another, the version is the
number of decisions to end the sessions, and so a pair of the current version is no
older than the last (`Steady`). That a session is thrown away only when the server
would refuse it needs that a refusal stays true: what was refused once (`Spent`: an
older version, or an account that is not active) is refused for ever, because
versions only grow and whatever activates the account raises its version. A login
form that is refused looks at no pair, which is why the property excepts it.

**Masters and roles.** `MastersSound` says of each nomination under way that it has
the lock of its carrier, and that the number of masters it has counted, and whether
there was a first, still hold (`Nominating`); removals and deactivations only make
the count smaller. The counting uses the library's facts on cardinality. `RolesSound`
says the same of what the other requests check, but only while they are alone
(`Checked`): no lock keeps it true, so `crossed` takes over where they are not.

**Registers.** `RegistersSound` ties the copies of a fact to the one they are made
from: the fleet of the carriers is exactly what the vehicles' rows say
(`FleetSound`), a row that is gone leaves no link, a carrier that a row names is
there, a crew is of present people and vehicles. Every request writes one row, so
the proof has, per request, one step for each copy it can disturb.
`ApprovedOnlyByReview` is a property of single steps: whichever form offers a driver
or vehicle to a branch, the link it adds waits there (`NewLinkWaits`, `OfferedWaits`),
and one that is there keeps its decision, also when it is lifted. `ServedBranchesOffered`
needs that a look at a vehicle leaves out only closed branches, which the look itself
remembers.

**Documents.** `DocumentsSound`: the number of a request is its own, nothing has
that id when it commits, and a commit writes no origin but that of the row it
inserts (`Effect`). The two ways of paying a period are then at the mercy of the
index alone, which refuses the second. `BooksAgree` is about histories in which no
commit was over another (`stale`): each commit is then one operation on what was in
the tables, and `AgreeingStep` shows that such an operation keeps stock, purchase and
entries. The part's quantity is a sum over movements, which the community modules
define by a fold. The lemmas about it (`FoldTotal`, `SumsAgree`, `SumsExist`,
`TotalChanged`) replace the induction on finite sets, which takes an operator as a
parameter, by the absence of a smallest counterexample among the subsets
(`Smallest`, from the well-founded order of inclusion).

**Sheets.** `ImportsSound`: unless an upload has missed a commit, what it is about
to insert is still new (`StillNew`), so there is one route and one stop for each order
that no sheet has given twice (`Once`). A row to be overwritten is as it was read, or
was written since the list was made (`StillRead`). What becomes of the list is argued
for the rows that are neither written since nor there twice (`Plain`): the first
reading lists all that the sheet changes in them (`Listed`), and so what the second
reading finds was on the list (`WasListed`); a list no longer than `MaxShown` was
shown as a whole (`ShortShown`). With two rows of one order the changes of a stop form
a chain from the value that was stored to the last one given (`StepsOfRows`, `LeftTyped`).
That an upload of a carrier's own user gives the carrier no load of another is `OwnLoad`.

**Maps.** `MapsSound`: what a job has read before no edit is still the plan that is
stored, and so is each line that no other job has replaced since (`Current`, column by
column); and the lines that are vouched for do fit (`FitSound`). A commit over
columns that another job has touched writes some and leaves some (`Written`), and what
it leaves is either what it has read or not vouched for, which is what `Fitting`
says. That the line of the planned order visits every stop once is a fact on ranks:
the number of stops before a stop runs through `1..n`, since an injection of a finite
set into one as large is onto. The planner may answer with any order; the composition
of two permutations is one, so what `optimize_sequence` stores is a line through the
same stops.

**The cursor.** `CursorSound`: messages are numbered without gaps; of those that are
owed a position (`Owed`: settled, and with coordinates) everything up to the cursor is
stored, and so is everything up to where any task, however old, has read. A message
that is settled at the moment of the commit was settled when its task looked at it,
since its unit has not left meanwhile (`SettledSound`). A task's answer is the next
interval, and what is owed of it is stored or about to be when it commits, so it does
not matter that a slow task sets the cursor back.

**The watch.** `WatchSound`: only a poll of the effect in force starts a watch, and
while it is under way its page is open; a poll of the effect that was disposed of
finds that out after each answer.

**Start-up.** `BootInv`: who works on the database holds the lock alone
(`LockHeld`); what a start has read is still true enough (`StillTrue`): no default
row has been added, no receivable has gone, and a freight differs from what was
read only if it has its receivable. So what the start bills is either missing
still, or the index refuses it. `Prepared` carries what is committed to those that
skip the work because their version is recorded.

Left to TLC. The five liveness properties (`Drains`, `CallsEnd`, `WatchEnds`,
`MessagesDealtWith`, `RefreshEnds`): liveness under fairness and ENABLED are out of
the prover's reach. So are the two refutations, which are counterexamples. Induction
over data is avoided as said under *Documents*; no module uses a RECURSIVE operator.

## 5. Not modelled, and what would come next

- Dashboards, reports, listings, read filters, notifications: they change nothing.
- Branding, settings, tenants, failure reasons, vehicle types: forms on one row.
- Storage, encryption, the audit's wording, the reading of spreadsheets: input and
  output. The permissions are a static table.
- Accounting beyond the posting of revenues, tax rules and their research,
  maintenance, tyres, contracts: documents like those of `FinanceDocuments`.
- The Android shell: it shows the web application and keeps the process alive; what
  it does to positions is in `DriverTracking` as the telephone's watch.
- Of the synchronisation: the creation of routes, orders that move between routes,
  two runs at a time (the sheet is read by one worker).
- The expiry of the refresh token and the external identity provider.

Next in line is a composition of `DriverQueue` with the handlers of `RouteHandlers` in
place of its reduced rules.
