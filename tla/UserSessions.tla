----------------------------- MODULE UserSessions -----------------------------
(***************************************************************************)
(* The session of one user: the pair of tokens that all tabs of the browser *)
(* share, the interceptor of every tab that renews the pair when a call is  *)
(* refused, and the version number on the account that an administrator's   *)
(* reset or block raises so that the pairs issued before are refused.       *)
(*                                                                         *)
(* Calls, renewals, a login or a change of password, and one request of an  *)
(* administrator are all under way at the same time; answers may be lost.   *)
(***************************************************************************)
EXTENDS Naturals, FiniteSets

CONSTANTS
    Tabs,        \* the open tabs of the browser
    Calls,       \* the calls to the API that a tab may have under way
    TabOf,       \* the tab of each call
    Kinds,       \* the requests of an administrator considered
    MaxCommits   \* bound: resets, changes of situation and of password

ASSUME TabOfAssumption == TabOf \in [Calls -> Tabs]
ASSUME BoundAssumption ==
    /\ MaxCommits \in Nat
    /\ Kinds \subseteq {"reset", "activate", "deactivate", "block", "repair"}

VARIABLES
    account,   \* the user's row
    office,    \* the request of an administrator on this user, if one runs
    store,     \* localStorage: the pair of tokens
    calls,     \* per call: where it is, and the pair it was sent with
    renewal,   \* per tab: refreshPromise
    form,      \* per tab: the login or the change of password under way
    overtaken, \* history: a commit wrote a version it had read before another's
    ended      \* history: what threw the session away while no pair is stored

sessionVars == <<account, office, store, calls, renewal, form, overtaken, ended>>

NoPair == [version |-> 0, cut |-> 0, life |-> "none"]
\* The access token expires; the refresh token is taken to outlive the behaviour.
Lives == {"fresh", "stale"}

\* `cut' counts the commits that were to end the sessions before them.
Accounts == [active: BOOLEAN, blocked: BOOLEAN, mustChange: BOOLEAN,
             version: 1..(MaxCommits + 1), cut: 0..MaxCommits]
TokenPairs == [version: 1..(MaxCommits + 1), cut: 0..MaxCommits, life: Lives] \cup {NoPair}

\* A session ends by the user's logout, by a login form whose password was refused,
\* or by the refusal of a call or renewal sent with a pair of that version.
Endings == [by: {"user", "form", "refusal"}, version: 0..(MaxCommits + 1)]
ByUser == [by |-> "user", version |-> 0]
ByForm == [by |-> "form", version |-> 0]
ByRefusal(p) == [by |-> "refusal", version |-> p.version]

NoRequest == [kind |-> "none"]
IdleCall == [at |-> "idle", pair |-> NoPair, retried |-> FALSE]
NoRenewal == [at |-> "none", pair |-> NoPair]
NoForm == [at |-> "none", pair |-> NoPair]

SessionTypeOK ==
    /\ account \in Accounts
    /\ office \in {NoRequest} \cup [kind: Kinds, read: Accounts]
    /\ store \in TokenPairs
    /\ calls \in [Calls -> [at: {"idle", "sent", "ok", "unauthorised", "mustChange", "waiting"},
                            pair: TokenPairs, retried: BOOLEAN]]
    /\ renewal \in [Tabs -> [at: {"none", "sent", "ok", "refused", "itself"}, pair: TokenPairs]]
    /\ \A t \in Tabs : form[t] \in {NoForm} \cup [at: {"issued"}, pair: TokenPairs]
                                   \cup [at: {"changing", "orphan"}, read: Accounts]
    /\ overtaken \in BOOLEAN
    /\ ended \in Endings

SessionInit ==
    /\ account = [active |-> TRUE, blocked |-> FALSE, mustChange |-> FALSE, version |-> 1, cut |-> 0]
    /\ office = NoRequest
    /\ store = NoPair
    /\ calls = [c \in Calls |-> IdleCall]
    /\ renewal = [t \in Tabs |-> NoRenewal]
    /\ form = [t \in Tabs |-> NoForm]
    /\ overtaken = FALSE
    /\ ended = ByUser

-----------------------------------------------------------------------------
(* What the server decides                                                 *)

\* _tokens
Tokens(a) == [version |-> a.version, cut |-> a.cut, life |-> "fresh"]

\* get_authenticated_user
AccessAccepted(a, p) ==
    p.life = "fresh" /\ a.active /\ ~a.blocked /\ p.version = a.version

\* refresh: does not look at `blocked'
RefreshAccepted(a, p) ==
    p # NoPair /\ a.active /\ p.version = a.version

\* login
LoginAccepted(a) == a.active /\ ~a.blocked

\* A commit writes the columns the request has changed from what it read.
Column(new, read, current) == IF new = read THEN current ELSE new

\* change_password, reset_password, repair_driver_access and apply_status
MustChangeAfter(kind, read) ==
    CASE kind = "reset" -> TRUE
      [] kind = "change" -> FALSE
      [] OTHER -> read.mustChange
ActiveAfter(kind, read) ==
    CASE kind = "activate" -> TRUE
      [] kind \in {"deactivate", "block"} -> FALSE
      [] OTHER -> read.active
BlockedAfter(kind, read) ==
    CASE kind = "block" -> TRUE
      [] kind \in {"activate", "deactivate"} -> FALSE
      [] OTHER -> read.blocked

\* Variant: resetting the password leaves the version alone.
VersionAfter_SparingReset(kind, read) == IF kind = "reset" THEN read.version ELSE read.version + 1

VersionAfter(kind, read) == read.version + 1

Committed(kind, read) ==
    [active     |-> Column(ActiveAfter(kind, read), read.active, account.active),
     blocked    |-> Column(BlockedAfter(kind, read), read.blocked, account.blocked),
     mustChange |-> Column(MustChangeAfter(kind, read), read.mustChange, account.mustChange),
     version    |-> Column(VersionAfter(kind, read), read.version, account.version),
     cut        |-> account.cut + 1]

Commit(kind, read) ==
    /\ account' = Committed(kind, read)
    /\ overtaken' = (overtaken \/ read.version # account.version)

\* How many commits requests under way may still make.
Pending == Cardinality({t \in Tabs : form[t].at \in {"changing", "orphan"}})
           + IF office = NoRequest THEN 0 ELSE 1
MayBegin == account.cut + Pending < MaxCommits

\* change_user_status, reset_password, repair_driver_access
BeginOffice(kind) ==
    /\ office = NoRequest /\ MayBegin
    /\ office' = [kind |-> kind, read |-> account]
    /\ UNCHANGED <<account, store, calls, renewal, form, overtaken, ended>>

CommitOffice ==
    /\ office # NoRequest
    /\ Commit(office.kind, office.read)
    /\ office' = NoRequest
    /\ UNCHANGED <<store, calls, renewal, form, ended>>

-----------------------------------------------------------------------------
(* The tab: storage and page                                               *)

\* location.href = ...: the page is left, and what waited for answers with it.
LeavePage(t) ==
    /\ calls' = [c \in Calls |-> IF TabOf[c] = t THEN IdleCall ELSE calls[c]]
    /\ renewal' = [renewal EXCEPT ![t] = NoRenewal]
    /\ form' = [form EXCEPT ![t] =
                  IF form[t].at \in {"changing", "orphan"}
                  THEN [at |-> "orphan", read |-> form[t].read] ELSE NoForm]

\* The last lines of the interceptor, and logout.
ClearSession(t, ending) == store' = NoPair /\ ended' = ending /\ LeavePage(t)

Logout(t) ==
    /\ store # NoPair
    /\ ClearSession(t, ByUser)
    /\ UNCHANGED <<account, office, overtaken>>

\* Time passes.
Lapse ==
    /\ store.life = "fresh"
    /\ store' = [store EXCEPT !.life = "stale"]
    /\ UNCHANGED <<account, office, calls, renewal, form, overtaken, ended>>

\* login: the answer is on its way back to the tab.
Login(t) ==
    /\ form[t] = NoForm /\ LoginAccepted(account)
    /\ \A c \in Calls : TabOf[c] = t => calls[c].at = "idle"
    /\ form' = [form EXCEPT ![t] = [at |-> "issued", pair |-> Tokens(account)]]
    /\ UNCHANGED <<account, office, store, calls, renewal, overtaken, ended>>

\* A wrong name or password: this 401 is never renewed, and so the last lines of the
\* interceptor throw away the pair that the other tabs share.  The login page stays.
LoginRefused(t) ==
    /\ form[t] = NoForm /\ store # NoPair
    /\ \A c \in Calls : TabOf[c] = t => calls[c].at = "idle"
    /\ store' = NoPair /\ ended' = ByForm
    /\ UNCHANGED <<account, office, calls, renewal, form, overtaken>>

\* change_password, from the page that shows while the password is provisional.
BeginChange(t) ==
    /\ form[t] = NoForm /\ MayBegin
    /\ account.mustChange /\ AccessAccepted(account, store)
    /\ form' = [form EXCEPT ![t] = [at |-> "changing", read |-> account]]
    /\ UNCHANGED <<account, office, store, calls, renewal, overtaken, ended>>

CommitChange(t) ==
    /\ form[t].at \in {"changing", "orphan"}
    /\ Commit("change", form[t].read)
    /\ form' = [form EXCEPT ![t] =
                  IF form[t].at = "changing"
                  THEN [at |-> "issued", pair |-> Tokens(account')] ELSE NoForm]
    /\ UNCHANGED <<office, store, calls, renewal, ended>>

\* storeTokens
StoreTokens(t) ==
    /\ form[t].at = "issued"
    /\ store' = form[t].pair /\ ended' = ByUser
    /\ form' = [form EXCEPT ![t] = NoForm]
    /\ UNCHANGED <<account, office, calls, renewal, overtaken>>

\* The answer to a login or a change of password does not arrive.
FormLost(t) ==
    /\ form[t].at = "issued"
    /\ form' = [form EXCEPT ![t] = NoForm]
    /\ UNCHANGED <<account, office, store, calls, renewal, overtaken, ended>>

-----------------------------------------------------------------------------
(* A call and the interceptors of api.ts                                   *)

\* Variant: the renewal's own refusal goes the way of any other call's.
MayRefresh_AlsoItself(url, retried) == ~retried /\ store # NoPair

\* canRefresh
MayRefresh(url, retried) == url # "/auth/refresh" /\ ~retried /\ store # NoPair

Sent(p, retried) == [at |-> "sent", pair |-> p, retried |-> retried]

Answered(how) == [at |-> how, pair |-> NoPair, retried |-> FALSE]

Send(c) ==
    /\ calls[c].at = "idle"
    /\ calls' = [calls EXCEPT ![c] = Sent(store, FALSE)]
    /\ UNCHANGED <<account, office, store, renewal, form, overtaken, ended>>

\* get_authenticated_user and get_current_user
Answer(c) ==
    /\ calls[c].at = "sent"
    /\ calls' = [calls EXCEPT ![c] =
                   IF ~AccessAccepted(account, calls[c].pair) THEN [@ EXCEPT !.at = "unauthorised"]
                   ELSE Answered(IF account.mustChange THEN "mustChange" ELSE "ok")]
    /\ UNCHANGED <<account, office, store, renewal, form, overtaken, ended>>

\* The answer arrives, or no answer does: the caller is told.
Settle(c) ==
    /\ calls[c].at \in {"sent", "ok", "mustChange"}
    /\ calls' = [calls EXCEPT ![c] = IdleCall]
    /\ UNCHANGED <<account, office, store, renewal, form, overtaken, ended>>

\* A provisional password sends the tab to its page.
ToChangePassword(c) ==
    /\ calls[c].at = "mustChange"
    /\ LeavePage(TabOf[c])
    /\ UNCHANGED <<account, office, store, overtaken, ended>>

\* A refused call waits for the tab's renewal, which it starts if none runs.
AwaitRenewal(c) ==
    LET t == TabOf[c] IN
    /\ calls[c].at = "unauthorised" /\ MayRefresh("a call", calls[c].retried)
    /\ calls' = [calls EXCEPT ![c] = [at |-> "waiting", pair |-> NoPair, retried |-> TRUE]]
    /\ renewal' = IF renewal[t].at = "none"
                  THEN [renewal EXCEPT ![t] = [at |-> "sent", pair |-> store]] ELSE renewal
    /\ UNCHANGED <<account, office, store, form, overtaken, ended>>

EndSession(c) ==
    /\ calls[c].at = "unauthorised" /\ ~MayRefresh("a call", calls[c].retried)
    /\ ClearSession(TabOf[c], ByRefusal(calls[c].pair))
    /\ UNCHANGED <<account, office, overtaken>>

\* refresh
AnswerRenewal(t) ==
    /\ renewal[t].at = "sent"
    /\ renewal' = [renewal EXCEPT ![t] =
                     IF RefreshAccepted(account, renewal[t].pair)
                     THEN [at |-> "ok", pair |-> Tokens(account)]
                     ELSE [at |-> "refused", pair |-> renewal[t].pair]]
    /\ UNCHANGED <<account, office, store, calls, form, overtaken, ended>>

Waiting(t) == {c \in Calls : TabOf[c] = t /\ calls[c].at = "waiting"}

\* The new pair is stored and the calls that waited are repeated with it.
Renewed(t) ==
    /\ renewal[t].at = "ok"
    /\ store' = renewal[t].pair /\ ended' = ByUser
    /\ calls' = [c \in Calls |-> IF c \in Waiting(t) THEN Sent(renewal[t].pair, TRUE) ELSE calls[c]]
    /\ renewal' = [renewal EXCEPT ![t] = NoRenewal]
    /\ UNCHANGED <<account, office, form, overtaken>>

\* The refusal of a renewal is an answer 401 like others, and goes through the
\* same interceptor; had it to be renewed, it would wait for itself.
NotRenewed(t) ==
    /\ renewal[t].at = "refused"
    /\ IF MayRefresh("/auth/refresh", FALSE)
       THEN renewal' = [renewal EXCEPT ![t].at = "itself"] /\ UNCHANGED <<store, calls, form, ended>>
       ELSE ClearSession(t, ByRefusal(renewal[t].pair))
    /\ UNCHANGED <<account, office, overtaken>>

\* Variant: a renewal without an answer ends the session.
KeptWithoutAnswer_Nothing(t) == ClearSession(t, ByRefusal(renewal[t].pair))

\* No network, or the server is down: the session stays.
KeptWithoutAnswer(t) ==
    /\ calls' = [c \in Calls |-> IF c \in Waiting(t) THEN IdleCall ELSE calls[c]]
    /\ renewal' = [renewal EXCEPT ![t] = NoRenewal]
    /\ UNCHANGED <<store, form, ended>>

RenewalLost(t) ==
    /\ renewal[t].at \in {"sent", "ok", "refused"}
    /\ KeptWithoutAnswer(t)
    /\ UNCHANGED <<account, office, overtaken>>

-----------------------------------------------------------------------------
CallStep(c) == Answer(c) \/ Settle(c) \/ ToChangePassword(c) \/ AwaitRenewal(c) \/ EndSession(c)
RenewalStep(t) == AnswerRenewal(t) \/ Renewed(t) \/ NotRenewed(t) \/ RenewalLost(t)

SessionNext ==
    \/ \E kind \in Kinds : BeginOffice(kind)
    \/ CommitOffice
    \/ Lapse
    \/ \E t \in Tabs : \/ Logout(t) \/ Login(t) \/ LoginRefused(t) \/ BeginChange(t) \/ CommitChange(t)
                       \/ StoreTokens(t) \/ FormLost(t) \/ RenewalStep(t)
    \/ \E c \in Calls : Send(c) \/ CallStep(c)

\* A request is answered or given up, and a tab handles what it receives.
Fairness ==
    /\ \A c \in Calls : WF_sessionVars(CallStep(c))
    /\ \A t \in Tabs : WF_sessionVars(RenewalStep(t))

SessionSpec == SessionInit /\ [][SessionNext]_sessionVars /\ Fairness

-----------------------------------------------------------------------------
Held == {store} \cup {calls[c].pair : c \in Calls} \cup {renewal[t].pair : t \in Tabs}
        \cup {form[t].pair : t \in {u \in Tabs : form[u].at = "issued"}}

\* A pair of tokens issued before the last reset, change of password or of
\* situation is never again one the server takes, whichever tab holds it (the
\* version check of deps.py and of refresh), unless two such requests overlapped
\* and one wrote the version it had read before the other's commit.
OldPairsRefused ==
    overtaken \/ \A p \in Held : p.version = account.version => p.cut = account.cut

\* The interceptor throws away a session that the server would renew (api.ts: "a
\* limpeza abaixo encerra a sessao quando o refresh expirou ou foi invalidado") only
\* in two cases: another tab stored it after this tab's own pair had been sent, or
\* the 401 is the answer to a login form, which says nothing about the session.
SessionEndedOnlyWhenRefused ==
    [][store # NoPair /\ store' = NoPair
       => \/ ended'.by \in {"user", "form"}
          \/ ended'.version # store.version
          \/ ~RefreshAccepted(account, store)
          \/ overtaken]_sessionVars

\* Every call of a page is answered, given up or left with its page: no call
\* waits for ever for a renewal, and none is refused and renewed in a circle.
CallsEnd == \A c \in Calls : calls[c].at # "idle" ~> calls[c].at = "idle"
=============================================================================
