--------------------------- MODULE FinanceDocuments ---------------------------
(***************************************************************************)
(* The documents of erp_admin that carry money or stock: a part and its     *)
(* movements, a purchase and its approval, the accounts payable and         *)
(* receivable, and the statement of one driver for one period: its entries, *)
(* its release, contest and acceptance.                                     *)
(*                                                                         *)
(* No handler takes a lock.  Each reads the rows it needs, decides, and     *)
(* commits the columns it has changed; what another has committed meanwhile *)
(* stays in the others.  A commit that breaks a unique index is rolled back *)
(* and answered with an error.  A request reads all its rows at one moment. *)
(***************************************************************************)
EXTENDS Integers, FiniteSets, FiniteSetsExt

CONSTANTS
    Slots,        \* requests that may run at the same time
    Daily,        \* a number: what the driver has earned on routes in the period
    MaxRequests   \* bound: requests made

VARIABLES
    db,        \* the tables
    request,   \* per slot: the request under way, with the tables as it read them
    made,      \* history: requests made so far; a request's number is the id of
               \* the rows it inserts
    stale      \* history: a commit differed from what its request would have done
               \* had it run on what was then in the tables

vars == <<db, request, made, stale>>

Ids == 1..MaxRequests
NoId == 0
Amounts == 1..2

NoAccount == [kind |-> "none", origin |-> "none", discount |-> FALSE, amount |-> 0,
              status |-> "none", invoice |-> FALSE]
NoAdjustment == [kind |-> "none", amount |-> 0, voided |-> FALSE, account |-> NoId]

PurchaseStates == {"none", "solicitada", "em_analise", "ajuste_solicitado", "aguardando_aprovacao",
                   "aprovada", "rejeitada", "comprada", "recebida"}

FinancialAccount ==
    [kind: {"payable", "receivable", "none"},
     origin: {"manual", "purchase", "statement", "acceptance", "none"},
     discount: BOOLEAN,   \* category desconto_motorista
     amount: Int, status: {"none", "pendente", "paga", "recebida", "cancelada"}, invoice: BOOLEAN]
DriverStatementAdjustment ==
    [kind: {"none", "earning", "deduction"}, amount: 0..2, voided: BOOLEAN, account: Ids \cup {NoId}]
\* Of the workflow tasks the one that the contest opens.
WorkflowTask == {"none", "open", "returned"}

Tables ==
    [quantity: Nat,                      \* parts.quantity
     movements: [Ids -> -2..2],          \* stock_movements
     purchase: [status: PurchaseStates, account: Ids \cup {NoId}],
     accounts: [Ids -> FinancialAccount],
     adjustments: [Ids -> DriverStatementAdjustment],
     period: [status: {"none", "released", "contested", "accepted"}, net: Int,
              version: 0..MaxRequests, payable: Ids \cup {NoId}],
     task: WorkflowTask]

Ops == {"move", "create", "start", "submit", "adjust", "approve", "reject", "purchased", "received",
        "account", "update", "settle", "invoice", "cancel", "payable", "entry", "void",
        "release", "contest", "accept", "resolve"}

\* What a request asks for: `row' an account or an entry, `arg' its choice.
Asked == [op: Ops, row: Ids \cup {NoId}, arg: {"none", "entrada", "saida", "payable", "receivable",
          "discount", "other", "earning", "deduction"}, amount: Amounts]

TypeOK ==
    /\ db \in Tables
    /\ \A s \in Slots : \/ request[s] = {}
                        \/ \E r \in request[s] : /\ request[s] = {r}
                                                 /\ r.ask \in Asked /\ r.id \in Ids /\ r.read \in Tables
    /\ made \in 0..MaxRequests /\ stale \in BOOLEAN

Init ==
    /\ db = [quantity |-> 1, movements |-> [i \in Ids |-> 0],
             purchase |-> [status |-> "none", account |-> NoId],
             accounts |-> [i \in Ids |-> NoAccount],
             adjustments |-> [i \in Ids |-> NoAdjustment],
             period |-> [status |-> "none", net |-> 0, version |-> 0, payable |-> NoId],
             task |-> "none"]
    /\ request = [s \in Slots |-> {}]
    /\ made = 0 /\ stale = FALSE

-----------------------------------------------------------------------------
(* Stock: move_stock                                                       *)

Delta(q) == IF q.arg = "entrada" THEN q.amount ELSE -q.amount

CanMove(d, q) == q.arg \in {"entrada", "saida"} /\ d.quantity + Delta(q) >= 0

AfterMove(d, q, id) == [d EXCEPT !.quantity = @ + Delta(q), !.movements[id] = Delta(q)]

-----------------------------------------------------------------------------
(* Purchases                                                               *)

\* create_purchase, start_purchase_review, submit_purchase_approval,
\* request_purchase_adjustment, reject_purchase, mark_purchase_executed, mark_purchase_received
PurchaseStep(op) ==
    CASE op = "create"    -> [from |-> {"none"}, to |-> "solicitada"]
      [] op = "start"     -> [from |-> {"solicitada", "ajuste_solicitado"}, to |-> "em_analise"]
      [] op = "submit"    -> [from |-> {"em_analise"}, to |-> "aguardando_aprovacao"]
      [] op = "adjust"    -> [from |-> {"em_analise", "aguardando_aprovacao"}, to |-> "ajuste_solicitado"]
      [] op = "reject"    -> [from |-> {"aguardando_aprovacao", "solicitada"}, to |-> "rejeitada"]
      [] op = "purchased" -> [from |-> {"aprovada"}, to |-> "comprada"]
      [] op = "received"  -> [from |-> {"comprada"}, to |-> "recebida"]
PurchaseOps == {"create", "start", "submit", "adjust", "reject", "purchased", "received"}

CanApprove(d) == d.purchase.status \in {"aguardando_aprovacao", "solicitada"}

Pending(kind, origin, amount) ==
    [kind |-> kind, origin |-> origin, discount |-> FALSE, amount |-> amount,
     status |-> "pendente", invoice |-> FALSE]

AfterApprove(d, id) ==
    [d EXCEPT !.purchase = [status |-> "aprovada", account |-> id],
              !.accounts[id] = Pending("payable", "purchase", 1)]

-----------------------------------------------------------------------------
(* The entries of the statement                                            *)

Entries(d) == {j \in Ids : d.adjustments[j].kind # "none" /\ ~d.adjustments[j].voided}
Signed(a) == IF a.kind = "earning" THEN a.amount ELSE -a.amount

\* _driver_statement_data: what the routes have earned and the entries not voided.
Net(d) == Daily + MapThenSumSet(LAMBDA j : Signed(d.adjustments[j]), Entries(d))

Entry(kind, amount, account) == [kind |-> kind, amount |-> amount, voided |-> FALSE, account |-> account]

\* The entry of an account; financial_account_id is unique.
EntryOf(d, i) == {j \in Ids : d.adjustments[j].account = i}
Voided(d, i) == [j \in Ids |-> IF j \in EntryOf(d, i) THEN [d.adjustments[j] EXCEPT !.voided = TRUE]
                               ELSE d.adjustments[j]]

-----------------------------------------------------------------------------
(* Accounts payable and receivable                                         *)

\* create_financial_account: a driver's discount is a receivable and comes with its
\* deduction.
AfterAccount(d, q, id) ==
    [d EXCEPT !.accounts[id] = [Pending(IF q.arg = "payable" THEN "payable" ELSE "receivable",
                                        "manual", q.amount) EXCEPT !.discount = (q.arg = "discount")],
              !.adjustments[id] = IF q.arg = "discount" THEN Entry("deduction", q.amount, id) ELSE @]

\* The deductions after the update of account i; one that was voided stays voided.
UpdatedEntries(d, q, id) ==
    IF q.arg = "discount"
    THEN IF EntryOf(d, q.row) = {} THEN [d.adjustments EXCEPT ![id] = Entry("deduction", q.amount, q.row)]
         ELSE [j \in Ids |-> IF j \in EntryOf(d, q.row)
                             THEN [d.adjustments[j] EXCEPT !.amount = q.amount] ELSE d.adjustments[j]]
    ELSE IF d.accounts[q.row].discount THEN Voided(d, q.row) ELSE d.adjustments

\* update_financial_account: only a receivable has the category of a discount.
CanUpdate(d, q) ==
    /\ d.accounts[q.row].status = "pendente"
    /\ q.arg = "discount" => d.accounts[q.row].kind = "receivable"
AfterUpdate(d, q, id) ==
    [d EXCEPT !.accounts[q.row].discount = (q.arg = "discount"), !.accounts[q.row].amount = q.amount,
              !.adjustments = UpdatedEntries(d, q, id)]

\* settle_financial_account, and settle_receivable_with_invoice for a receivable
CanSettle(d, q, kind) == d.accounts[q.row].status = "pendente" /\ d.accounts[q.row].kind = kind
AfterSettle(d, q) == [d EXCEPT !.accounts[q.row].status = "paga"]
AfterInvoice(d, q) == [d EXCEPT !.accounts[q.row].status = "recebida", !.accounts[q.row].invoice = TRUE]

\* Variant: the deduction of a cancelled discount stays in the statement.
AfterCancel_KeepingDeduction(d, q) == [d EXCEPT !.accounts[q.row].status = "cancelada"]

AfterCancel(d, q) ==
    [d EXCEPT !.accounts[q.row].status = "cancelada", !.adjustments = Voided(d, q.row)]

-----------------------------------------------------------------------------
(* The statement of the period                                             *)

\* The accounts made for the period, whatever has become of them.
OfPeriod(accounts) == {i \in Ids : accounts[i].origin \in {"statement", "acceptance"}}

\* create_driver_statement_payable
CanPay(d) == Net(d) > 0 /\ OfPeriod(d.accounts) = {}
AfterPay(d, id) == [d EXCEPT !.accounts[id] = Pending("payable", "statement", Net(d))]

\* create_driver_adjustment, void_driver_adjustment
AfterEntry(d, q, id) == [d EXCEPT !.adjustments[id] = Entry(q.arg, q.amount, NoId)]
CanVoid(d, q) == q.row \in Entries(d)
AfterVoid(d, q) == [d EXCEPT !.adjustments[q.row].voided = TRUE]

\* release_driver_statement: a contest under way is closed with it, its task is not.
CanRelease(d) == Net(d) > 0 /\ d.period.status # "accepted"
Released(d) == [d.period EXCEPT !.status = "released", !.net = Net(d), !.version = @ + 1]

\* contest_driver_statement
AfterContest(d) == [d EXCEPT !.period.status = "contested", !.task = "open"]

\* accept_driver_statement: the account is of the amount that was released.
AfterAccept(d, id) ==
    [d EXCEPT !.accounts[id] = Pending("payable", "acceptance", d.period.net),
              !.period.status = "accepted", !.period.payable = id]

\* resolve_driver_statement: the statement with the new entry, whatever its sign.
AfterResolve(d, q, id) ==
    LET new == AfterEntry(d, q, id)
    IN [new EXCEPT !.period = Released(new), !.task = IF @ = "none" THEN @ ELSE "returned"]

-----------------------------------------------------------------------------
(* The handlers                                                            *)

\* What the handler answers an error to changes nothing.
Can(d, q) ==
    CASE q.op = "move"        -> CanMove(d, q)
      [] q.op \in PurchaseOps -> d.purchase.status \in PurchaseStep(q.op).from
      [] q.op = "approve"     -> CanApprove(d)
      [] q.op = "account"     -> q.arg \in {"payable", "receivable", "discount"}
      [] q.op = "update"      -> CanUpdate(d, q)
      [] q.op = "settle"      -> CanSettle(d, q, "payable")
      [] q.op = "invoice"     -> CanSettle(d, q, "receivable")
      [] q.op = "cancel"      -> d.accounts[q.row].status = "pendente"
      [] q.op = "payable"     -> CanPay(d)
      [] q.op = "entry"       -> TRUE
      [] q.op = "void"        -> CanVoid(d, q)
      [] q.op = "release"     -> CanRelease(d)
      [] q.op = "contest"     -> d.period.status = "released"
      [] q.op = "accept"      -> d.period.status = "released"
      [] q.op = "resolve"     -> d.period.status = "contested"

After(d, q, id) ==
    CASE q.op = "move"        -> AfterMove(d, q, id)
      [] q.op \in PurchaseOps -> [d EXCEPT !.purchase.status = PurchaseStep(q.op).to]
      [] q.op = "approve"     -> AfterApprove(d, id)
      [] q.op = "account"     -> AfterAccount(d, q, id)
      [] q.op = "update"      -> AfterUpdate(d, q, id)
      [] q.op = "settle"      -> AfterSettle(d, q)
      [] q.op = "invoice"     -> AfterInvoice(d, q)
      [] q.op = "cancel"      -> AfterCancel(d, q)
      [] q.op = "payable"     -> AfterPay(d, id)
      [] q.op = "entry"       -> AfterEntry(d, q, id)
      [] q.op = "void"        -> AfterVoid(d, q)
      [] q.op = "release"     -> [d EXCEPT !.period = Released(d)]
      [] q.op = "contest"     -> AfterContest(d)
      [] q.op = "accept"      -> AfterAccept(d, id)
      [] q.op = "resolve"     -> AfterResolve(d, q, id)

\* What the routes ask: the operations that take a row, a choice or an amount.
Questions ==
    LET Ask(ops, rows, args, amounts) == [op: ops, row: rows, arg: args, amount: amounts]
    IN Ask({"move"}, {NoId}, {"entrada", "saida"}, Amounts)
       \cup Ask(PurchaseOps \cup {"approve", "payable", "release", "contest", "accept"}, {NoId}, {"none"}, {1})
       \cup Ask({"account"}, {NoId}, {"payable", "receivable", "discount"}, {2})
       \cup Ask({"update"}, Ids, {"discount", "other"}, Amounts)
       \cup Ask({"settle", "invoice", "cancel", "void"}, Ids, {"none"}, {1})
       \cup Ask({"entry", "resolve"}, {NoId}, {"earning", "deduction"}, {1})

\* The reads of a handler, up to where it would refuse.
Begin(s, q) ==
    /\ request[s] = {} /\ made < MaxRequests
    /\ Can(db, q)
    /\ made' = made + 1
    /\ request' = [request EXCEPT ![s] = {[ask |-> q, id |-> made + 1, read |-> db]}]
    /\ UNCHANGED <<db, stale>>

-----------------------------------------------------------------------------
(* The commit                                                              *)

MergedRow(now, read, new) == [c \in DOMAIN now |-> IF new[c] = read[c] THEN now[c] ELSE new[c]]
MergedTable(now, read, new) == [i \in Ids |-> MergedRow(now[i], read[i], new[i])]
MergedColumn(now, read, new) == IF new = read THEN now ELSE new

\* Only the columns the handler has changed are written.
Merged(now, read, new) ==
    [quantity    |-> MergedColumn(now.quantity, read.quantity, new.quantity),
     movements   |-> [i \in Ids |-> MergedColumn(now.movements[i], read.movements[i], new.movements[i])],
     purchase    |-> MergedRow(now.purchase, read.purchase, new.purchase),
     accounts    |-> MergedTable(now.accounts, read.accounts, new.accounts),
     adjustments |-> MergedTable(now.adjustments, read.adjustments, new.adjustments),
     period      |-> MergedRow(now.period, read.period, new.period),
     task        |-> MergedColumn(now.task, read.task, new.task)]

\* Variant: the accounts of a period have no unique index.
Refused_NotIndexed(r, new) == FALSE

\* The unique indexes of the accounts of a period, the entry of an account, the
\* period of a driver and the workflow task of a period: the row that a request
\* inserts is there already.
Refused(r, new) ==
    \/ r.id \in OfPeriod(new.accounts) /\ OfPeriod(db.accounts) # {}
    \/ /\ new.adjustments[r.id].account # NoId
       /\ EntryOf(db, new.adjustments[r.id].account) # {}
    \/ r.ask.op = "release" /\ r.read.period.status = "none" /\ db.period.status # "none"
    \/ r.ask.op = "contest" /\ r.read.task = "none" /\ db.task # "none"

Commit(s) ==
    /\ \E r \in request[s] :
          LET new    == After(r.read, r.ask, r.id)
              merged == IF Refused(r, new) THEN db ELSE Merged(db, r.read, new)
          IN /\ db' = merged
             /\ stale' = (stale \/ merged # IF Can(db, r.ask) THEN After(db, r.ask, r.id) ELSE db)
    /\ request' = [request EXCEPT ![s] = {}]
    /\ UNCHANGED made

Next == \E s \in Slots : Commit(s) \/ \E q \in Questions : Begin(s, q)

Spec == Init /\ [][Next]_vars

-----------------------------------------------------------------------------

\* However requests overlap, a driver is paid once for a period: by the account of
\* the statement or by the one of the acceptance, never by both, and an accepted
\* statement has its account (create_driver_statement_payable,
\* accept_driver_statement and the index on the accounts of a period).
PaidOnce ==
    /\ Cardinality(OfPeriod(db.accounts)) <= 1
    /\ db.period.payable # NoId => OfPeriod(db.accounts) = {db.period.payable}

\* The books agree as long as no request has committed over another: the quantity
\* of the part is the sum of its movements, a purchase has its one account payable
\* once it is approved and none before, and a deduction that counts in the statement
\* and comes from an account has that account behind it, a driver's discount, not
\* cancelled, of the same amount (move_stock, approve_purchase,
\* update_financial_account, cancel_financial_account).
BooksAgree ==
    ~stale =>
    /\ db.quantity = 1 + MapThenSumSet(LAMBDA i : db.movements[i], Ids)
    /\ {i \in Ids : db.accounts[i].origin = "purchase"}
         = IF db.purchase.status \in {"aprovada", "comprada", "recebida"} THEN {db.purchase.account} ELSE {}
    /\ \A j \in Entries(db) : LET i == db.adjustments[j].account IN
          i # NoId => /\ db.accounts[i].discount /\ db.accounts[i].status # "cancelada"
                      /\ db.accounts[i].amount = db.adjustments[j].amount

=============================================================================
