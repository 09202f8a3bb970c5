------------------------------ MODULE MCBackOffice ------------------------------
(* The registers of CarrierAccess, the documents of FinanceDocuments and the    *)
(* start of a release (DatabaseBootstrap) in one bounded instance for TLC.  No   *)
(* action of one reads a row of another, so a behaviour is of one of them.       *)
EXTENDS CarrierAccess, DatabaseBootstrap, FiniteSets, TLC

CONSTANTS Slots, Daily, MaxDocumentRequests

ASSUME DocumentsAssumption == MaxDocumentRequests \in Nat

VARIABLES about, db, request, made, stale

Documents == INSTANCE FinanceDocuments WITH MaxRequests <- MaxDocumentRequests

\* Carriers are interchangeable, and so are branches and slots.
IdSymmetry == Permutations(Carriers) \cup Permutations(Branches) \cup Permutations(Slots)

\* The desks share no table but the accounts, so a behaviour that uses several of
\* them says nothing more: each is taken by itself.
Asking(ops) == \E s \in Slots : \E r \in request[s] : r.ask.op \in ops
UsesStock == Asking({"move"}) \/ \E i \in Documents!Ids : db.movements[i] # 0
UsesPurchase == Asking(Documents!PurchaseOps \cup {"approve"}) \/ db.purchase.status # "none"
UsesStatement ==
    \/ Asking(Documents!Ops \ (Documents!PurchaseOps \cup {"move", "approve"}))
    \/ \E i \in Documents!Ids :
          db.adjustments[i].kind # "none" \/ db.accounts[i].origin \notin {"none", "purchase"}
    \/ db.period.status # "none"
OneDesk == Cardinality({x \in 1..3 : <<UsesStock, UsesPurchase, UsesStatement>>[x]}) <= 1

documentVars == <<db, request, made, stale>>

\* One database to start from is enough for a behaviour that does not start.
Fresh == rows.default = 0 /\ rows.profile = "absent"

BackOfficeInit ==
    /\ Init /\ Documents!Init /\ BootInit
    /\ \/ about \in {"registers", "documents"} /\ Fresh
       \/ about = "startup"
BackOfficeNext ==
    \/ about = "registers" /\ Next /\ UNCHANGED <<about, documentVars, bootVars>>
    \/ about = "documents" /\ Documents!Next /\ UNCHANGED <<about, vars, bootVars>>
    \/ about = "startup" /\ BootNext /\ UNCHANGED <<about, vars, documentVars>>
BackOfficeSpec == BackOfficeInit /\ [][BackOfficeNext]_<<about, vars, documentVars, bootVars>>

\* See the modules for what these say.
BooksAgree == Documents!BooksAgree
PaidOnce == Documents!PaidOnce
=============================================================================
