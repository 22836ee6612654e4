------------------------------- MODULE Pages -------------------------------
(***************************************************************************)
(* The pages that show a list, a form and, for some, the detail of a row   *)
(* (frontend/src/pages: InvoicesPage, PurchasesPage, ExpensesPage,         *)
(* TeamPage and four tabs of AccountingPage; frontend/src/admin/tabs:      *)
(* MerchantsTab, PlansTab and StaffTab).  They share one shape:            *)
(*                                                                         *)
(*   - a handler posts, then reads the list or the detail again, and in    *)
(*     `finally' enables its button;                                       *)
(*   - what it read before an await it uses after it: the row it was       *)
(*     called for, the detail that was open;                               *)
(*   - every click of a form or of a payment makes a new                   *)
(*     clientReferenceId, so the server cannot tell a second attempt from  *)
(*     a second document.                                                  *)
(*                                                                         *)
(* One tab, one user, and a network that may lose a request or an answer;  *)
(* a request the page has given up may reach the server later.             *)
(* The server is what the page sees of it: which rows exist, in what       *)
(* status, and what was paid and returned.  A row of the team is a role    *)
(* that a member has, a row of the merchants a company.                    *)
(***************************************************************************)
EXTENDS Naturals

CONSTANTS
    Row,        \* ids of documents
    NoRow,
    Handler,    \* handlers that can be waiting at the same time
    Stray,      \* places for requests that the page has given up
    MaxForms,   \* bound: forms the user fills in, of every page
    MaxLost,    \* bound: requests and answers that are lost
    Total       \* payments, and returns, that a document has room for

VARIABLES
    page,       \* the page, or tab, that is open
    rows,       \* server: status of every document
    origin,     \* server: the form that made it
    settled,    \* server: payments and returns of a document
    list,       \* the rows as the page shows them
    form,       \* the modal with the form
    detail,     \* the modal with the detail
    typed,      \* fields of the detail that are filled in
    busy,       \* what is marked as under way: the list, a form, a field
    busyRow,    \* busyId, busyMembershipRoleId: the row whose buttons are disabled
    error,      \* formError, actionError, detailError, ...: what a write left
    calls,      \* handlers that wait for the network, and stray requests
    unsure,     \* history: the forms of which a sending, or its answer, was lost
    forms, lost

server == <<rows, origin, settled>>
screen == <<list, form, detail, typed, busy, busyRow, error>>
vars == <<page, server, screen, calls, forms, lost, unsure>>

-----------------------------------------------------------------------------
Page == {"invoices", "purchases", "expenses", "periods", "opening", "accounts",
         "reconciliations", "team", "plans", "staff", "merchants"}

Status == {"none", "open", "done", "gone"}

Field == {"payment", "return"}

\* What is changed of a company: its status, plan or trial; its overrides.
Change == {"manage", "overrides"}

Caller == Handler \cup Stray

ASSUME PagesAssumption ==
    /\ NoRow \notin Row
    /\ Handler \cap Stray = {}
    /\ MaxForms \in [Page -> Nat]
    /\ {MaxLost, Total} \subseteq Nat

Place == {"form", "role", "row", "detail", "overrides"}

\* What a write that left an error came to: it was refused or nothing is known
\* of it, or the server had answered that it was recorded.
Error == {"no", "failed", "recorded"}

\* Pages whose server refuses a second document of the same content: an
\* overlapping period, an active opening balance, an account code, a username,
\* a role of a member, a plan code or an e-mail address in use.
Unique == {"periods", "opening", "accounts", "team", "plans", "staff", "merchants"}

\* Those of them where an index of the database refuses it too.  Nothing but the
\* search keeps two periods apart, nor two roles of a member that hold in every
\* branch (the index takes their missing branch for different ones): those are
\* the roles that are modelled.
Backed(kind) == page \in Unique \ {"periods"} /\ kind # "assign"

\* Pages whose row buttons are disabled while one of them is at work.
MarksRow == {"purchases", "expenses", "team"}

\* Tabs: their list is read again on every visit, and there is no pagination.
Tabs == {"periods", "opening", "accounts", "reconciliations"}

\* Pages that read their list when they are mounted and after a write, only.
ReadsOnce == {"team", "plans", "staff", "merchants"}

\* Tabs where an error of a row's button is shown in place of the list's.
SharesError == {"periods", "opening"}

NoCall == [kind |-> "none", at |-> "get", row |-> NoRow, form |-> 0, act |-> "none",
           did |-> FALSE, list |-> [r \in Row |-> "none"], paid |-> 0]

LoadCall == [NoCall EXCEPT !.kind = "load"]

Call == [kind : {"none", "load", "submit", "assign", "row", "open"} \cup Field \cup Change,
         at : {"post", "checked", "answer", "get", "got", "failed", "unread"},
         row : Row \cup {NoRow}, form : Nat, act : Status,
         did : BOOLEAN, list : [Row -> Status], paid : 0..Total]

NoForm == [open |-> FALSE, of |-> NoRow, no |-> 0]

\* The form that made a document: its number, and whether it was for a role.
NoOrigin == [form |-> 0, kind |-> "none"]

\* The document of the modal, and the one whose returns, or the company whose
\* overrides, are shown in it.
NoDetail == [doc |-> NoRow, paid |-> 0, partOf |-> NoRow]

\* The page is mounted and reads its list; sales were made elsewhere, and so
\* were companies.
Init ==
    /\ page \in Page
    /\ rows \in [Row -> CASE page = "invoices"  -> {"open"}
                         [] page = "merchants" -> {"none", "open"}
                         [] OTHER              -> {"none"}]
    /\ origin = [r \in Row |-> NoOrigin]
    /\ settled = [f \in Field |-> [r \in Row |-> 0]]
    /\ list = [r \in Row |-> "none"]
    /\ form = NoForm /\ detail = NoDetail /\ typed = {}
    /\ busy = {"list"} /\ busyRow = NoRow /\ error = [w \in Place |-> "no"]
    /\ \E m \in Handler : calls = [q \in Caller |-> IF q = m THEN LoadCall ELSE NoCall]
    /\ forms = 0 /\ lost = 0 /\ unsure = {}

-----------------------------------------------------------------------------
(***************************************************************************)
(* What the user does.  A modal covers the page while it is open, and the  *)
(* rows are not shown while the list is marked as loading.                 *)
(***************************************************************************)
Uncovered == ~form.open /\ detail.doc = NoRow

Shown == Uncovered /\ "list" \notin busy

Begin(h, c) ==
    /\ calls[h].kind = "none"
    /\ calls' = [calls EXCEPT ![h] = c]
    /\ UNCHANGED <<page, server, forms, lost, unsure>>

\* load: another page of the list is asked for, or the tab is visited again.
Load(h) ==
    /\ Uncovered /\ page \notin ReadsOnce
    /\ page \in Tabs \/ "list" \notin busy
    /\ Begin(h, LoadCall)
    /\ busy' = busy \cup {"list"}
    /\ error' = IF page \in SharesError THEN [error EXCEPT !["row"] = "no"] ELSE error
    /\ UNCHANGED <<list, form, detail, typed, busyRow>>

Fill(of) ==
    /\ Uncovered /\ forms < MaxForms[page]
    /\ forms' = forms + 1
    /\ form' = [open |-> TRUE, of |-> of, no |-> forms + 1]
    /\ error' = [error EXCEPT !["form"] = "no"]
    /\ UNCHANGED <<page, server, list, detail, typed, busy, busyRow, calls, lost, unsure>>

\* openModal, openCreateModal, openPeriodModal, ...: the form is emptied.
OpenForm == page \notin {"invoices", "opening"} /\ Fill(NoRow)

\* openObModal: offered where the page knows of no opening balance.
openObModal == page = "opening" /\ Shown /\ (\A r \in Row : list[r] # "open") /\ Fill(NoRow)

\* openEditModal: the form is filled from the row as it is shown.
OpenEdit == page = "expenses" /\ Shown /\ \E r \in Row : list[r] = "open" /\ Fill(r)

\* openEdit of a plan.
openEdit == page = "plans" /\ Shown /\ \E r \in Row : list[r] = "open" /\ Fill(r)

\* openAddRoleModal: a member is listed when the last role was taken away, too.
openAddRoleModal == page = "team" /\ Shown /\ \E r \in Row : list[r] # "none" /\ Fill(r)

\* The modal is closed by the user, whatever is under way.  (What is not shown
\* any more is left out of the state.)
Dismiss ==
    /\ ~Uncovered
    /\ form' = NoForm
    /\ detail' = NoDetail
    /\ UNCHANGED <<page, server, list, typed, busy, busyRow, error, calls, forms, lost, unsure>>

\* The team has a form for a member and one for a role, with marks and errors
\* of their own.
FormKind(of) == IF page = "team" /\ of # NoRow THEN "assign" ELSE "submit"

\* A form is sent: a new document, or a change of one.
Submit(h, kind, mark) ==
    /\ form.open /\ FormKind(form.of) = kind /\ mark \notin busy
    /\ Begin(h, [NoCall EXCEPT !.kind = kind, !.at = "post", !.row = form.of,
                     !.form = form.no])
    /\ busy' = busy \cup {mark}
    /\ error' = [error EXCEPT ![mark] = "no"]
    /\ UNCHANGED <<list, form, detail, typed, busyRow>>

\* onSubmit of purchases and expenses.
onSubmit(h) == page \in {"purchases", "expenses"} /\ Submit(h, "submit", "form")

onCreateAccount(h) == page = "accounts" /\ Submit(h, "submit", "form")

onCreatePeriod(h) == page = "periods" /\ Submit(h, "submit", "form")

onCreateOpeningBalance(h) == page = "opening" /\ Submit(h, "submit", "form")

onCreateReconciliation(h) == page = "reconciliations" /\ Submit(h, "submit", "form")

onSavePlan(h) == page = "plans" /\ Submit(h, "submit", "form")

onCreateStaff(h) == page = "staff" /\ Submit(h, "submit", "form")

onCreateCompany(h) == page = "merchants" /\ Submit(h, "submit", "form")

onCreateMember(h) == page = "team" /\ Submit(h, "submit", "form")

onAddRoleSubmit(h) == page = "team" /\ Submit(h, "assign", "role")

\* A button of row r that takes it from status `from', as shown, to `to'.
RowAction(h, r, from, to) ==
    /\ Shown /\ list[r] = from
    /\ page \in MarksRow => busyRow # r
    /\ Begin(h, [NoCall EXCEPT !.kind = "row", !.at = "post", !.row = r, !.act = to])
    /\ busyRow' = IF page \in MarksRow THEN r ELSE busyRow
    /\ error' = [error EXCEPT !["row"] = "no"]
    /\ UNCHANGED <<list, form, detail, typed, busy>>

receive(h) == page = "purchases" /\ \E r \in Row : RowAction(h, r, "open", "done")

cancel(h) == page = "purchases" /\ \E r \in Row : RowAction(h, r, "open", "gone")

deleteExpense(h) == page = "expenses" /\ \E r \in Row : RowAction(h, r, "open", "gone")

removeRole(h) == page = "team" /\ \E r \in Row : RowAction(h, r, "open", "gone")

\* One button: it closes a period that is shown open and reopens one that is
\* shown closed.
onTogglePeriod(h) ==
    page = "periods" /\ \E r \in Row :
        RowAction(h, r, "open", "done") \/ RowAction(h, r, "done", "open")

onReverseOpeningBalance(h) ==
    page = "opening" /\ \E r \in Row : RowAction(h, r, "open", "gone")

\* The rows whose detail can be opened: completed sales, received purchases.
HasDetail(r) == \/ page = "invoices" /\ list[r] = "open"
                \/ page = "purchases" /\ list[r] = "done"

\* What is read of row r, and what the page knows of its payments.
OpenCall(r, n) == [NoCall EXCEPT !.kind = "open", !.row = r, !.paid = n]

\* openDetail empties the fields at once; the detail appears with the answer.
\* The page of invoices shows the payments of the row it has, whenever that list
\* was read, and asks for the returns alone.
openDetail(h) ==
    \E r \in Row : \E n \in 0..settled["payment"][r] :
        /\ Shown /\ HasDetail(r)
        /\ page # "invoices" => n = 0
        /\ Begin(h, OpenCall(r, n))
        /\ typed' = {}
        /\ error' = [error EXCEPT !["detail"] = "no"]
        /\ UNCHANGED <<list, form, detail, busy, busyRow>>

\* openManage: the modal of a company is there at once, its overrides come with
\* the answer.
openManage(h) ==
    \E r \in Row :
        /\ page = "merchants" /\ Shown /\ list[r] = "open"
        /\ Begin(h, OpenCall(r, 0))
        /\ detail' = [NoDetail EXCEPT !.doc = r]
        /\ error' = [error EXCEPT !["detail"] = "no", !["overrides"] = "no"]
        /\ UNCHANGED <<list, form, typed, busy, busyRow>>

\* The amount can be typed while the page knows of something outstanding, a
\* quantity while it knows of something left to return.
Type ==
    \E f \in Field \ typed :
        /\ page # "merchants" /\ detail.doc # NoRow
        /\ f = "payment" => detail.paid < Total
        /\ typed' = typed \cup {f}
        /\ UNCHANGED <<page, server, list, form, detail, busy, busyRow, error, calls, forms, lost, unsure>>

\* A request about the document of the modal that is open now.
Send(h, kind, place) ==
    /\ detail.doc # NoRow /\ kind \notin busy
    /\ Begin(h, [NoCall EXCEPT !.kind = kind, !.at = "post", !.row = detail.doc])
    /\ busy' = busy \cup {kind}
    /\ error' = [error EXCEPT ![place] = "no"]
    /\ UNCHANGED <<list, form, detail, typed, busyRow>>

\* The form of a payment or a return is filled in.
Settle(h, f) == f \in typed /\ Send(h, f, "detail")

submitPayment(h) == Settle(h, "payment")

submitReturn(h) == Settle(h, "return")

\* onChangeStatus, onChangePlan and onExtendTrial share a mark.
onManage(h) == page = "merchants" /\ Send(h, "manage", "detail")

\* The overrides are offered once some company's are shown.
onSaveOverrides(h) ==
    page = "merchants" /\ detail.partOf # NoRow /\ Send(h, "overrides", "overrides")

-----------------------------------------------------------------------------
(***************************************************************************)
(* The network and the server.                                             *)
(***************************************************************************)
\* The answer to a stray request reaches nobody.
Reply(q, did) ==
    calls' = [calls EXCEPT ![q] =
                 IF q \in Stray THEN NoCall ELSE [@ EXCEPT !.at = "answer", !.did = did]]

Posted(q, kind) == calls[q].at = "post" /\ calls[q].kind = kind

Refuse(q) == Reply(q, FALSE) /\ UNCHANGED server

\* A document with the content of form c.form exists.  A username stays in use
\* when the member's roles are gone, a role does not.
Clashes(c) ==
    \/ /\ page \in Unique \ {"opening"}
       /\ \E r \in Row : origin[r].form = c.form /\ (c.kind = "assign" => rows[r] # "gone")
    \/ page = "opening" /\ \E r \in Row : rows[r] = "open"

\* A role is a document of its own, the other forms of a row change it.
Adds(c) == c.row = NoRow \/ c.kind = "assign"

\* The server looks for a document of the same content, where it does.
ServeSearch(q) ==
    LET c == calls[q] IN
    /\ Posted(q, "submit") \/ Posted(q, "assign")
    /\ Adds(c)
    /\ \/ Clashes(c) /\ Refuse(q)
       \/ /\ ~Clashes(c)
          /\ calls' = [calls EXCEPT ![q].at = "checked"]
          /\ UNCHANGED server
    /\ UNCHANGED <<page, screen, forms, lost, unsure>>

\* Faulty variant: there is no index behind the search.
IndexRefusesNever(c) == FALSE

\* What was committed after the search: the unique index sees it.
IndexRefuses(c) == Backed(c.kind) /\ Clashes(c)

\* The document is inserted, under a new clientReferenceId.
ServeInsert(q) ==
    LET c == calls[q] IN
    /\ c.at = "checked"
    /\ \/ /\ ~IndexRefuses(c)
          /\ \E r \in Row :
                /\ rows[r] = "none"
                /\ rows' = [rows EXCEPT ![r] = "open"]
                /\ origin' = [origin EXCEPT ![r] = [form |-> c.form, kind |-> c.kind]]
          /\ Reply(q, TRUE)
          /\ UNCHANGED settled
       \/ /\ IndexRefuses(c) \/ \A r \in Row : rows[r] # "none"
          /\ Refuse(q)
    /\ UNCHANGED <<page, screen, forms, lost, unsure>>

\* A change of a document that stands.
ServeUpdate(q) ==
    LET c == calls[q] IN
    /\ Posted(q, "submit") /\ ~Adds(c)
    /\ Reply(q, rows[c.row] = "open")
    /\ UNCHANGED <<page, server, screen, forms, lost, unsure>>

\* The rows a button's request can still change: the status is checked.  An
\* opening balance is not named: what is reversed is the one that is active.
Targets(c) ==
    {r \in Row : /\ page # "opening" => r = c.row
                 /\ rows[r] = IF c.act = "open" THEN "done" ELSE "open"}

ServeRow(q) ==
    LET c == calls[q] IN
    /\ Posted(q, "row")
    /\ \/ /\ \E r \in Targets(c) : rows' = [rows EXCEPT ![r] = c.act]
          /\ Reply(q, TRUE)
          /\ UNCHANGED <<origin, settled>>
       \/ Targets(c) = {} /\ Refuse(q)
    /\ UNCHANGED <<page, screen, forms, lost, unsure>>

\* A payment within the balance, a return within what was not returned.
HasRoom(f, c) == settled[f][c.row] < Total

ServeSettle(q, f) ==
    /\ Posted(q, f)
    /\ \/ /\ HasRoom(f, calls[q])
          /\ settled' = [settled EXCEPT ![f][calls[q].row] = @ + 1]
          /\ Reply(q, TRUE)
          /\ UNCHANGED <<rows, origin>>
       \/ ~HasRoom(f, calls[q]) /\ Refuse(q)
    /\ UNCHANGED <<page, screen, forms, lost, unsure>>

\* A change of a company is made, or the values are refused.
ServeChange(q) ==
    /\ \E k \in Change : Posted(q, k)
    /\ \E did \in BOOLEAN : Reply(q, did)
    /\ UNCHANGED <<page, server, screen, forms, lost, unsure>>

\* The kinds that read the list with load.
ReadsList(kind) == kind \in {"load", "submit", "assign", "row", "manage"}

\* The page of invoices reads list and returns after a payment or a return.
Refreshes(c) == c.kind \in Field /\ page = "invoices"

\* The list is read, or the balance and the returns of a row.
ServeGet(h) ==
    LET c == calls[h] IN
    /\ c.kind # "none" /\ c.at = "get"
    /\ calls' = [calls EXCEPT
                    ![h].at = "got",
                    ![h].list = IF ReadsList(c.kind) \/ Refreshes(c) THEN rows ELSE @,
                    ![h].paid = IF ReadsList(c.kind) THEN 0
                                ELSE IF page = "invoices" /\ c.kind = "open" THEN @
                                ELSE settled["payment"][c.row]]
    /\ UNCHANGED <<page, server, screen, forms, lost, unsure>>

\* A request does not arrive, or its answer does not: fetch fails, for a write
\* ("failed") or for what is read after it ("unread").  The server may get the
\* request, or go on with it, after all.
Lose(h) ==
    LET c == calls[h]
        failed == [calls EXCEPT
                      ![h].at = IF @ \in {"post", "checked", "answer"} THEN "failed" ELSE "unread"]
    IN
    /\ c.kind # "none" /\ c.at \notin {"failed", "unread"} /\ lost < MaxLost
    /\ lost' = lost + 1
    /\ \/ calls' = failed
       \/ /\ c.at \in {"post", "checked"}
          /\ \E s \in Stray : calls[s] = NoCall /\ calls' = [failed EXCEPT ![s] = c]
    /\ unsure' = IF c.at \in {"post", "checked", "answer"} THEN unsure \cup {c.form} ELSE unsure
    /\ UNCHANGED <<page, server, screen, forms>>

-----------------------------------------------------------------------------
(***************************************************************************)
(* The handlers go on.                                                     *)
(***************************************************************************)
PlaceOf(kind) ==
    CASE kind = "submit"    -> "form"
      [] kind = "assign"    -> "role"
      [] kind = "row"       -> "row"
      [] kind = "overrides" -> "overrides"
      [] OTHER              -> "detail"

\* What a handler has marked, and `finally' unmarks.
MarkOf(kind) ==
    CASE kind = "submit"              -> {"form"}
      [] kind = "assign"              -> {"role"}
      [] kind \in Field \cup Change   -> {kind}
      [] OTHER                        -> {}

\* Faulty variant: the button is enabled after the try block, not in `finally'.
FinishInTry(h) ==
    LET c == calls[h] IN
    /\ calls' = [calls EXCEPT ![h] = NoCall]
    /\ busy' = busy \ ((IF c.at = "failed" THEN {} ELSE MarkOf(c.kind))
                       \cup (IF c.at # "failed" /\ ReadsList(c.kind) THEN {"list"} ELSE {}))
    /\ busyRow' = IF c.kind = "row" THEN NoRow ELSE busyRow

\* finally: a handler ends and unmarks, load's own mark included.
Finish(h) ==
    LET c == calls[h] IN
    /\ calls' = [calls EXCEPT ![h] = NoCall]
    /\ busy' = busy \ (MarkOf(c.kind)
                       \cup (IF c.at # "failed" /\ c.at # "answer" /\ ReadsList(c.kind) THEN {"list"} ELSE {}))
    /\ busyRow' = IF c.kind = "row" THEN NoRow ELSE busyRow

\* The write was recorded: setModalOpen(false) closes the form that is open
\* now, setAddRoleTargetUserId(null) the other one of the team, and the list or
\* the detail is read again.  On the page of purchases that
\* is openDetail, which empties the fields first.
Accepted(h) ==
    LET c == calls[h] IN
    /\ c.at = "answer" /\ c.did
    /\ calls' = [calls EXCEPT ![h].at = "get"]
    /\ form' = IF c.kind = FormKind(form.of) THEN NoForm ELSE form
    /\ busy' = IF ReadsList(c.kind) THEN busy \cup {"list"} ELSE busy
    /\ typed' = IF c.kind \in Field /\ page = "purchases" THEN {} ELSE typed
    /\ error' = [error EXCEPT
                    !["row"] = IF c.kind = "row" /\ page \in SharesError THEN "no" ELSE @,
                    !["detail"] = IF c.kind \in Field /\ page = "purchases" THEN "no" ELSE @]
    /\ UNCHANGED <<page, server, list, detail, busyRow, forms, lost, unsure>>

\* catch: the server refused the write, or nothing is known of it.
WriteFails(h) ==
    LET c == calls[h] IN
    /\ c.at = "failed" \/ (c.at = "answer" /\ ~c.did)
    /\ error' = [error EXCEPT ![PlaceOf(c.kind)] = "failed"]
    /\ Finish(h)
    /\ UNCHANGED <<page, server, list, form, detail, typed, forms, lost, unsure>>

\* setManaging(null) closes the company that is open now.
Closes(c) == detail' = IF c.kind = "manage" THEN NoDetail ELSE detail

ShowList(h) ==
    /\ ReadsList(calls[h].kind) /\ calls[h].at = "got"
    /\ list' = calls[h].list
    /\ Closes(calls[h])
    /\ Finish(h)
    /\ UNCHANGED <<page, server, form, typed, error, forms, lost, unsure>>

\* Faulty variant: the purchase is shown before its returns were read.
ShowDocument(c) == detail' = [detail EXCEPT !.doc = c.row, !.paid = c.paid]

\* setDetail and setDetailReturns with what was read for the row of the handler.
ShowBoth(c) == detail' = [doc |-> c.row, paid |-> c.paid, partOf |-> c.row]

\* setDetailReturns alone; setDetail of a company, whichever is open.
ShowPart(c) ==
    detail' = IF detail.doc = NoRow THEN detail ELSE [detail EXCEPT !.partOf = c.row]

\* The overrides of a company are read for the first time, or again.
ShowCompany(h) ==
    LET c == calls[h] IN
    /\ c.at = "got" /\ page = "merchants" /\ c.kind \in {"open", "overrides"}
    /\ ShowPart(c)
    /\ Finish(h)
    /\ UNCHANGED <<page, server, list, form, typed, error, forms, lost, unsure>>

\* openDetail: the detail is shown whatever else was opened in between.
ShowDetail(h) ==
    LET c == calls[h] IN
    /\ c.at = "got" /\ page # "merchants"
    /\ c.kind = "open" \/ (c.kind \in Field /\ page = "purchases")
    /\ ShowBoth(c)
    /\ typed' = typed \ MarkOf(c.kind)
    /\ Finish(h)
    /\ UNCHANGED <<page, server, list, form, error, forms, lost, unsure>>

\* refreshDetail of the page of invoices: the returns are shown, and the detail
\* if the invoice is still on the page of the list that was read.
refreshDetail(h) ==
    LET c == calls[h] IN
    /\ c.at = "got" /\ Refreshes(c)
    /\ list' = c.list
    /\ ShowBoth(c) \/ ShowPart(c)
    /\ typed' = typed \ {c.kind}
    /\ Finish(h)
    /\ UNCHANGED <<page, server, form, error, forms, lost, unsure>>

\* load and openDetail catch what they could not read; refreshDetail throws, and
\* overrides are read again inside the try that saves them.
Rethrows(c) == Refreshes(c) \/ c.kind = "overrides"

ReadFails(h) ==
    LET c == calls[h] IN
    /\ c.at = "unread"
    /\ error' = IF Rethrows(c) THEN [error EXCEPT ![PlaceOf(c.kind)] = "recorded"] ELSE error
    /\ typed' = IF c.kind \in Field /\ ~Rethrows(c) THEN typed \ {c.kind} ELSE typed
    /\ Closes(c)
    /\ Finish(h)
    /\ UNCHANGED <<page, server, list, form, forms, lost, unsure>>

-----------------------------------------------------------------------------
SubmitsForm(h) ==
    \/ onSubmit(h) \/ onCreateAccount(h) \/ onCreatePeriod(h)
    \/ onCreateOpeningBalance(h) \/ onCreateReconciliation(h)
    \/ onSavePlan(h) \/ onCreateStaff(h) \/ onCreateCompany(h)
    \/ onCreateMember(h) \/ onAddRoleSubmit(h)

PressesButton(h) ==
    \/ receive(h) \/ cancel(h) \/ deleteExpense(h) \/ removeRole(h)
    \/ onTogglePeriod(h) \/ onReverseOpeningBalance(h)

UserStarts(h) ==
    \/ Load(h) \/ SubmitsForm(h) \/ PressesButton(h)
    \/ openDetail(h) \/ submitPayment(h) \/ submitReturn(h)
    \/ openManage(h) \/ onManage(h) \/ onSaveOverrides(h)

Serve(q) ==
    \/ ServeSearch(q) \/ ServeInsert(q) \/ ServeUpdate(q)
    \/ ServeRow(q) \/ ServeChange(q)
    \/ \E f \in Field : ServeSettle(q, f)

Continue(h) ==
    \/ Accepted(h) \/ WriteFails(h) \/ ReadFails(h)
    \/ ShowList(h) \/ ShowDetail(h) \/ ShowCompany(h) \/ refreshDetail(h)

Next ==
    \/ OpenForm \/ openObModal \/ OpenEdit \/ openEdit \/ openAddRoleModal
    \/ Dismiss \/ Type
    \/ \E h \in Handler : UserStarts(h) \/ ServeGet(h) \/ Lose(h) \/ Continue(h)
    \/ \E q \in Caller : Serve(q)

Spec == Init /\ [][Next]_vars

-----------------------------------------------------------------------------
\* Every value has its type.
TypeOK ==
    /\ page \in Page
    /\ rows \in [Row -> Status] /\ list \in [Row -> Status]
    /\ origin \in [Row -> [form : Nat, kind : {"none", "submit", "assign"}]]
    /\ settled \in [Field -> [Row -> 0..Total]]
    /\ form \in [open : BOOLEAN, of : Row \cup {NoRow}, no : Nat]
    /\ detail \in [doc : Row \cup {NoRow}, paid : 0..Total, partOf : Row \cup {NoRow}]
    /\ typed \subseteq Field /\ busy \subseteq {"list", "form", "role"} \cup Field \cup Change
    /\ busyRow \in Row \cup {NoRow}
    /\ error \in [Place -> Error]
    /\ calls \in [Caller -> Call]
    /\ forms \in 0..MaxForms[page] /\ lost \in 0..MaxLost /\ unsure \subseteq Nat

\* A form makes one document, on every page, for the button is disabled until the
\* form is closed or its sending was refused; two only after a sending, or its
\* answer, was lost, for every click has a clientReferenceId of its own.  Not even
\* then do two stand where an index refuses the second, also when the lost request
\* reaches the server between the search and the insert of the next.
RecordedOnce ==
    \A r, s \in Row :
        r # s /\ origin[r] = origin[s] /\ origin[r] # NoOrigin =>
            /\ origin[r].form \in unsure
            /\ Backed(origin[r].kind) => "gone" \in {rows[r], rows[s]}

\* What the answer to a second period of the same dates says: it overlaps one that
\* exists.  (It does not hold: the first may be searched for before it is there.)
PeriodMadeOnce ==
    page = "periods" =>
        \A r, s \in Row : r # s /\ origin[r] = origin[s] => origin[r] = NoOrigin

\* An error under a form, a row or a field never stands for a write the server
\* had confirmed: a failed refresh is not reported as a failed write, so it does
\* not invite a second one.  (Payments and returns of an invoice and overrides of
\* a company are left out: there it is.)
ErrorMeansRefused ==
    \A w \in Place :
        error[w] = "recorded" => <<page, w>> \in {<<"invoices", "detail">>, <<"merchants", "overrides">>}

\* A button is disabled exactly while a handler of its own is at work, so it is
\* neither dead after an error nor enabled for a second click; and the list is
\* hidden, or a row marked, only while a handler will show it again.
BusyIsUnderWay ==
    LET inFlight(kind) == \E h \in Handler : calls[h].kind = kind IN
    /\ "form" \in busy <=> inFlight("submit")
    /\ "role" \in busy <=> inFlight("assign")
    /\ \A f \in Field \cup Change : f \in busy <=> inFlight(f)
    /\ "list" \in busy => \E h \in Handler : ReadsList(calls[h].kind)
    /\ busyRow # NoRow => \E h \in Handler : calls[h].kind = "row" /\ calls[h].row = busyRow

\* The returns shown under a purchase, from which the quantity left to return
\* is taken, are the returns of that purchase, whatever answers cross.
DetailIsOneDocument == page = "purchases" /\ detail.doc # NoRow => detail.partOf = detail.doc

\* What the page shows is so: an error is a write that failed, a detail is of one
\* document.
PageTellsTheTruth == TypeOK /\ ErrorMeansRefused /\ DetailIsOneDocument

=============================================================================
