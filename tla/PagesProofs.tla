----------------------------- MODULE PagesProofs -----------------------------
(***************************************************************************)
(* Theorems about Pages, for any number of documents, of handlers that     *)
(* wait at the same time, of forms and of lost requests, on every page.    *)
(*                                                                         *)
(* The argument is that of a handler's life: it begins under a mark that   *)
(* nobody else holds (BeginMarks), goes on as the request it was           *)
(* (AdvanceMarks), and ends by taking its mark off (FinishMarks).  What it *)
(* asks the server for is fixed when it begins (CallsOK).  A form is sent   *)
(* by one handler at a time, and closed before its handler reads again,    *)
(* unless its sending was lost (FormsOK).                                  *)
(*                                                                         *)
(* The second part is about Sessions, which has no state in common with    *)
(* Pages: the tokens of a browser and what its till shows (SessionInv).    *)
(***************************************************************************)
EXTENDS Pages, Sessions, FiniteSetTheorems, TLAPS

\* A request that carries a form.
Sends(c) == c.kind \in {"submit", "assign"}

\* What a handler was called with: a row, on the pages that have it.
RequestOK(c) ==
    /\ c.kind \in {"row", "open"} \cup Field \cup Change => c.row \in Row
    /\ c.kind \in Change => page = "merchants"
    /\ c.kind = "row" => c.act # "none" /\ (page = "opening" => c.act = "gone")
    /\ c.at = "checked" => Sends(c)

CallsOK == \A q \in Caller : RequestOK(calls[q])

\* A document that a form made exists; an opening balance is open or reversed.
RowsOK ==
    \A r \in Row :
        /\ origin[r] # NoOrigin => rows[r] # "none" /\ origin[r].form # 0
        /\ page = "opening" => rows[r] # "done"

\* Kinds of handlers that exclude others of their kind.
Marked == {"submit", "assign"} \cup Field \cup Change

\* The mark of such a handler.
Mark(kind) == CASE kind = "submit" -> "form" [] kind = "assign" -> "role" [] OTHER -> kind

\* A mark is there while a handler is, and there is one such handler at most.  A
\* handler whose write failed will not show the list: some other one will.
MarksOK ==
    /\ \A kind \in Marked : Mark(kind) \in busy <=> \E h \in Handler : calls[h].kind = kind
    /\ \A g, h \in Handler : calls[g].kind = calls[h].kind /\ calls[h].kind \in Marked => g = h
    /\ "list" \in busy =>
          \E h \in Handler : ReadsList(calls[h].kind) /\ calls[h].at \in {"get", "got", "unread"}
    /\ busyRow # NoRow => \E h \in Handler : calls[h].kind = "row" /\ calls[h].row = busyRow

\* Forms are numbered in the order in which they are opened, a number has one kind,
\* and a form is sent by one handler at a time.
NumbersOK ==
    /\ \A r \in Row : origin[r].form \in 0..forms
    /\ form.open => form.no \in 1..forms
    /\ \A q \in Caller : Sends(calls[q]) =>
          /\ calls[q].form \in 1..forms
          /\ form.open /\ form.no = calls[q].form => calls[q].kind = FormKind(form.of)
    /\ \A g, h \in Handler :
          Sends(calls[g]) /\ Sends(calls[h]) /\ calls[g].form = calls[h].form => g = h

\* Once a form that was never lost has made its document, its handler knows or is
\* about to hear of it, and until then the form is open under a mark.
SentOnceOK ==
    /\ \A s \in Stray : Sends(calls[s]) => calls[s].form \in unsure
    /\ \A r \in Row : origin[r].form \notin unsure \cup {0} =>
          /\ \A h \in Handler :
                Sends(calls[h]) /\ calls[h].form = origin[r].form =>
                    /\ calls[h].at \notin {"post", "checked", "failed"}
                    /\ calls[h].at = "answer" => calls[h].did
          /\ form.open /\ form.no = origin[r].form =>
                \E h \in Handler :
                    /\ Sends(calls[h]) /\ calls[h].form = origin[r].form
                    /\ calls[h].at = "answer"

FormsOK == NumbersOK /\ SentOnceOK

\* The documents, and what the page shows of them.
ServerOK ==
    /\ rows \in [Row -> Status]
    /\ origin \in [Row -> [form : Nat, kind : {"none", "submit", "assign"}]]
    /\ settled \in [Field -> [Row -> 0..Total]]
    /\ RowsOK /\ RecordedOnce

ScreenOK ==
    /\ list \in [Row -> Status]
    /\ form \in [open : BOOLEAN, of : Row \cup {NoRow}, no : Nat]
    /\ detail \in [doc : Row \cup {NoRow}, paid : 0..Total, partOf : Row \cup {NoRow}]
    /\ typed \subseteq Field
    /\ error \in [Place -> Error]
    /\ ErrorMeansRefused /\ DetailIsOneDocument

\* The inductive invariant.
PagesInv ==
    /\ TypeOK /\ CallsOK /\ MarksOK /\ FormsOK
    /\ ServerOK /\ ScreenOK

-----------------------------------------------------------------------------
\* A handler that is not at work is a request that asks for nothing.
LEMMA NoCallType == NoCall \in Call /\ LoadCall \in Call
<1>1. 0 \in 0..Total
  BY PagesAssumption
<1>2. [r \in Row |-> "none"] \in [Row -> Status]
  BY DEF Status
<1>3. NoCall \in Call
  BY <1>1, <1>2 DEF NoCall, Call, Status
<1> QED
  BY <1>3 DEF LoadCall, Call

\* A handler that begins puts its mark on.
LEMMA BeginMarks ==
  ASSUME TypeOK, MarksOK, NEW h \in Handler, NEW c \in Call,
         calls[h].kind = "none", calls' = [calls EXCEPT ![h] = c],
         c.kind \in Marked => Mark(c.kind) \notin busy,
         busy' = busy \cup (CASE c.kind = "load" -> {"list"}
                              [] c.kind \in Marked -> {Mark(c.kind)}
                              [] OTHER -> {}),
         c.kind = "load" => c.at = "get",
         busyRow' = busyRow \/ (c.kind = "row" /\ busyRow' = c.row)
  PROVE  MarksOK'
<1>1. calls'[h] = c /\ \A g \in Handler \ {h} : calls'[g] = calls[g]
  BY DEF TypeOK, Caller
<1>2. \A kind \in Marked : Mark(kind) \in busy' <=> \E g \in Handler : calls'[g].kind = kind
  <2> SUFFICES ASSUME NEW kind \in Marked
               PROVE  Mark(kind) \in busy' <=> \E g \in Handler : calls'[g].kind = kind
    OBVIOUS
  <2>1. Mark(kind) \in busy' <=> Mark(kind) \in busy \/ kind = c.kind
    BY DEF Marked, Mark, Field, Change
  <2>2. (\E g \in Handler : calls'[g].kind = kind)
           <=> (\E g \in Handler : calls[g].kind = kind) \/ kind = c.kind
    BY <1>1 DEF Marked, Field, Change
  <2> QED
    BY <2>1, <2>2 DEF MarksOK
<1>3. \A f, g \in Handler : calls'[f].kind = calls'[g].kind /\ calls'[g].kind \in Marked => f = g
  BY <1>1 DEF MarksOK
<1>4. "list" \in busy' =>
          \E g \in Handler : ReadsList(calls'[g].kind) /\ calls'[g].at \in {"get", "got", "unread"}
  <2>1. CASE "list" \in busy
    BY <1>1, <2>1 DEF MarksOK, ReadsList
  <2>2. CASE c.kind = "load"
    BY <1>1, <2>2 DEF ReadsList
  <2>3. "list" \in busy' => "list" \in busy \/ c.kind = "load"
    BY DEF Marked, Mark, Field, Change
  <2> QED
    BY <2>1, <2>2, <2>3
<1>5. busyRow' # NoRow => \E g \in Handler : calls'[g].kind = "row" /\ calls'[g].row = busyRow'
  BY <1>1 DEF MarksOK
<1> QED
  BY <1>2, <1>3, <1>4, <1>5 DEF MarksOK

\* A handler that goes on keeps its mark.
LEMMA AdvanceMarks ==
  ASSUME TypeOK, MarksOK, NEW h \in Handler, NEW c \in Call,
         calls' = [calls EXCEPT ![h] = c],
         c.kind = calls[h].kind, c.row = calls[h].row,
         calls[h].at \in {"get", "got", "unread"} => c.at \in {"get", "got", "unread"},
         busy' = busy \/ (busy' = busy \cup {"list"} /\ ReadsList(c.kind) /\ c.at = "get"),
         busyRow' = busyRow
  PROVE  MarksOK'
<1>1. calls'[h] = c /\ \A g \in Handler \ {h} : calls'[g] = calls[g]
  BY DEF TypeOK, Caller
<1>2. \A g \in Handler : calls'[g].kind = calls[g].kind /\ calls'[g].row = calls[g].row
  BY <1>1
<1>3. \A kind \in Marked : Mark(kind) \in busy' <=> Mark(kind) \in busy
  BY DEF Marked, Mark, Field, Change
<1>4. "list" \in busy' =>
          \E g \in Handler : ReadsList(calls'[g].kind) /\ calls'[g].at \in {"get", "got", "unread"}
  <2>1. CASE busy' = busy
    BY <1>1, <2>1 DEF MarksOK
  <2>2. CASE ReadsList(c.kind) /\ c.at = "get"
    BY <1>1, <2>2
  <2> QED
    BY <2>1, <2>2
<1> QED
  BY <1>2, <1>3, <1>4 DEF MarksOK

\* A handler that ends takes its mark off.
LEMMA FinishMarks ==
  ASSUME TypeOK, MarksOK, NEW h \in Handler, Finish(h)
  PROVE  MarksOK' /\ calls' \in [Caller -> Call]
<1>1. /\ calls'[h] = NoCall /\ \A g \in Handler \ {h} : calls'[g] = calls[g]
      /\ calls' \in [Caller -> Call] /\ NoCall.kind = "none"
  BY NoCallType DEF TypeOK, Finish, NoCall, Caller
<1> DEFINE c == calls[h]
           L == IF c.at # "failed" /\ c.at # "answer" /\ ReadsList(c.kind) THEN {"list"} ELSE {}
<1>2. busy' = busy \ (MarkOf(c.kind) \cup L)
  BY DEF Finish
<1>3. \A kind \in Marked : Mark(kind) \in busy' <=> \E g \in Handler : calls'[g].kind = kind
  <2> SUFFICES ASSUME NEW kind \in Marked
               PROVE  Mark(kind) \in busy' <=> \E g \in Handler : calls'[g].kind = kind
    OBVIOUS
  <2>1. Mark(kind) \in busy' <=> Mark(kind) \in busy /\ kind # c.kind
    <3>1. Mark(kind) # "list"
      BY DEF Marked, Mark, Field, Change
    <3>2. Mark(kind) \in MarkOf(c.kind) <=> kind = c.kind
      BY DEF Marked, Mark, MarkOf, Field, Change
    <3> QED
      BY <1>2, <3>1, <3>2
  <2>2. (\E g \in Handler : calls'[g].kind = kind)
           <=> (\E g \in Handler : calls[g].kind = kind) /\ kind # c.kind
    <3>1. kind # "none"
      BY DEF Marked, Field, Change
    <3> QED
      BY <1>1, <3>1 DEF MarksOK
  <2> QED
    BY <2>1, <2>2 DEF MarksOK
<1>4. \A f, g \in Handler : calls'[f].kind = calls'[g].kind /\ calls'[g].kind \in Marked => f = g
  <2>1. "none" \notin Marked
    BY DEF Marked, Field, Change
  <2> QED
    BY <1>1, <2>1 DEF MarksOK
<1>5. "list" \in busy' =>
          \E g \in Handler : ReadsList(calls'[g].kind) /\ calls'[g].at \in {"get", "got", "unread"}
  <2> SUFFICES ASSUME "list" \in busy'
               PROVE  \E g \in Handler : ReadsList(calls'[g].kind) /\ calls'[g].at \in {"get", "got", "unread"}
    OBVIOUS
  <2>1. PICK g \in Handler : ReadsList(calls[g].kind) /\ calls[g].at \in {"get", "got", "unread"}
    BY <1>2 DEF MarksOK
  <2>2. g # h
    BY <1>2, <2>1
  <2> QED
    BY <1>1, <2>1, <2>2
<1>6. busyRow' # NoRow => \E g \in Handler : calls'[g].kind = "row" /\ calls'[g].row = busyRow'
  BY <1>1 DEF MarksOK, Finish
<1> QED
  BY <1>1, <1>3, <1>4, <1>5, <1>6 DEF MarksOK

\* What a handler was called with stays as it is.
LEMMA CallsKept ==
  ASSUME TypeOK, CallsOK, NEW q \in Caller, NEW c \in Call, RequestOK(c),
         calls' = [calls EXCEPT ![q] = c], page' = page
  PROVE  CallsOK'
<1>1. \A d : RequestOK(d) => RequestOK(d)'
  BY DEF RequestOK
<1> QED
  BY <1>1 DEF CallsOK, TypeOK

\* The documents stay as they are.
LEMMA ServerKept ==
  ASSUME PagesInv, UNCHANGED <<page, server>>, unsure \subseteq unsure'
  PROVE  ServerOK'
  BY DEF PagesInv, ServerOK, RowsOK, RecordedOnce, Backed, server

\* A handler begins: a form that it sends is open, and nobody else sends it.
LEMMA FormsBegin ==
  ASSUME PagesInv, NEW h \in Handler, NEW c \in Call, Begin(h, c), form' = form,
         Sends(c) => /\ form.open /\ c.form = form.no /\ c.kind = FormKind(form.of)
                     /\ Mark(c.kind) \notin busy
  PROVE  FormsOK'
<1> USE DEF PagesInv, FormsOK
<1>1. /\ calls'[h] = c /\ \A q \in Caller \ {h} : calls'[q] = calls[q]
      /\ ~Sends(calls[h]) /\ h \notin Stray
      /\ UNCHANGED <<page, rows, origin, forms, unsure>>
  BY PagesAssumption DEF Begin, TypeOK, Caller, Sends, server
<1>2. ASSUME Sends(c), NEW g \in Handler PROVE ~(Sends(calls[g]) /\ calls[g].form = c.form)
  <2>1. c.kind \in Marked
    BY <1>2 DEF Sends, Marked
  <2>2. calls[g].kind # c.kind
    BY <1>2, <2>1 DEF MarksOK
  <2> QED
    BY <1>2, <2>2 DEF NumbersOK, Caller
<1>3. NumbersOK'
  BY <1>1, <1>2 DEF NumbersOK, FormKind, Caller
<1>4. SentOnceOK'
  <2>1. \A s \in Stray : Sends(calls'[s]) => calls'[s].form \in unsure'
    BY <1>1 DEF SentOnceOK, Caller
  <2>2. ASSUME NEW r \in Row, origin[r].form \notin unsure \cup {0}
        PROVE  /\ \A g \in Handler :
                    Sends(calls'[g]) /\ calls'[g].form = origin[r].form =>
                        /\ calls'[g].at \notin {"post", "checked", "failed"}
                        /\ calls'[g].at = "answer" => calls'[g].did
               /\ form.open /\ form.no = origin[r].form =>
                    \E g \in Handler :
                        /\ Sends(calls'[g]) /\ calls'[g].form = origin[r].form
                        /\ calls'[g].at = "answer"
    <3>1. form.open /\ form.no = origin[r].form =>
             \E g \in Handler : /\ Sends(calls[g]) /\ calls[g].form = origin[r].form
                                /\ calls[g].at = "answer"
      BY <2>2 DEF SentOnceOK
    <3>2. ~(Sends(c) /\ c.form = origin[r].form)
      BY <1>2, <3>1
    <3> QED
      BY <1>1, <2>2, <3>1, <3>2 DEF SentOnceOK, Caller
  <2> QED
    BY <1>1, <2>1, <2>2 DEF SentOnceOK
<1> QED
  BY <1>3, <1>4

\* The server, or a lost message, takes a request on; what carries a form had not
\* made its document, or its handler was told.
LEMMA FormsGoOn ==
  ASSUME PagesInv, NEW q \in Caller, NEW c \in Call,
         calls' = [calls EXCEPT ![q] = c],
         \/ c.kind = calls[q].kind /\ c.form = calls[q].form
         \/ c = NoCall /\ q \in Stray,
         \/ calls[q].at \in {"post", "checked"}
         \/ calls[q].at # "answer" /\ c.at \in {"got", "unread"}
         \/ c.at = "failed" /\ c.form \in unsure',
         unsure \subseteq unsure', UNCHANGED <<page, form, forms, origin>>
  PROVE  FormsOK'
<1> USE DEF PagesInv, FormsOK
<1>1. /\ calls'[q] = c /\ \A p \in Caller \ {q} : calls'[p] = calls[p]
      /\ ~Sends(NoCall)
  BY DEF TypeOK, Sends, NoCall
<1>2. \A p \in Caller : Sends(calls'[p]) => Sends(calls[p]) /\ calls'[p].form = calls[p].form
                                             /\ calls'[p].kind = calls[p].kind
  BY <1>1 DEF Sends
<1>3. NumbersOK'
  BY <1>2 DEF NumbersOK, FormKind, Caller
<1>4. \A s \in Stray : Sends(calls'[s]) => calls'[s].form \in unsure'
  BY <1>2 DEF SentOnceOK, Caller
<1>5. ASSUME NEW r \in Row, origin[r].form \notin unsure' \cup {0}, NEW h \in Handler,
             Sends(calls'[h]), calls'[h].form = origin[r].form
      PROVE  /\ calls'[h].at \notin {"post", "checked", "failed"}
             /\ calls'[h].at = "answer" => calls'[h].did
  <2>1. /\ calls[h].at \notin {"post", "checked", "failed"}
        /\ calls[h].at = "answer" => calls[h].did
    BY <1>2, <1>5 DEF SentOnceOK, Caller
  <2>2. CASE h # q
    BY <1>1, <2>1, <2>2 DEF Caller
  <2>3. CASE h = q
    BY <1>1, <1>5, <2>1, <2>3
  <2> QED
    BY <2>2, <2>3
<1>6. ASSUME NEW r \in Row, origin[r].form \notin unsure' \cup {0}, form.open, form.no = origin[r].form
      PROVE  \E h \in Handler : /\ Sends(calls'[h]) /\ calls'[h].form = origin[r].form
                                /\ calls'[h].at = "answer"
  <2>1. PICK h \in Handler : /\ Sends(calls[h]) /\ calls[h].form = origin[r].form
                             /\ calls[h].at = "answer"
    BY <1>6 DEF SentOnceOK
  <2>2. h # q
    <3> SUFFICES ASSUME h = q PROVE FALSE
      OBVIOUS
    <3>1. c.form = calls[q].form
      BY <2>1, PagesAssumption
    <3> QED
      BY <1>6, <2>1, <3>1
  <2> QED
    BY <1>1, <2>1, <2>2 DEF Caller
<1>7. SentOnceOK'
  BY <1>4, <1>5, <1>6 DEF SentOnceOK
<1> QED
  BY <1>3, <1>7

\* A handler ends: had its form made a document, the answer would say so.
LEMMA FormsFinish ==
  ASSUME PagesInv, NEW h \in Handler, Finish(h), calls[h].at = "answer" => ~calls[h].did,
         UNCHANGED <<page, server, form, forms, unsure>>
  PROVE  FormsOK'
<1> USE DEF PagesInv, FormsOK
<1>1. /\ calls'[h] = NoCall /\ \A p \in Caller \ {h} : calls'[p] = calls[p]
      /\ ~Sends(NoCall)
  BY DEF TypeOK, Sends, NoCall, Finish, Caller
<1>2. \A p \in Caller : Sends(calls'[p]) => Sends(calls[p]) /\ calls'[p] = calls[p]
  BY <1>1
<1>3. UNCHANGED origin
  BY DEF server
<1>4. NumbersOK'
  BY <1>2, <1>3 DEF NumbersOK, FormKind, Caller
<1>5. ASSUME NEW r \in Row, origin[r].form \notin unsure \cup {0}, form.open, form.no = origin[r].form
      PROVE  \E g \in Handler : /\ Sends(calls'[g]) /\ calls'[g].form = origin[r].form
                                /\ calls'[g].at = "answer"
  <2>1. PICK g \in Handler : /\ Sends(calls[g]) /\ calls[g].form = origin[r].form
                             /\ calls[g].at = "answer"
    BY <1>5 DEF SentOnceOK
  <2>2. calls[g].did
    BY <1>5, <2>1 DEF SentOnceOK
  <2> QED
    BY <1>1, <2>1, <2>2 DEF Caller
<1>6. SentOnceOK'
  BY <1>2, <1>3, <1>5 DEF SentOnceOK, Caller
<1> QED
  BY <1>4, <1>6

\* A handler begins: the rest is up to what the page shows.
LEMMA BeginKeeps ==
  ASSUME PagesInv, NEW h \in Handler, NEW c \in Call, Begin(h, c), RequestOK(c), ScreenOK',
         form' = form,
         Sends(c) => form.open /\ c.form = form.no /\ c.kind = FormKind(form.of),
         c.kind \in Marked => Mark(c.kind) \notin busy,
         busy' = busy \cup (CASE c.kind = "load" -> {"list"}
                              [] c.kind \in Marked -> {Mark(c.kind)}
                              [] OTHER -> {}),
         c.kind = "load" => c.at = "get",
         busyRow' = busyRow \/ (c.kind = "row" /\ busyRow' = c.row)
  PROVE  PagesInv'
<1>1. /\ calls' = [calls EXCEPT ![h] = c] /\ calls[h].kind = "none"
      /\ UNCHANGED <<page, server, forms, lost, unsure>>
  BY DEF Begin
<1>2. MarksOK' /\ CallsOK'
  BY <1>1, BeginMarks, CallsKept DEF PagesInv, Caller
<1>3. ServerOK'
  BY <1>1, ServerKept
<1>4. FormsOK'
  <2>1. Sends(c) => c.kind \in Marked
    BY DEF Sends, Marked
  <2> QED
    BY <2>1, FormsBegin
<1>5. busy' \subseteq {"list", "form", "role"} \cup Field \cup Change
  BY DEF PagesInv, TypeOK, Marked, Mark
<1>6. busyRow' \in Row \cup {NoRow}
  BY DEF PagesInv, TypeOK, Call
<1>7. TypeOK'
  BY <1>1, <1>3, <1>5, <1>6 DEF PagesInv, TypeOK, ServerOK, ScreenOK
<1> QED
  BY <1>2, <1>3, <1>4, <1>7 DEF PagesInv

\* A handler goes on.
LEMMA AdvanceKeeps ==
  ASSUME PagesInv, NEW h \in Handler, NEW c \in Call,
         calls' = [calls EXCEPT ![h] = c],
         c.kind = calls[h].kind, c.row = calls[h].row, c.act = calls[h].act,
         c.at = "checked" => Sends(c),
         calls[h].at \in {"get", "got", "unread"} => c.at \in {"get", "got", "unread"},
         busy' = busy \/ (busy' = busy \cup {"list"} /\ ReadsList(c.kind) /\ c.at = "get"),
         UNCHANGED <<page, busyRow, forms>>, lost' \in 0..MaxLost, unsure' \subseteq Nat,
         ServerOK', ScreenOK', FormsOK'
  PROVE  PagesInv'
<1>1. RequestOK(c)
  BY DEF PagesInv, CallsOK, RequestOK, Caller
<1>2. MarksOK' /\ CallsOK'
  BY <1>1, AdvanceMarks, CallsKept DEF PagesInv, Caller
<1>3. TypeOK'
  BY DEF PagesInv, TypeOK, ServerOK, ScreenOK
<1> QED
  BY <1>2, <1>3 DEF PagesInv

\* A stray request begins, goes on or ends: no handler is concerned.
LEMMA StrayKeeps ==
  ASSUME PagesInv, NEW q \in Stray, NEW c \in Call, RequestOK(c),
         calls' = [calls EXCEPT ![q] = c],
         UNCHANGED <<page, busy, busyRow, forms>>, lost' \in 0..MaxLost, unsure' \subseteq Nat,
         ServerOK', ScreenOK', FormsOK'
  PROVE  PagesInv'
<1>1. \A h \in Handler : calls'[h] = calls[h]
  BY PagesAssumption DEF PagesInv, TypeOK, Caller
<1>2. MarksOK'
  BY <1>1 DEF PagesInv, MarksOK
<1>3. CallsOK'
  BY CallsKept DEF PagesInv, Caller
<1>4. TypeOK'
  BY DEF PagesInv, TypeOK, ServerOK, ScreenOK, Caller
<1> QED
  BY <1>2, <1>3, <1>4 DEF PagesInv

\* A handler ends.
LEMMA FinishKeeps ==
  ASSUME PagesInv, NEW h \in Handler, Finish(h), calls[h].at = "answer" => ~calls[h].did,
         UNCHANGED <<page, server, form, forms, lost, unsure>>, ScreenOK'
  PROVE  PagesInv'
<1>1. calls' = [calls EXCEPT ![h] = NoCall] /\ RequestOK(NoCall)
  BY DEF Finish, RequestOK, NoCall, Field, Change
<1>2. MarksOK' /\ CallsOK'
  BY <1>1, FinishMarks, CallsKept, NoCallType DEF PagesInv, Caller
<1>3. ServerOK' /\ FormsOK'
  BY ServerKept, FormsFinish
<1>4. busy' \subseteq busy /\ busyRow' \in {busyRow, NoRow}
  BY DEF Finish
<1>5. TypeOK'
  BY <1>3, <1>4, FinishMarks DEF PagesInv, TypeOK, ServerOK, ScreenOK
<1> QED
  BY <1>2, <1>3, <1>5 DEF PagesInv

-----------------------------------------------------------------------------
\* An error is set or taken back, in the places that every page has.
LEMMA ScreenKept ==
  ASSUME PagesInv, page' = page,
         list' \in [Row -> Status],
         form' \in [open : BOOLEAN, of : Row \cup {NoRow}, no : Nat],
         detail' \in [doc : Row \cup {NoRow}, paid : 0..Total, partOf : Row \cup {NoRow}],
         page = "purchases" /\ detail'.doc # NoRow => detail'.partOf = detail'.doc,
         typed' \subseteq Field,
         error' \in [Place -> Error],
         \A w \in Place :
            error'[w] = "recorded" =>
               \/ error[w] = "recorded"
               \/ <<page, w>> \in {<<"invoices", "detail">>, <<"merchants", "overrides">>}
  PROVE  ScreenOK'
  BY DEF PagesInv, ScreenOK, ErrorMeansRefused, DetailIsOneDocument

\* The user starts a handler.
LEMMA StartKeeps ==
  ASSUME PagesInv, NEW h \in Handler, UserStarts(h)
  PROVE  PagesInv'
<1> USE DEF PagesInv, TypeOK
<1>1. \A e \in {"no", "failed"} : \A w \in Place : [error EXCEPT ![w] = e] \in [Place -> Error]
  BY DEF Error
<1>2. CASE Load(h)
  <2>1. Begin(h, LoadCall) /\ busy' = busy \cup {"list"}
    BY <1>2 DEF Load
  <2>2. LoadCall.kind = "load" /\ LoadCall.at = "get" /\ RequestOK(LoadCall) /\ ~Sends(LoadCall)
    BY DEF LoadCall, NoCall, RequestOK, Sends, Field, Change
  <2>3. page' = page
    BY <2>1 DEF Begin
  <2>4. ScreenOK'
    BY <1>2, <2>3, ScreenKept DEF Load, Place, Error, ScreenOK, DetailIsOneDocument
  <2>5. UNCHANGED <<form, busyRow>> /\ "load" \notin Marked
    BY <1>2 DEF Load, Marked, Field, Change
  <2> QED
    BY <2>1, <2>2, <2>4, <2>5, BeginKeeps, NoCallType
<1>3. ASSUME NEW kind \in {"submit", "assign"}, Submit(h, kind, Mark(kind))
      PROVE  PagesInv'
  <2> DEFINE c == [NoCall EXCEPT !.kind = kind, !.at = "post", !.row = form.of, !.form = form.no]
  <2>1. /\ Begin(h, c) /\ Mark(kind) \notin busy /\ busy' = busy \cup {Mark(kind)}
        /\ UNCHANGED <<list, form, detail, typed, busyRow>>
        /\ error' = [error EXCEPT ![Mark(kind)] = "no"]
    BY <1>3 DEF Submit
  <2>2. /\ c \in Call /\ c.kind = kind /\ c.at = "post"
        /\ form.open /\ c.form = form.no /\ c.kind = FormKind(form.of)
    BY <1>3, NoCallType DEF Call, NoCall, Submit
  <2>3. RequestOK(c)
    BY <2>2 DEF RequestOK, Field, Change
  <2>4. page' = page
    BY <2>1 DEF Begin
  <2>5. ScreenOK'
    BY <2>1, <2>4, ScreenKept DEF Place, Error, ScreenOK, DetailIsOneDocument, Mark
  <2>6. kind \in Marked /\ kind # "load"
    BY DEF Marked
  <2> HIDE DEF c
  <2> QED
    BY <2>1, <2>2, <2>3, <2>5, <2>6, BeginKeeps
<1>4. CASE SubmitsForm(h)
  <2>1. Mark("submit") = "form" /\ Mark("assign") = "role"
    BY DEF Mark
  <2> QED
    BY <1>3, <1>4, <2>1
       DEF SubmitsForm, onSubmit, onCreateAccount, onCreatePeriod, onCreateOpeningBalance,
           onCreateReconciliation, onSavePlan, onCreateStaff, onCreateCompany,
           onCreateMember, onAddRoleSubmit
<1>5. CASE PressesButton(h)
  <2>1. PICK r \in Row, from \in Status, to \in {"open", "done", "gone"} :
           RowAction(h, r, from, to) /\ (page = "opening" => to = "gone")
    BY <1>5 DEF PressesButton, receive, cancel, deleteExpense, removeRole, onTogglePeriod,
                onReverseOpeningBalance, Status
  <2> DEFINE c == [NoCall EXCEPT !.kind = "row", !.at = "post", !.row = r, !.act = to]
  <2>2. /\ Begin(h, c) /\ UNCHANGED <<list, form, detail, typed, busy>>
        /\ error' = [error EXCEPT !["row"] = "no"]
        /\ busyRow' = busyRow \/ busyRow' = r
    BY <2>1 DEF RowAction
  <2>3. c \in Call /\ c.kind = "row" /\ c.row = r /\ c.act = to /\ c.at = "post"
    BY NoCallType DEF Call, NoCall, Status
  <2>4. RequestOK(c) /\ ~Sends(c)
    BY <2>1, <2>3 DEF RequestOK, Sends, Field, Change
  <2>5. page' = page
    BY <2>2 DEF Begin
  <2>6. ScreenOK'
    BY <2>2, <2>5, ScreenKept DEF Place, Error, ScreenOK, DetailIsOneDocument
  <2>7. "row" \notin Marked
    BY DEF Marked, Field, Change
  <2> HIDE DEF c
  <2> QED
    BY <2>2, <2>3, <2>4, <2>6, <2>7, BeginKeeps
<1>6. CASE openDetail(h) \/ openManage(h)
  <2>1. PICK r \in Row, n \in 0..Total :
           /\ Begin(h, OpenCall(r, n))
           /\ UNCHANGED <<list, form, busy, busyRow>>
           /\ typed' \in {{}, typed}
           /\ \/ detail' = detail
              \/ page = "merchants" /\ detail' = [NoDetail EXCEPT !.doc = r]
           /\ \/ error' = [error EXCEPT !["detail"] = "no"]
              \/ error' = [error EXCEPT !["detail"] = "no", !["overrides"] = "no"]
    <3>1. CASE openDetail(h)
      <4>1. PICK r \in Row : \E n \in 0..settled["payment"][r] :
               /\ Begin(h, OpenCall(r, n))
               /\ typed' = {} /\ error' = [error EXCEPT !["detail"] = "no"]
               /\ UNCHANGED <<list, form, detail, busy, busyRow>>
        BY <3>1 DEF openDetail
      <4>2. settled["payment"][r] \in 0..Total /\ Total \in Nat
        BY PagesAssumption DEF Field
      <4>3. 0..settled["payment"][r] \subseteq 0..Total
        BY <4>2
      <4> QED
        BY <4>1, <4>3
    <3>2. CASE openManage(h)
      <4>1. 0 \in 0..Total
        BY PagesAssumption
      <4> QED
        BY <3>2, <4>1 DEF openManage
    <3> QED
      BY <1>6, <3>1, <3>2
  <2> DEFINE c == OpenCall(r, n)
  <2>2. c \in Call /\ c.kind = "open" /\ c.row = r /\ c.at = "get"
    BY NoCallType DEF Call, NoCall, OpenCall
  <2>3. RequestOK(c) /\ ~Sends(c)
    BY <2>2 DEF RequestOK, Sends, Field, Change
  <2>4. page' = page
    BY <2>1 DEF Begin
  <2>5. detail' \in [doc : Row \cup {NoRow}, paid : 0..Total, partOf : Row \cup {NoRow}]
    BY <2>1, PagesAssumption DEF NoDetail
  <2>6. ScreenOK'
    <3>1. /\ error' \in [Place -> Error]
          /\ \A w \in Place : error'[w] = "recorded" => error[w] = "recorded"
      BY <2>1 DEF Place, Error
    <3>2. page = "purchases" /\ detail'.doc # NoRow => detail'.partOf = detail'.doc
      BY <2>1 DEF ScreenOK, DetailIsOneDocument
    <3>3. UNCHANGED <<list, form>> /\ typed' \subseteq Field
      BY <2>1
    <3> QED
      BY <2>4, <2>5, <3>1, <3>2, <3>3, ScreenKept
  <2>7. "open" \notin Marked /\ Begin(h, c)
    BY <2>1 DEF Marked, Field, Change
  <2> HIDE DEF c
  <2> QED
    BY <2>1, <2>2, <2>3, <2>6, <2>7, BeginKeeps
<1>7. ASSUME NEW kind \in Field \cup Change, NEW place \in Place, Send(h, kind, place),
             kind \in Change => page = "merchants"
      PROVE  PagesInv'
  <2> DEFINE c == [NoCall EXCEPT !.kind = kind, !.at = "post", !.row = detail.doc]
  <2>1. /\ Begin(h, c) /\ kind \notin busy /\ busy' = busy \cup {kind} /\ detail.doc # NoRow
        /\ UNCHANGED <<list, form, detail, typed, busyRow>>
        /\ error' = [error EXCEPT ![place] = "no"]
    BY <1>7 DEF Send
  <2>2. c \in Call /\ c.kind = kind /\ c.row = detail.doc /\ c.at = "post"
    BY NoCallType DEF Call, NoCall
  <2>3. RequestOK(c) /\ ~Sends(c)
    BY <1>7, <2>1, <2>2 DEF RequestOK, Sends, Field, Change
  <2>4. page' = page
    BY <2>1 DEF Begin
  <2>5. ScreenOK'
    BY <2>1, <2>4, ScreenKept DEF Place, Error, ScreenOK, DetailIsOneDocument
  <2>6. kind \in Marked /\ Mark(kind) = kind /\ kind # "load" /\ kind # "row"
    BY DEF Marked, Mark, Field, Change
  <2> HIDE DEF c
  <2> QED
    BY <2>1, <2>2, <2>3, <2>5, <2>6, BeginKeeps
<1>8. CASE submitPayment(h) \/ submitReturn(h) \/ onManage(h) \/ onSaveOverrides(h)
  <2>1. PICK kind \in Field \cup Change, place \in Place :
           Send(h, kind, place) /\ (kind \in Change => page = "merchants")
    BY <1>8 DEF submitPayment, submitReturn, onManage, onSaveOverrides, Settle, Field, Change, Place
  <2> QED
    BY <1>7, <2>1
<1> QED
  BY <1>2, <1>4, <1>5, <1>6, <1>8 DEF UserStarts

\* The server answers, a handler or nobody.
LEMMA ServeKeeps ==
  ASSUME PagesInv, NEW q \in Caller, NEW did \in BOOLEAN, Reply(q, did),
         calls[q].at \in {"post", "checked"}, UNCHANGED <<page, screen, forms, lost, unsure>>,
         ServerOK', origin' = origin \/ FormsOK'
  PROVE  PagesInv'
<1> DEFINE c == IF q \in Stray THEN NoCall ELSE [calls[q] EXCEPT !.at = "answer", !.did = did]
<1>1. calls[q] \in Call
  BY DEF PagesInv, TypeOK
<1>2. c \in Call /\ c.at # "checked"
  BY <1>1, NoCallType DEF Call, NoCall
<1>3. calls' = [calls EXCEPT ![q] = c]
  BY <1>1 DEF Reply, PagesInv, TypeOK
<1>4. q \notin Stray => /\ c.kind = calls[q].kind /\ c.row = calls[q].row
                        /\ c.act = calls[q].act /\ c.form = calls[q].form
  BY <1>1 DEF Call
<1>5. /\ ScreenOK' /\ UNCHANGED <<busy, busyRow, form>>
      /\ lost' \in 0..MaxLost /\ unsure' \subseteq Nat
  BY DEF PagesInv, TypeOK, ScreenOK, screen, ErrorMeansRefused, DetailIsOneDocument
<1>6. q \in Stray => c = NoCall /\ RequestOK(c)
  BY DEF RequestOK, NoCall, Field, Change
<1> HIDE DEF c
<1>7. FormsOK'
  BY <1>2, <1>3, <1>4, <1>5, <1>6, FormsGoOn
<1>8. CASE q \in Stray
  BY <1>2, <1>3, <1>5, <1>6, <1>7, <1>8, StrayKeeps
<1>9. CASE q \in Handler /\ q \notin Stray
  BY <1>2, <1>3, <1>4, <1>5, <1>7, <1>9, AdvanceKeeps
<1> QED
  BY <1>8, <1>9 DEF Caller

\* A request that is about to insert carries a form; if the form was never lost,
\* no document was made by it, and no other handler sends it.
LEMMA FirstToInsert ==
  ASSUME PagesInv, NEW q \in Caller, calls[q].at = "checked"
  PROVE  /\ Sends(calls[q]) /\ calls[q].form \in 1..forms
         /\ \A r \in Row : origin[r].form = calls[q].form => calls[q].form \in unsure
         /\ q \in Stray => calls[q].form \in unsure
<1> USE DEF PagesInv
<1>1. Sends(calls[q]) /\ calls[q].form \in 1..forms
  BY DEF CallsOK, RequestOK, FormsOK, NumbersOK
<1>2. q \in Stray => calls[q].form \in unsure
  BY <1>1 DEF FormsOK, SentOnceOK
<1>3. calls[q].form # 0
  BY <1>1
<1>4. \A r \in Row : origin[r].form = calls[q].form /\ q \in Handler => calls[q].form \in unsure
  BY <1>1, <1>3 DEF FormsOK, SentOnceOK
<1> QED
  BY <1>1, <1>2, <1>4 DEF Caller

\* A new document has the form of none that stands, where an index looks, and of
\* none at all if the form was never lost.
LEMMA AddKeeps ==
  ASSUME PagesInv, NEW q \in Caller, calls[q].at = "checked", ~IndexRefuses(calls[q]),
         UNCHANGED <<page, settled, unsure>>, NEW r \in Row, rows[r] = "none",
         rows' = [rows EXCEPT ![r] = "open"],
         origin' = [origin EXCEPT ![r] = [form |-> calls[q].form, kind |-> calls[q].kind]]
  PROVE  ServerOK'
<1> USE DEF PagesInv, ServerOK
<1> DEFINE c == calls[q]
<1>1. c \in Call /\ Sends(c) /\ c.form # 0
  BY FirstToInsert DEF TypeOK
<1>2. /\ rows' \in [Row -> Status]
      /\ origin' \in [Row -> [form : Nat, kind : {"none", "submit", "assign"}]]
      /\ rows'[r] = "open" /\ origin'[r] = [form |-> c.form, kind |-> c.kind]
      /\ \A s \in Row \ {r} : rows'[s] = rows[s] /\ origin'[s] = origin[s]
  BY <1>1 DEF TypeOK, Call, Status, Sends
<1>3. RowsOK'
  BY <1>1, <1>2 DEF RowsOK
<1>4. ASSUME NEW s \in Row \ {r}, origin[s] = [form |-> c.form, kind |-> c.kind]
      PROVE  c.form \in unsure /\ (Backed(c.kind) => rows[s] = "gone")
  <2>1. origin[s].form = c.form /\ origin[s] # NoOrigin
    BY <1>1, <1>4 DEF NoOrigin
  <2>2. c.form \in unsure
    BY <2>1, FirstToInsert
  <2>3. ASSUME Backed(c.kind) PROVE rows[s] = "gone"
    <3>1. ~Clashes(c)
      BY <2>3 DEF IndexRefuses
    <3>2. CASE page = "opening"
      BY <2>1, <3>1, <3>2 DEF Clashes, RowsOK, Status
    <3>3. CASE page # "opening"
      BY <2>1, <2>3, <3>1, <3>3 DEF Clashes, Backed
    <3> QED
      BY <3>2, <3>3
  <2> QED
    BY <2>2, <2>3
<1>5. RecordedOnce'
  <2> SUFFICES ASSUME NEW s \in Row, NEW t \in Row, s # t, origin'[s] = origin'[t],
                      origin'[s] # NoOrigin
               PROVE  /\ origin'[s].form \in unsure
                      /\ Backed(origin'[s].kind) => "gone" \in {rows'[s], rows'[t]}
    BY DEF RecordedOnce, Backed
  <2>1. CASE s # r /\ t # r
    BY <1>2, <2>1 DEF RecordedOnce
  <2>2. CASE s = r \/ t = r
    BY <1>2, <1>4, <2>2
  <2> QED
    BY <2>1, <2>2
<1> QED
  BY <1>2, <1>3, <1>5

\* The handler of a form that was never lost is told of the document.
LEMMA AddTells ==
  ASSUME PagesInv, NEW q \in Caller, calls[q].at = "checked", Reply(q, TRUE),
         UNCHANGED <<page, form, forms, unsure>>, NEW r \in Row,
         origin' = [origin EXCEPT ![r] = [form |-> calls[q].form, kind |-> calls[q].kind]]
  PROVE  FormsOK'
<1> USE DEF PagesInv, FormsOK
<1> DEFINE c == calls[q]
<1>1. c \in Call /\ Sends(c) /\ c.form \in 1..forms
  BY FirstToInsert DEF TypeOK
<1>2. /\ \A p \in Caller \ {q} : calls'[p] = calls[p]
      /\ q \in Stray => calls'[q] = NoCall
      /\ q \notin Stray => /\ calls'[q].kind = c.kind /\ calls'[q].form = c.form
                           /\ calls'[q].at = "answer" /\ calls'[q].did
      /\ ~Sends(NoCall)
  BY <1>1 DEF Reply, TypeOK, Call, Sends, NoCall
<1>3. \A p \in Caller : Sends(calls'[p]) =>
         Sends(calls[p]) /\ calls'[p].form = calls[p].form /\ calls'[p].kind = calls[p].kind
  BY <1>2 DEF Sends
<1>4. /\ origin'[r].form = c.form
      /\ \A s \in Row \ {r} : origin'[s] = origin[s]
  BY DEF TypeOK
<1>5. NumbersOK'
  <2>1. \A s \in Row : origin'[s].form \in 0..forms
    BY <1>1, <1>4 DEF NumbersOK
  <2> QED
    BY <1>3, <2>1 DEF NumbersOK, FormKind, Caller
<1>6. \A s \in Stray : Sends(calls'[s]) => calls'[s].form \in unsure
  BY <1>3 DEF SentOnceOK, Caller
<1>7. ASSUME NEW s \in Row, origin'[s].form \notin unsure \cup {0}
      PROVE  /\ \A h \in Handler :
                   Sends(calls'[h]) /\ calls'[h].form = origin'[s].form =>
                       /\ calls'[h].at \notin {"post", "checked", "failed"}
                       /\ calls'[h].at = "answer" => calls'[h].did
             /\ form.open /\ form.no = origin'[s].form =>
                   \E h \in Handler :
                       /\ Sends(calls'[h]) /\ calls'[h].form = origin'[s].form
                       /\ calls'[h].at = "answer"
  <2>1. CASE s = r
    <3>1. origin'[s].form = c.form /\ c.form \notin unsure
      BY <1>4, <1>7, <2>1
    <3>2. q \in Handler /\ q \notin Stray
      BY <3>1, FirstToInsert DEF Caller
    <3>3. \A h \in Handler : Sends(calls'[h]) /\ calls'[h].form = c.form => h = q
      BY <1>1, <1>3, <3>2 DEF NumbersOK, Caller
    <3>4. Sends(calls'[q]) /\ calls'[q].form = c.form /\ calls'[q].at = "answer" /\ calls'[q].did
      BY <1>1, <1>2, <3>2 DEF Sends
    <3> QED
      BY <3>1, <3>2, <3>3, <3>4
  <2>2. CASE s # r
    <3>1. origin'[s] = origin[s]
      BY <1>4, <2>2
    <3>2. c.form # origin[s].form
      BY <1>7, <3>1, FirstToInsert
    <3>3. \A h \in Handler : Sends(calls'[h]) /\ calls'[h].form = origin[s].form
                                => calls'[h] = calls[h]
      BY <1>2, <1>3, <3>2 DEF Caller
    <3>4. \A h \in Handler : Sends(calls[h]) /\ calls[h].form = origin[s].form
                                => calls'[h] = calls[h]
      BY <1>2, <3>2 DEF Caller
    <3> QED
      BY <1>7, <3>1, <3>3, <3>4 DEF SentOnceOK
  <2> QED
    BY <2>1, <2>2
<1>8. SentOnceOK'
  BY <1>6, <1>7 DEF SentOnceOK
<1> QED
  BY <1>5, <1>8

\* The server gets a request.
LEMMA NetworkKeeps ==
  ASSUME PagesInv, NEW q \in Caller, Serve(q)
  PROVE  PagesInv'
<1> USE DEF PagesInv
<1>1. calls[q] \in Call /\ RequestOK(calls[q])
  BY DEF TypeOK, CallsOK
<1>2. ASSUME calls[q].at \in {"post", "checked"}, UNCHANGED <<page, server, screen, forms, lost, unsure>>,
             NEW did \in BOOLEAN, Reply(q, did)
      PROVE  PagesInv'
  <2>1. ServerOK' /\ origin' = origin
    BY <1>2, ServerKept DEF server
  <2> QED
    BY <1>2, <2>1, ServeKeeps
<1>3. CASE ServeSearch(q)
  <2>1. /\ calls[q].at = "post" /\ Sends(calls[q])
        /\ UNCHANGED <<page, server, screen, forms, lost, unsure>>
    BY <1>3 DEF ServeSearch, Posted, Sends, Refuse
  <2>2. CASE Refuse(q)
    BY <1>2, <2>1, <2>2 DEF Refuse
  <2>3. CASE calls' = [calls EXCEPT ![q].at = "checked"]
    <3> DEFINE d == [calls[q] EXCEPT !.at = "checked"]
    <3>1. /\ calls' = [calls EXCEPT ![q] = d] /\ d \in Call /\ d.at = "checked"
          /\ d.kind = calls[q].kind /\ d.row = calls[q].row /\ d.act = calls[q].act
          /\ d.form = calls[q].form
      BY <1>1, <2>3 DEF TypeOK, Call
    <3>2. RequestOK(d) /\ Sends(d)
      BY <1>1, <2>1, <3>1 DEF RequestOK, Sends
    <3>3. /\ ScreenOK' /\ UNCHANGED <<busy, busyRow, form, origin>>
          /\ lost' \in 0..MaxLost /\ unsure' \subseteq Nat /\ ServerOK'
      BY <2>1, ServerKept
         DEF TypeOK, ScreenOK, screen, ErrorMeansRefused, DetailIsOneDocument, server
    <3> HIDE DEF d
    <3>4. FormsOK'
      BY <2>1, <3>1, <3>3, FormsGoOn
    <3>5. CASE q \in Stray
      BY <2>1, <3>1, <3>2, <3>3, <3>4, <3>5, StrayKeeps
    <3>6. CASE q \in Handler
      BY <2>1, <3>1, <3>2, <3>3, <3>4, <3>6, AdvanceKeeps
    <3> QED
      BY <3>5, <3>6 DEF Caller
  <2> QED
    BY <1>3, <2>2, <2>3 DEF ServeSearch
<1>4. CASE ServeInsert(q)
  <2>1. calls[q].at = "checked" /\ UNCHANGED <<page, screen, forms, lost, unsure>>
    BY <1>4 DEF ServeInsert
  <2>2. CASE Refuse(q)
    BY <1>2, <2>1, <2>2 DEF Refuse
  <2>3. ASSUME ~IndexRefuses(calls[q]), Reply(q, TRUE), UNCHANGED settled,
               NEW r \in Row, rows[r] = "none", rows' = [rows EXCEPT ![r] = "open"],
               origin' = [origin EXCEPT ![r] = [form |-> calls[q].form, kind |-> calls[q].kind]]
        PROVE  PagesInv'
    <3>1. ServerOK'
      BY <2>1, <2>3, AddKeeps
    <3>2. FormsOK'
      BY <2>1, <2>3, AddTells DEF screen
    <3> QED
      BY <2>1, <2>3, <3>1, <3>2, ServeKeeps
  <2> QED
    BY <1>4, <2>2, <2>3 DEF ServeInsert
<1>5. CASE ServeUpdate(q)
  <2>1. /\ calls[q].at = "post" /\ Reply(q, rows[calls[q].row] = "open")
        /\ UNCHANGED <<page, server, screen, forms, lost, unsure>>
    BY <1>5 DEF ServeUpdate, Posted
  <2>2. (rows[calls[q].row] = "open") \in BOOLEAN
    OBVIOUS
  <2> QED
    BY <1>2, <2>1, <2>2
<1>6. CASE ServeRow(q)
  <2>1. /\ calls[q].at = "post" /\ calls[q].kind = "row"
        /\ UNCHANGED <<page, screen, forms, lost, unsure>>
    BY <1>6 DEF ServeRow, Posted
  <2>2. CASE Refuse(q)
    BY <1>2, <2>1, <2>2 DEF Refuse
  <2>3. ASSUME NEW r \in Targets(calls[q]), rows' = [rows EXCEPT ![r] = calls[q].act],
               Reply(q, TRUE), UNCHANGED <<origin, settled>>
        PROVE  PagesInv'
    <3>1. r \in Row /\ rows[r] # "gone" /\ calls[q].act \in Status \ {"none"}
      BY <1>1, <2>1 DEF Targets, RequestOK, Call
    <3>2. page = "opening" => calls[q].act = "gone"
      BY <1>1, <2>1 DEF RequestOK
    <3>3. ServerOK'
      BY <2>1, <2>3, <3>1, <3>2 DEF ServerOK, RowsOK, RecordedOnce, Backed
    <3> QED
      BY <2>1, <2>3, <3>3, ServeKeeps
  <2> QED
    BY <1>6, <2>2, <2>3 DEF ServeRow
<1>7. CASE ServeChange(q)
  <2>1. /\ calls[q].at = "post" /\ UNCHANGED <<page, server, screen, forms, lost, unsure>>
        /\ \E did \in BOOLEAN : Reply(q, did)
    BY <1>7 DEF ServeChange, Posted
  <2> QED
    BY <1>2, <2>1
<1>8. ASSUME NEW f \in Field, ServeSettle(q, f) PROVE PagesInv'
  <2>1. /\ calls[q].at = "post" /\ calls[q].kind = f
        /\ UNCHANGED <<page, screen, forms, lost, unsure>>
    BY <1>8 DEF ServeSettle, Posted
  <2>2. CASE Refuse(q)
    BY <1>2, <2>1, <2>2 DEF Refuse
  <2>3. CASE /\ HasRoom(f, calls[q]) /\ Reply(q, TRUE) /\ UNCHANGED <<rows, origin>>
             /\ settled' = [settled EXCEPT ![f][calls[q].row] = @ + 1]
    <3>1. PICK r \in Row : r = calls[q].row
      BY <1>1, <2>1 DEF RequestOK
    <3>2. settled[f] \in [Row -> 0..Total] /\ settled[f][r] < Total /\ Total \in Nat
      BY <2>3, <3>1, PagesAssumption DEF TypeOK, HasRoom
    <3>3. settled[f][r] + 1 \in 0..Total
      BY <3>2
    <3>4. settled' \in [Field -> [Row -> 0..Total]]
      BY <2>3, <3>1, <3>2, <3>3 DEF TypeOK
    <3>5. ServerOK'
      BY <2>1, <2>3, <3>4 DEF ServerOK, RowsOK, RecordedOnce, Backed
    <3> QED
      BY <2>1, <2>3, <3>5, ServeKeeps
  <2> QED
    BY <1>8, <2>2, <2>3 DEF ServeSettle
<1> QED
  BY <1>3, <1>4, <1>5, <1>6, <1>7, <1>8 DEF Serve

\* A handler reads, or its message is lost.
LEMMA ReadKeeps ==
  ASSUME PagesInv, NEW h \in Handler, ServeGet(h) \/ Lose(h)
  PROVE  PagesInv'
<1> USE DEF PagesInv
<1> DEFINE c == calls[h]
<1>1. h \in Caller /\ c \in Call /\ RequestOK(c) /\ h \notin Stray
  BY PagesAssumption DEF TypeOK, CallsOK, Caller
<1>2. CASE ServeGet(h)
  <2> DEFINE l == IF ReadsList(c.kind) \/ Refreshes(c) THEN rows ELSE c.list
             n == IF ReadsList(c.kind) THEN 0
                  ELSE IF page = "invoices" /\ c.kind = "open" THEN c.paid
                  ELSE settled["payment"][c.row]
             d == [c EXCEPT !.at = "got", !.list = l, !.paid = n]
  <2>1. /\ c.kind # "none" /\ c.at = "get" /\ calls' = [calls EXCEPT ![h] = d]
        /\ UNCHANGED <<page, server, screen, forms, lost, unsure>>
    BY <1>1, <1>2 DEF ServeGet, TypeOK
  <2>2. l \in [Row -> Status]
    BY <1>1 DEF TypeOK, Call
  <2>3. n \in 0..Total
    <3>1. CASE ReadsList(c.kind)
      BY <3>1, PagesAssumption
    <3>2. CASE ~ReadsList(c.kind)
      <4>1. c.row \in Row /\ c.paid \in 0..Total
        BY <1>1, <2>1, <3>2 DEF ReadsList, RequestOK, Call
      <4> QED
        BY <3>2, <4>1 DEF TypeOK, Field
    <3> QED
      BY <3>1, <3>2
  <2>4. /\ d \in Call /\ d.kind = c.kind /\ d.row = c.row /\ d.act = c.act /\ d.at = "got"
        /\ d.form = c.form
    BY <1>1, <2>2, <2>3 DEF Call
  <2>5. /\ ScreenOK' /\ UNCHANGED <<busy, busyRow, form, origin>>
        /\ lost' \in 0..MaxLost /\ unsure' \subseteq Nat /\ ServerOK'
    BY <2>1, ServerKept
       DEF TypeOK, ScreenOK, screen, ErrorMeansRefused, DetailIsOneDocument, server
  <2> HIDE DEF l, n, d
  <2>6. FormsOK'
    BY <1>1, <2>1, <2>4, <2>5, FormsGoOn
  <2> QED
    BY <2>1, <2>4, <2>5, <2>6, AdvanceKeeps
<1>3. CASE Lose(h)
  <2> DEFINE d == [c EXCEPT !.at = IF @ \in {"post", "checked", "answer"} THEN "failed" ELSE "unread"]
             failed == [calls EXCEPT ![h] = d]
  <2>1. /\ lost' = lost + 1 /\ lost < MaxLost /\ c.kind # "none" /\ c.at \notin {"failed", "unread"}
        /\ UNCHANGED <<page, server, screen, forms>>
        /\ unsure' = IF c.at \in {"post", "checked", "answer"} THEN unsure \cup {c.form} ELSE unsure
        /\ \/ calls' = failed
           \/ \E s \in Stray : /\ c.at \in {"post", "checked"} /\ calls[s] = NoCall
                               /\ calls' = [failed EXCEPT ![s] = c]
    BY <1>1, <1>3 DEF Lose, TypeOK
  <2>2. /\ d \in Call /\ d.kind = c.kind /\ d.row = c.row /\ d.act = c.act /\ d.form = c.form
        /\ c.at \in {"get", "got", "unread"} => d.at \in {"get", "got", "unread"}
        /\ d.at = IF c.at \in {"post", "checked", "answer"} THEN "failed" ELSE "unread"
    BY <1>1 DEF Call
  <2>3. /\ UNCHANGED <<busy, busyRow, form, origin>> /\ unsure \subseteq unsure'
        /\ lost' \in 0..MaxLost /\ unsure' \subseteq Nat
    BY <1>1, <2>1, PagesAssumption DEF TypeOK, screen, server, Call
  <2>4. ServerOK' /\ ScreenOK'
    BY <2>1, <2>3, ServerKept DEF ScreenOK, screen, ErrorMeansRefused, DetailIsOneDocument
  <2>5. d.at = "failed" => d.form \in unsure'
    BY <2>1, <2>2
  <2> HIDE DEF d
  <2>6. CASE calls' = failed
    <3>1. FormsOK'
      BY <1>1, <2>1, <2>2, <2>3, <2>5, <2>6, FormsGoOn
    <3> QED
      BY <2>1, <2>2, <2>3, <2>4, <2>6, <3>1, AdvanceKeeps
  <2>7. ASSUME NEW s \in Stray, c.at \in {"post", "checked"}, calls[s] = NoCall,
               calls' = [failed EXCEPT ![s] = c]
        PROVE  PagesInv'
    <3>1. /\ calls'[h] = d /\ calls'[s] = c /\ s # h
          /\ \A p \in Caller \ {h, s} : calls'[p] = calls[p]
          /\ calls' \in [Caller -> Call]
      BY <1>1, <2>2, <2>7 DEF TypeOK, Caller
    <3>2. c.form \in unsure' /\ d.at = "failed"
      BY <2>1, <2>2, <2>7
    <3>3. MarksOK'
      <4>1. \A g \in Handler : /\ calls'[g].kind = calls[g].kind /\ calls'[g].row = calls[g].row
                               /\ g # h => calls'[g] = calls[g]
        BY <2>2, <3>1, PagesAssumption DEF Caller
      <4>2. busyRow' # NoRow => \E g \in Handler : calls'[g].kind = "row" /\ calls'[g].row = busyRow'
        BY <2>3, <4>1 DEF MarksOK
      <4>3. "list" \in busy' => \E g \in Handler : /\ ReadsList(calls'[g].kind)
                                                 /\ calls'[g].at \in {"get", "got", "unread"}
        <5> SUFFICES ASSUME "list" \in busy
                     PROVE  \E g \in Handler : /\ ReadsList(calls'[g].kind)
                                               /\ calls'[g].at \in {"get", "got", "unread"}
          BY <2>3
        <5>1. PICK g \in Handler : ReadsList(calls[g].kind) /\ calls[g].at \in {"get", "got", "unread"}
          BY DEF MarksOK
        <5>2. g # h
          BY <2>7, <5>1
        <5> QED
          BY <4>1, <5>1, <5>2
      <4>4. \A kind \in Marked : Mark(kind) \in busy' <=> \E g \in Handler : calls'[g].kind = kind
        BY <2>3, <4>1 DEF MarksOK
      <4>5. \A f, g \in Handler : calls'[f].kind = calls'[g].kind /\ calls'[g].kind \in Marked => f = g
        BY <4>1 DEF MarksOK
      <4> QED
        BY <4>2, <4>3, <4>4, <4>5 DEF MarksOK
    <3>4. CallsOK'
      <4>1. RequestOK(d)
        BY <1>1, <2>2, <3>2 DEF RequestOK
      <4>2. \A b : RequestOK(b) => RequestOK(b)'
        BY <2>1 DEF RequestOK
      <4> QED
        BY <1>1, <3>1, <4>1, <4>2 DEF CallsOK
    <3>5. FormsOK'
      <4>1. \A g \in Handler : /\ calls'[g].kind = calls[g].kind /\ calls'[g].form = calls[g].form
                               /\ g # h => calls'[g] = calls[g]
        BY <2>2, <3>1, PagesAssumption DEF Caller
      <4>2. \A p \in Caller : Sends(calls'[p]) =>
               \E g \in Caller : /\ Sends(calls[g]) /\ calls'[p].form = calls[g].form
                                  /\ calls'[p].kind = calls[g].kind
        BY <1>1, <2>2, <3>1 DEF Sends
      <4>3. NumbersOK'
        <5>1. /\ \A r \in Row : origin'[r].form \in 0..forms'
              /\ form'.open => form'.no \in 1..forms'
          BY <2>1, <2>3 DEF FormsOK, NumbersOK
        <5>2. \A p \in Caller : Sends(calls'[p]) =>
                 /\ calls'[p].form \in 1..forms
                 /\ form.open /\ form.no = calls'[p].form => calls'[p].kind = FormKind(form.of)
          BY <4>2 DEF FormsOK, NumbersOK
        <5>3. \A f, g \in Handler :
                 Sends(calls'[f]) /\ Sends(calls'[g]) /\ calls'[f].form = calls'[g].form => f = g
          BY <4>1 DEF FormsOK, NumbersOK, Sends
        <5> QED
          BY <2>1, <2>3, <5>1, <5>2, <5>3 DEF NumbersOK, FormKind
      <4>4. \A t \in Stray : Sends(calls'[t]) => calls'[t].form \in unsure'
        BY <1>1, <2>3, <3>1, <3>2 DEF FormsOK, SentOnceOK, Caller
      <4>5. ASSUME NEW r \in Row, origin[r].form \notin unsure' \cup {0}
            PROVE  /\ \A g \in Handler :
                         Sends(calls'[g]) /\ calls'[g].form = origin[r].form =>
                             /\ calls'[g].at \notin {"post", "checked", "failed"}
                             /\ calls'[g].at = "answer" => calls'[g].did
                   /\ form.open /\ form.no = origin[r].form =>
                         \E g \in Handler :
                             /\ Sends(calls'[g]) /\ calls'[g].form = origin[r].form
                             /\ calls'[g].at = "answer"
        <5>1. origin[r].form \notin unsure \cup {0} /\ origin[r].form # c.form
          BY <2>3, <3>2, <4>5
        <5>2. \A g \in Handler : calls[g].form = origin[r].form \/ calls'[g].form = origin[r].form
                                    => calls'[g] = calls[g]
          BY <2>2, <3>1, <4>1, <5>1
        <5> QED
          BY <5>1, <5>2 DEF FormsOK, SentOnceOK
      <4>6. SentOnceOK'
        BY <2>3, <4>4, <4>5 DEF SentOnceOK
      <4> QED
        BY <4>3, <4>6 DEF FormsOK
    <3>6. TypeOK'
      BY <2>1, <2>3, <2>4, <3>1 DEF TypeOK, ServerOK, ScreenOK
    <3> QED
      BY <2>4, <3>3, <3>4, <3>5, <3>6
  <2> QED
    BY <2>1, <2>6, <2>7
<1> QED
  BY <1>2, <1>3

\* What a handler shows in the modal is of one purchase.
LEMMA DetailKept ==
  ASSUME PagesInv, NEW h \in Handler, page' = page,
         \/ detail' \in {detail, NoDetail}
         \/ ShowBoth(calls[h])
         \/ page # "purchases" /\ ShowPart(calls[h])
  PROVE  /\ detail' \in [doc : Row \cup {NoRow}, paid : 0..Total, partOf : Row \cup {NoRow}]
         /\ page = "purchases" /\ detail'.doc # NoRow => detail'.partOf = detail'.doc
<1>1. calls[h].row \in Row \cup {NoRow} /\ calls[h].paid \in 0..Total
  <2>1. calls[h] \in Call
    BY DEF PagesInv, TypeOK, Caller
  <2> QED
    BY <2>1 DEF Call
<1>2. NoDetail.doc = NoRow
      /\ NoDetail \in [doc : Row \cup {NoRow}, paid : 0..Total, partOf : Row \cup {NoRow}]
  BY PagesAssumption DEF NoDetail
<1>3. CASE detail' = detail
  BY <1>3 DEF PagesInv, ScreenOK, DetailIsOneDocument
<1>6. CASE detail' = NoDetail
  BY <1>2, <1>6
<1>4. CASE ShowBoth(calls[h])
  BY <1>1, <1>4 DEF ShowBoth
<1>5. CASE page # "purchases" /\ ShowPart(calls[h])
  BY <1>1, <1>5 DEF ShowPart, PagesInv, TypeOK
<1> QED
  BY <1>3, <1>4, <1>5, <1>6

\* An accepted form is closed: it is not sent again.
LEMMA FormsAccepted ==
  ASSUME PagesInv, NEW h \in Handler, Accepted(h)
  PROVE  FormsOK'
<1> USE DEF PagesInv, FormsOK
<1> DEFINE c == calls[h]
<1>1. /\ \A p \in Caller \ {h} : calls'[p] = calls[p]
      /\ calls'[h].kind = c.kind /\ calls'[h].form = c.form /\ calls'[h].at = "get"
      /\ c.at = "answer"
      /\ form' = IF c.kind = FormKind(form.of) THEN NoForm ELSE form
      /\ UNCHANGED <<page, origin, forms, unsure>>
  BY DEF Accepted, TypeOK, Caller, server, Call
<1>2. form' = form \/ ~form'.open
  BY <1>1 DEF NoForm
<1>3. \A p \in Caller : calls'[p].kind = calls[p].kind /\ calls'[p].form = calls[p].form
  BY <1>1
<1>4. NumbersOK'
  BY <1>1, <1>2, <1>3 DEF NumbersOK, FormKind, Sends, Caller
<1>5. \A s \in Stray : Sends(calls'[s]) => calls'[s].form \in unsure'
  BY <1>1, <1>3 DEF SentOnceOK, Sends, Caller
<1>6. ASSUME NEW r \in Row, origin[r].form \notin unsure \cup {0}, NEW g \in Handler,
             Sends(calls'[g]), calls'[g].form = origin[r].form
      PROVE  /\ calls'[g].at \notin {"post", "checked", "failed"}
             /\ calls'[g].at = "answer" => calls'[g].did
  BY <1>1, <1>3, <1>6 DEF SentOnceOK, Sends, Caller
<1>7. ASSUME NEW r \in Row, origin[r].form \notin unsure \cup {0}, form'.open, form'.no = origin[r].form
      PROVE  \E g \in Handler : /\ Sends(calls'[g]) /\ calls'[g].form = origin[r].form
                                /\ calls'[g].at = "answer"
  <2>1. form' = form /\ c.kind # FormKind(form.of)
    BY <1>1, <1>7 DEF NoForm
  <2>2. PICK g \in Handler : /\ Sends(calls[g]) /\ calls[g].form = origin[r].form
                             /\ calls[g].at = "answer"
    BY <1>7, <2>1 DEF SentOnceOK
  <2>3. g # h
    BY <1>7, <2>1, <2>2 DEF NumbersOK, Caller
  <2> QED
    BY <1>1, <2>2, <2>3 DEF Caller
<1>8. SentOnceOK'
  BY <1>1, <1>5, <1>6, <1>7 DEF SentOnceOK
<1> QED
  BY <1>4, <1>8

\* The handler goes on with the answer it got, or without one.
LEMMA ContinueKeeps ==
  ASSUME PagesInv, NEW h \in Handler, Continue(h)
  PROVE  PagesInv'
<1> USE DEF PagesInv
<1> DEFINE c == calls[h]
<1>1. c \in Call /\ RequestOK(c) /\ c.list \in [Row -> Status]
  BY DEF TypeOK, CallsOK, Call, Caller
<1>2. CASE Accepted(h)
  <2> DEFINE d == [c EXCEPT !.at = "get"]
  <2>1. /\ calls' = [calls EXCEPT ![h] = d] /\ c.at = "answer"
        /\ UNCHANGED <<page, server, list, detail, busyRow, forms, lost, unsure>>
    BY <1>2 DEF Accepted, TypeOK
  <2>2. d \in Call /\ d.kind = c.kind /\ d.row = c.row /\ d.act = c.act /\ d.at = "get"
    BY <1>1 DEF Call
  <2>3. busy' = busy \/ (busy' = busy \cup {"list"} /\ ReadsList(c.kind))
    BY <1>2 DEF Accepted
  <2>4. form' \in [open : BOOLEAN, of : Row \cup {NoRow}, no : Nat] /\ typed' \subseteq Field
    BY <1>2 DEF Accepted, TypeOK, NoForm
  <2>5. /\ error' \in [Place -> Error]
        /\ \A w \in Place : error'[w] \in {error[w], "no"}
    BY <1>2 DEF Accepted, TypeOK, Place, Error
  <2>6. ScreenOK'
    BY <2>1, <2>4, <2>5, ScreenKept DEF TypeOK, ScreenOK, DetailIsOneDocument
  <2>7. ServerOK' /\ lost' \in 0..MaxLost /\ unsure' \subseteq Nat
    BY <2>1, ServerKept DEF TypeOK
  <2>8. FormsOK'
    BY <1>2, FormsAccepted
  <2> HIDE DEF d
  <2> QED
    BY <2>1, <2>2, <2>3, <2>6, <2>7, <2>8, AdvanceKeeps
<1>3. CASE WriteFails(h)
  <2>1. /\ Finish(h) /\ error' = [error EXCEPT ![PlaceOf(c.kind)] = "failed"]
        /\ c.at = "answer" => ~c.did
        /\ UNCHANGED <<page, server, list, form, detail, typed, forms, lost, unsure>>
    BY <1>3 DEF WriteFails
  <2>2. ScreenOK'
    BY <2>1, ScreenKept DEF TypeOK, ScreenOK, DetailIsOneDocument, Error
  <2> QED
    BY <2>1, <2>2, FinishKeeps
<1>4. CASE ShowList(h)
  <2>1. /\ Finish(h) /\ list' = c.list /\ Closes(c) /\ c.at = "got"
        /\ UNCHANGED <<page, server, form, typed, error, forms, lost, unsure>>
    BY <1>4 DEF ShowList
  <2>2. detail' \in {detail, NoDetail}
    BY <2>1 DEF Closes
  <2>3. ScreenOK'
    BY <1>1, <2>1, <2>2, DetailKept, ScreenKept DEF TypeOK
  <2> QED
    BY <2>1, <2>3, FinishKeeps
<1>5. CASE ShowDetail(h) \/ refreshDetail(h) \/ ShowCompany(h)
  <2>1. /\ Finish(h) /\ list' \in {list, c.list} /\ typed' \subseteq typed /\ c.at = "got"
        /\ UNCHANGED <<page, server, form, error, forms, lost, unsure>>
    BY <1>5 DEF ShowDetail, refreshDetail, ShowCompany
  <2>2. ShowBoth(c) \/ (page # "purchases" /\ ShowPart(c))
    BY <1>5 DEF ShowDetail, refreshDetail, ShowCompany, Refreshes
  <2>3. ScreenOK'
    BY <1>1, <2>1, <2>2, DetailKept, ScreenKept DEF TypeOK
  <2> QED
    BY <2>1, <2>3, FinishKeeps
<1>6. CASE ReadFails(h)
  <2>1. /\ Finish(h) /\ Closes(c) /\ typed' \subseteq typed /\ c.at = "unread"
        /\ UNCHANGED <<page, server, list, form, forms, lost, unsure>>
        /\ error' = IF Rethrows(c) THEN [error EXCEPT ![PlaceOf(c.kind)] = "recorded"] ELSE error
    BY <1>6 DEF ReadFails
  <2>2. detail' \in {detail, NoDetail}
    BY <2>1 DEF Closes
  <2>3. Rethrows(c) => <<page, PlaceOf(c.kind)>> \in {<<"invoices", "detail">>, <<"merchants", "overrides">>}
    BY <1>1 DEF Rethrows, Refreshes, PlaceOf, RequestOK, Field, Change
  <2>4. /\ error' \in [Place -> Error]
        /\ \A w \in Place : error'[w] = "recorded" =>
              error[w] = "recorded" \/ (Rethrows(c) /\ w = PlaceOf(c.kind))
    BY <2>1 DEF TypeOK, Error
  <2>5. ScreenOK'
    BY <2>1, <2>2, <2>3, <2>4, DetailKept, ScreenKept DEF TypeOK
  <2> QED
    BY <2>1, <2>5, FinishKeeps
<1> QED
  BY <1>2, <1>3, <1>4, <1>5, <1>6 DEF Continue

\* What the user does without a request.
LEMMA ScreenKeeps ==
  ASSUME PagesInv,
         \/ OpenForm \/ openObModal \/ OpenEdit \/ openEdit \/ openAddRoleModal
         \/ Dismiss \/ Type \/ UNCHANGED vars
  PROVE  PagesInv'
<1> USE DEF PagesInv
<1>1. /\ UNCHANGED <<page, server, list, busy, busyRow, calls, lost, unsure>>
      /\ forms' \in 0..MaxForms[page]
  <2>1. forms' = forms \/ (forms < MaxForms[page] /\ forms' = forms + 1)
    BY DEF OpenForm, openObModal, OpenEdit, openEdit, openAddRoleModal, Fill, Dismiss, Type, vars
  <2>2. MaxForms[page] \in Nat /\ forms \in 0..MaxForms[page]
    BY PagesAssumption DEF TypeOK
  <2> QED
    BY <2>1, <2>2
       DEF OpenForm, openObModal, OpenEdit, openEdit, openAddRoleModal, Fill, Dismiss, Type, vars, screen
<1>2. form' \in [open : BOOLEAN, of : Row \cup {NoRow}, no : Nat]
  <2>1. CASE \E of \in Row \cup {NoRow} : Fill(of)
    <3>1. forms + 1 \in Nat
      BY PagesAssumption DEF TypeOK
    <3> QED
      BY <2>1, <3>1 DEF Fill
  <2>2. CASE Dismiss \/ Type \/ UNCHANGED vars
    <3>1. form' = form \/ form' = NoForm
      BY <2>2 DEF Dismiss, Type, vars, screen
    <3>2. NoForm \in [open : BOOLEAN, of : Row \cup {NoRow}, no : Nat]
      BY DEF NoForm
    <3> QED
      BY <3>1, <3>2 DEF TypeOK
  <2> QED
    BY <2>1, <2>2 DEF OpenForm, openObModal, OpenEdit, openEdit, openAddRoleModal
<1>3. detail' \in {detail, NoDetail} /\ typed' \subseteq Field
  BY DEF OpenForm, openObModal, OpenEdit, openEdit, openAddRoleModal, Fill, Dismiss, Type,
         vars, screen, TypeOK
<1>4. error' \in [Place -> Error] /\ \A w \in Place : error'[w] \in {error[w], "no"}
  BY DEF OpenForm, openObModal, OpenEdit, openEdit, openAddRoleModal, Fill, Dismiss, Type,
         vars, screen, TypeOK, Error
<1>5. ScreenOK'
  <2>1. NoDetail.doc = NoRow
        /\ NoDetail \in [doc : Row \cup {NoRow}, paid : 0..Total, partOf : Row \cup {NoRow}]
    BY PagesAssumption DEF NoDetail
  <2>2. /\ detail' \in [doc : Row \cup {NoRow}, paid : 0..Total, partOf : Row \cup {NoRow}]
        /\ page = "purchases" /\ detail'.doc # NoRow => detail'.partOf = detail'.doc
    BY <1>3, <2>1 DEF ScreenOK, DetailIsOneDocument
  <2> QED
    BY <1>1, <1>2, <1>3, <1>4, <2>2, ScreenKept DEF TypeOK
<1>6. ServerOK' /\ CallsOK' /\ MarksOK'
  BY <1>1, ServerKept DEF CallsOK, RequestOK, MarksOK
<1>7. FormsOK'
  <2>1. \/ form' = form /\ forms' = forms
        \/ form' = NoForm /\ forms' = forms
        \/ form'.no = forms + 1 /\ forms' = forms + 1
    BY DEF OpenForm, openObModal, OpenEdit, openEdit, openAddRoleModal, Fill, Dismiss, Type,
           vars, screen
  <2>2. forms \in Nat /\ UNCHANGED <<page, origin, calls, unsure>>
    BY <1>1, PagesAssumption DEF TypeOK, server
  <2>3. ASSUME NEW n \in 0..forms, form'.open, form'.no = n
        PROVE  form' = form /\ forms' = forms
    BY <2>1, <2>2, <2>3 DEF NoForm
  <2>4. NumbersOK /\ SentOnceOK
    BY DEF FormsOK
  <2>5. NumbersOK'
    <3>1. \A r \in Row : origin'[r].form \in 0..forms'
      BY <2>1, <2>2, <2>4 DEF NumbersOK
    <3>2. form'.open => form'.no \in 1..forms'
      BY <2>1, <2>2, <2>4 DEF NumbersOK, NoForm
    <3>3. ASSUME NEW q \in Caller, Sends(calls[q])
          PROVE  /\ calls[q].form \in 1..forms'
                 /\ form'.open /\ form'.no = calls[q].form => calls[q].kind = FormKind(form'.of)
      <4>1. calls[q].form \in 1..forms
        BY <2>4, <3>3 DEF NumbersOK
      <4>2. calls[q].form \in 1..forms'
        BY <2>1, <2>2, <4>1
      <4>3. form'.open /\ form'.no = calls[q].form => form' = form
        BY <2>2, <2>3, <4>1
      <4> QED
        BY <2>4, <3>3, <4>2, <4>3 DEF NumbersOK
    <3> QED
      BY <2>2, <2>4, <3>1, <3>2, <3>3 DEF NumbersOK, FormKind
  <2>6. SentOnceOK'
    <3>1. ASSUME NEW r \in Row, form'.open, form'.no = origin[r].form
          PROVE  form' = form
      BY <2>3, <2>4, <3>1 DEF NumbersOK
    <3> QED
      BY <2>2, <2>4, <3>1 DEF SentOnceOK
  <2> QED
    BY <2>5, <2>6 DEF FormsOK
<1> QED
  BY <1>1, <1>5, <1>6, <1>7 DEF TypeOK, ServerOK, ScreenOK

-----------------------------------------------------------------------------
\* The page is mounted, and one handler reads the list.
LEMMA InitPagesInv == Init => PagesInv
<1> SUFFICES ASSUME Init PROVE PagesInv
  OBVIOUS
<1>1. PICK m \in Handler : calls = [h \in Caller |-> IF h = m THEN LoadCall ELSE NoCall]
  BY DEF Init
<1>2. /\ NoCall.kind = "none" /\ LoadCall.kind = "load" /\ LoadCall.at = "get"
      /\ calls \in [Caller -> Call] /\ NoCall.at # "checked"
  BY <1>1, NoCallType DEF NoCall, LoadCall
<1>3. TypeOK
  <2>1. 0 \in 0..Total /\ 0 \in 0..MaxLost /\ 0 \in 0..MaxForms[page]
    BY PagesAssumption DEF Init
  <2>2. /\ rows \in [Row -> Status] /\ list \in [Row -> Status]
        /\ origin \in [Row -> [form : Nat, kind : {"none", "submit", "assign"}]]
    BY DEF Init, Status, NoOrigin
  <2>3. settled \in [Field -> [Row -> 0..Total]]
    BY <2>1 DEF Init
  <2>4. /\ form \in [open : BOOLEAN, of : Row \cup {NoRow}, no : Nat]
        /\ detail \in [doc : Row \cup {NoRow}, paid : 0..Total, partOf : Row \cup {NoRow}]
    BY <2>1 DEF Init, NoForm, NoDetail
  <2> QED
    BY <1>2, <2>1, <2>2, <2>3, <2>4 DEF Init, TypeOK, Error
<1>4. CallsOK
  BY <1>1, <1>2 DEF CallsOK, RequestOK, Field, Change
<1>5. MarksOK
  <2>1. \A kind \in Marked : kind \notin {"none", "load"} /\ Mark(kind) # "list"
    BY DEF Marked, Mark, Field, Change
  <2>2. busy = {"list"} /\ busyRow = NoRow
    BY DEF Init
  <2> QED
    BY <1>1, <1>2, <2>1, <2>2 DEF MarksOK, ReadsList, Caller
<1>6. ServerOK
  BY <1>3 DEF ServerOK, TypeOK, Init, RowsOK, RecordedOnce
<1>7. ScreenOK
  BY <1>3 DEF ScreenOK, TypeOK, Init, ErrorMeansRefused, DetailIsOneDocument, NoDetail
<1>8. FormsOK
  <2>1. \A q \in Caller : ~Sends(calls[q])
    BY <1>1, <1>2 DEF Sends
  <2>2. \A r \in Row : origin[r].form = 0
    <3>1. NoOrigin.form = 0
      BY DEF NoOrigin
    <3>2. origin = [r \in Row |-> NoOrigin]
      BY DEF Init
    <3>3. \A r \in Row : origin[r] = NoOrigin
      BY <3>2
    <3> QED
      BY <3>1, <3>3
  <2>3. ~form.open /\ forms = 0
    BY DEF Init, NoForm
  <2>4. NumbersOK
    BY <2>1, <2>2, <2>3 DEF NumbersOK, Caller
  <2>5. SentOnceOK
    BY <2>1, <2>2 DEF SentOnceOK, Caller
  <2> QED
    BY <2>4, <2>5 DEF FormsOK
<1> QED
  BY <1>3, <1>4, <1>5, <1>6, <1>7, <1>8 DEF PagesInv

\* Every step keeps the invariant.
LEMMA StepPagesInv == PagesInv /\ [Next]_vars => PagesInv'
  BY StartKeeps, NetworkKeeps, ReadKeeps, ContinueKeeps, ScreenKeeps DEF Next

\* The invariant holds in every state.
LEMMA PagesInvariance == Spec => []PagesInv
  BY InitPagesInv, StepPagesInv, PTL DEF Spec

\* Whatever answers cross, are lost or come late, what a page shows is so: an error
\* is never left by a write that was recorded (but for the two places named in
\* ErrorMeansRefused), and a purchase is shown with its own returns.
THEOREM PagesTellTheTruth == Spec => []PageTellsTheTruth
<1>1. PagesInv => PageTellsTheTruth
  BY DEF PagesInv, ScreenOK, PageTellsTheTruth
<1> QED
  BY <1>1, PagesInvariance, PTL

\* A form makes a second document only after one of its sendings was lost, and even
\* then no two stand where an index refuses the second: for any number of requests
\* that come late, between the search and the insert of the others.
THEOREM FormsRecordedOnce == Spec => []RecordedOnce
<1>1. PagesInv => RecordedOnce
  BY DEF PagesInv, ServerOK
<1> QED
  BY <1>1, PagesInvariance, PTL

\* A button is disabled exactly while a handler of its own is at work, for any
\* number of handlers at the same time.
THEOREM ButtonsFollowHandlers == Spec => []BusyIsUnderWay
<1>1. PagesInv => BusyIsUnderWay
  <2> SUFFICES ASSUME MarksOK PROVE BusyIsUnderWay
    BY DEF PagesInv
  <2>1. /\ {"submit", "assign"} \cup Field \cup Change = Marked
        /\ Mark("submit") = "form" /\ Mark("assign") = "role"
        /\ \A f \in Field \cup Change : Mark(f) = f
    BY DEF Marked, Mark, Field, Change
  <2> QED
    BY <2>1 DEF MarksOK, BusyIsUnderWay
<1> QED
  BY <1>1, PagesInvariance, PTL

-----------------------------------------------------------------------------
(***************************************************************************)
(* Sessions, for any tabs, companies and baskets, and any number of        *)
(* requests, tokens, keys and lost messages.                               *)
(***************************************************************************)

\* Tokens that were issued, and a reference to one.
Issued == {k \in Token : token[k].state # "none"}

Refers(k) == k = 0 \/ k \in Issued

\* Tokens are issued in order, to members, and nothing refers to another one.
TokensOK ==
    /\ \E n \in 0..MaxTokens : Issued = 1..n
    /\ \A k \in Issued : token[k].company \in Company
    /\ fresh \subseteq Issued
    /\ Refers(storage)
    /\ \A q \in Request : Refers(req[q].refresh) /\ Refers(req[q].issued)

\* A request renews its tokens, or was given tokens that nobody else has seen.
Renewing(q) == req[q].step \in {"refresh", "issue", "rotate", "renewed"}

Holds(q) ==
    \/ req[q].step \in {"rotate", "renewed"}
    \/ req[q].op = "login" /\ req[q].step = "answered"

HolderOK(q) ==
    /\ req[q].issued # 0 /\ req[q].issued # storage
    /\ token[req[q].issued].state # "replaced"
    /\ \A p \in Request : /\ req[p].refresh # req[q].issued
                          /\ p # q => req[p].issued # req[q].issued

RenewalsOK ==
    /\ \A q \in Request : Renewing(q) => req[q].refresh # 0 /\ (req[q].alive \/ cut)
    /\ \A q \in Request : Holds(q) => HolderOK(q)
    /\ StoredTokenIsCurrent

\* A request that is there is one of a tab; what it asks for is complete.
MessageOK(q) ==
    LET r == req[q] IN
    /\ r.step = "idle" => r.op = "none" /\ r.tab = Nobody
    /\ r.step # "idle" => r.op # "none" /\ r.tab \in Tab
    /\ r.op = "login" => r.at \in Company /\ r.step \in {"sent", "answered"}
    /\ r.op = "sale" => r.key \in 1..MaxKeys /\ r.basket \in Basket /\ r.at \in Company
    /\ r.op = "sale" /\ r.step = "answered" => \E s \in sales : s.key = r.key

\* What was ever asked for: a sale that is recorded, or is on its way.
Orders ==
    {o \in [key : 1..MaxKeys, at : Company, basket : Basket] :
        \/ \E s \in sales : s.key = o.key /\ s.at = o.at /\ s.basket = o.basket
        \/ \E q \in Request : /\ req[q].op = "sale" /\ req[q].key = o.key
                              /\ req[q].at = o.at /\ req[q].basket = o.basket}

\* A page has a key when it has a basket, and shares neither with another page.  Under
\* its key its basket was asked for, or it was exchanged; its basket was asked for
\* under its key, or an earlier page gave it up.
PageOK(t) ==
    LET v == tab[t] IN
    /\ v.key <= keys /\ (v.key = 0 <=> v.basket = Nobody)
    /\ v.key # 0 =>
          /\ \A u \in Tab \ {t} : tab[u].key # v.key /\ tab[u].basket # v.basket
          /\ \A o \in Orders : o.key = v.key => o.basket = v.basket \/ v.swapped
          /\ \A o \in Orders : o.basket = v.basket =>
                (o.key = v.key /\ o.at = v.at) \/ v.basket \in given
    /\ v.done => v.basket \in served

\* A basket that no page gave up was asked for under one key, if it was.
OrdersOK ==
    /\ \A o \in Orders : o.key <= keys
    /\ \A t \in Tab : PageOK(t)
    /\ \A b \in Basket \ given :
          /\ \A o, p \in Orders : o.basket = b /\ p.basket = b => o = p
          /\ b \in Unserved => \A o \in Orders : o.basket # b
    /\ SoldWhereShown

\* The page of tab t waits for the answer of request q.
OnPage(q, op, t) == req[q].op = op /\ req[q].alive /\ req[q].page /\ req[q].tab = t

\* A page is busy while its sale is on the way, and has no company before it was told.
FormOK(t) ==
    LET v == tab[t] IN
    /\ v.submitting <=> \E q \in Request : OnPage(q, "sale", t)
    /\ v.submitting => ~v.done /\ v.key # 0
    /\ \A q \in Request : OnPage(q, "sale", t) => req[q].key = v.key
    /\ \A q \in Request : OnPage(q, "warehouses", t) => v.at = Nobody /\ v.key = 0
    /\ \A q, p \in Request : \A op \in {"sale", "warehouses"} :
          OnPage(q, op, t) /\ OnPage(p, op, t) => p = q
    /\ v.done => /\ v.key # 0
                 /\ \E s \in sales : s.key = v.key /\ (s.basket = v.basket \/ v.swapped)

\* The inductive invariant.
SessionInv ==
    /\ SessionTypeOK /\ TokensOK /\ RenewalsOK /\ OrdersOK
    /\ \A q \in Request : MessageOK(q)
    /\ \A t \in Tab : FormOK(t)

-----------------------------------------------------------------------------
\* What a tab and a request are made of.
LEMMA Elements == Idle \in Message /\ Closed \in View
  BY SessionAssumption DEF Idle, Message, Closed, View, Op, Step

\* Leaving a page changes no request but for the page.
LEMMA OrphanedFields ==
  ASSUME NEW r \in [Request -> Message], NEW t
  PROVE  /\ Orphaned(r, t) \in [Request -> Message]
         /\ \A p \in Request :
               Orphaned(r, t)[p] = IF r[p].tab = t THEN [r[p] EXCEPT !.page = FALSE] ELSE r[p]
<1>1. \A p \in Request : Orphaned(r, t)[p] = IF r[p].tab = t THEN [r[p] EXCEPT !.page = FALSE]
                                              ELSE r[p]
  BY DEF Orphaned
<1>2. \A p \in Request : [r[p] EXCEPT !.page = FALSE] \in Message
  BY DEF Message
<1>3. \A p \in Request : Orphaned(r, t)[p] \in Message
  BY <1>1, <1>2
<1> QED
  BY <1>1, <1>3 DEF Orphaned

\* The fields of a request that say who asked for what.
Asks(p) ==
    /\ req'[p].op = req[p].op /\ req'[p].tab = req[p].tab
    /\ req'[p].alive = req[p].alive /\ req'[p].page = req[p].page
    /\ req'[p].at = req[p].at /\ req'[p].basket = req[p].basket /\ req'[p].key = req[p].key

\* Request q goes on: to step s, with the tokens k and i.
GoesOn(q, s, k, i) ==
    /\ req' \in [Request -> Message]
    /\ \A p \in Request \ {q} : req'[p] = req[p]
    /\ Asks(q)
    /\ req'[q].step = s /\ req'[q].refresh = k /\ req'[q].issued = i

LEMMA StepsOn ==
  ASSUME SessionTypeOK, NEW q \in Request, NEW s \in Step,
         NEW k \in 0..MaxTokens, NEW i \in 0..MaxTokens
  PROVE  /\ Goto(q, s) => GoesOn(q, s, req[q].refresh, req[q].issued)
         /\ req' = [req EXCEPT ![q] = [@ EXCEPT !.step = s, !.issued = i]]
                => GoesOn(q, s, req[q].refresh, i)
         /\ req' = [req EXCEPT ![q] = [@ EXCEPT !.step = s, !.refresh = k]]
                => GoesOn(q, s, k, req[q].issued)
         /\ req' = [req EXCEPT ![q] = [@ EXCEPT !.step = s, !.access = i, !.retry = TRUE]]
                => GoesOn(q, s, req[q].refresh, req[q].issued)
<1>1. req \in [Request -> Message] /\ req[q] \in Message
  BY DEF SessionTypeOK
<1>2. /\ [req[q] EXCEPT !.step = s] \in Message
      /\ [req[q] EXCEPT !.step = s, !.issued = i] \in Message
      /\ [req[q] EXCEPT !.step = s, !.refresh = k] \in Message
      /\ [req[q] EXCEPT !.step = s, !.access = i, !.retry = TRUE] \in Message
  BY <1>1 DEF Message
<1>3. ASSUME NEW m \in Message, req' = [req EXCEPT ![q] = m]
      PROVE  req' \in [Request -> Message] /\ req'[q] = m
             /\ \A p \in Request \ {q} : req'[p] = req[p]
  BY <1>1, <1>3
<1>4. ASSUME NEW m \in Message, req' = [req EXCEPT ![q] = m],
             m.op = req[q].op, m.tab = req[q].tab, m.alive = req[q].alive,
             m.page = req[q].page, m.at = req[q].at, m.basket = req[q].basket,
             m.key = req[q].key
      PROVE  GoesOn(q, m.step, m.refresh, m.issued)
  BY <1>3, <1>4 DEF GoesOn, Asks
<1>5. ASSUME Goto(q, s)
      PROVE  GoesOn(q, s, req[q].refresh, req[q].issued)
  <2>1. PICK m : m = [req[q] EXCEPT !.step = s]
    OBVIOUS
  <2>2. m \in Message /\ req' = [req EXCEPT ![q] = m]
    BY <1>2, <1>5, <2>1 DEF Goto
  <2> QED
    BY <1>1, <1>4, <2>1, <2>2 DEF Message
<1>6. ASSUME req' = [req EXCEPT ![q] = [@ EXCEPT !.step = s, !.issued = i]]
      PROVE  GoesOn(q, s, req[q].refresh, i)
  <2>1. PICK m : m = [req[q] EXCEPT !.step = s, !.issued = i]
    OBVIOUS
  <2>2. m \in Message /\ req' = [req EXCEPT ![q] = m]
    BY <1>2, <1>6, <2>1
  <2> QED
    BY <1>1, <1>4, <2>1, <2>2 DEF Message
<1>7. ASSUME req' = [req EXCEPT ![q] = [@ EXCEPT !.step = s, !.refresh = k]]
      PROVE  GoesOn(q, s, k, req[q].issued)
  <2>1. PICK m : m = [req[q] EXCEPT !.step = s, !.refresh = k]
    OBVIOUS
  <2>2. m \in Message /\ req' = [req EXCEPT ![q] = m]
    BY <1>2, <1>7, <2>1
  <2> QED
    BY <1>1, <1>4, <2>1, <2>2 DEF Message
<1>8. ASSUME req' = [req EXCEPT ![q] = [@ EXCEPT !.step = s, !.access = i, !.retry = TRUE]]
      PROVE  GoesOn(q, s, req[q].refresh, req[q].issued)
  <2>1. PICK m : m = [req[q] EXCEPT !.step = s, !.access = i, !.retry = TRUE]
    OBVIOUS
  <2>2. m \in Message /\ req' = [req EXCEPT ![q] = m]
    BY <1>2, <1>8, <2>1
  <2> QED
    BY <1>1, <1>4, <2>1, <2>2 DEF Message
<1> QED
  BY <1>5, <1>6, <1>7, <1>8

\* Request q is over.
Gone(q) ==
    /\ req' \in [Request -> Message]
    /\ req'[q] = Idle
    /\ \A p \in Request \ {q} : req'[p] = req[p]

\* Another request stays; its page may have been left.
Stays(p) ==
    /\ req'[p].op = req[p].op /\ req'[p].step = req[p].step /\ req'[p].tab = req[p].tab
    /\ req'[p].access = req[p].access /\ req'[p].refresh = req[p].refresh
    /\ req'[p].issued = req[p].issued /\ req'[p].retry = req[p].retry
    /\ req'[p].at = req[p].at /\ req'[p].basket = req[p].basket /\ req'[p].key = req[p].key

\* The page of tab t is left while q becomes m.
Leaves(q, t, m) ==
    /\ req' \in [Request -> Message]
    /\ req'[q] = m
    /\ \A p \in Request \ {q} :
          /\ Stays(p)
          /\ req'[p].alive = req[p].alive
          /\ req'[p].page = (req[p].page /\ req[p].tab # t)

LEMMA RequestEnds ==
  ASSUME SessionTypeOK, NEW q \in Request
  PROVE  /\ req' = [req EXCEPT ![q] = Idle] => Gone(q)
         /\ \A t : req' = Orphaned([req EXCEPT ![q] = Idle], t) /\ t # Nobody
                      => Leaves(q, t, Idle)
<1>1. req \in [Request -> Message] /\ Idle \in Message
  BY Elements DEF SessionTypeOK
<1>2. req' = [req EXCEPT ![q] = Idle] => Gone(q)
  BY <1>1 DEF Gone
<1>3. ASSUME NEW t, req' = Orphaned([req EXCEPT ![q] = Idle], t), t # Nobody
      PROVE  Leaves(q, t, Idle)
  <2>1. PICK r : r = [req EXCEPT ![q] = Idle]
    OBVIOUS
  <2>2. r \in [Request -> Message] /\ r[q] = Idle /\ \A p \in Request \ {q} : r[p] = req[p]
    BY <1>1, <2>1
  <2>3. /\ req' \in [Request -> Message]
        /\ \A p \in Request : req'[p] = IF r[p].tab = t THEN [r[p] EXCEPT !.page = FALSE] ELSE r[p]
    <3>1. req' = Orphaned(r, t) /\ r \in [Request -> Message]
      BY <1>3, <2>1, <2>2
    <3> QED
      BY <3>1, OrphanedFields
  <2>4. req'[q] = Idle
    <3>1. Idle.tab # t
      BY <1>3 DEF Idle
    <3> QED
      BY <2>2, <2>3, <3>1
  <2>5. ASSUME NEW p \in Request \ {q}
        PROVE  /\ Stays(p) /\ req'[p].alive = req[p].alive
               /\ req'[p].page = (req[p].page /\ req[p].tab # t)
    <3>1. req[p] \in Message /\ req'[p] = IF req[p].tab = t THEN [req[p] EXCEPT !.page = FALSE]
                                         ELSE req[p]
      BY <1>1, <2>2, <2>3
    <3>2. CASE req[p].tab = t
      <4>1. Stays(p) /\ req'[p].alive = req[p].alive /\ req'[p].page = FALSE
        BY <3>1, <3>2 DEF Stays, Message
      <4> QED
        BY <3>2, <4>1
    <3>3. CASE req[p].tab # t
      <4>1. req'[p] = req[p] /\ req[p].page \in BOOLEAN
        BY <3>1, <3>3 DEF Message
      <4> QED
        BY <3>3, <4>1 DEF Stays
    <3> QED
      BY <3>2, <3>3
  <2> QED
    BY <2>3, <2>4, <2>5 DEF Leaves
<1> QED
  BY <1>2, <1>3

\* A request that comes to an end, and what its tab makes of it.
Over(q) ==
    /\ req[q].step # "idle"
    /\ \/ EndSession(q)
       \/ ShowError(q) /\ req[q].alive /\ req[q].step \in {"sent", "answered"}
       \/ Ignore(q) /\ ~req[q].alive
    /\ token' = token /\ sales' = sales /\ fresh' \subseteq fresh
    /\ losses' \in 0..MaxLosses
    /\ UNCHANGED <<events, keys, cut, served>>

LEMMA StepsOver ==
  ASSUME SessionTypeOK, NEW q \in Request
  PROVE  /\ TurnAway(q) => \/ Over(q)
                           \/ /\ At(q, "sent") /\ req[q].alive /\ storage # 0
                              /\ req[q].op # "login"
                              /\ req' = [req EXCEPT ![q] = [@ EXCEPT !.step = "refresh",
                                                                     !.refresh = storage]]
                              /\ token' = token /\ fresh' \subseteq fresh
                              /\ UNCHANGED <<sales, storage, tab, losses, till>>
         /\ RefuseRequest(q) \/ LoseMessage(q) \/ TakeLogout(q) \/ TakeFailure(q) \/ Drop(q)
               => Over(q)
<1>1. losses \in Nat /\ losses \in 0..MaxLosses /\ MaxLosses \in Nat
  BY SessionAssumption DEF SessionTypeOK
<1>2. TurnAway(q) => \/ Over(q)
                     \/ /\ At(q, "sent") /\ req[q].alive /\ storage # 0
                        /\ req[q].op # "login"
                        /\ req' = [req EXCEPT ![q] = [@ EXCEPT !.step = "refresh",
                                                               !.refresh = storage]]
                        /\ token' = token /\ fresh' \subseteq fresh
                        /\ UNCHANGED <<sales, storage, tab, losses, till>>
  BY <1>1 DEF TurnAway, Over, At, till
<1>3. req[q].step \in {"sent", "answered"} /\ Throw(q)
         => \/ EndSession(q)
            \/ ShowError(q) /\ req[q].alive
            \/ Ignore(q) /\ ~req[q].alive
  BY DEF Throw
<1>4. RefuseRequest(q) => Over(q)
  BY <1>1, <1>3 DEF RefuseRequest, Over, At, Allowed, serverRows
<1>5. LoseMessage(q) => Over(q)
  <2> SUFFICES ASSUME LoseMessage(q) PROVE Over(q)
    OBVIOUS
  <2>1. losses' \in 0..MaxLosses
    BY <1>1 DEF LoseMessage
  <2> QED
    BY <1>3, <2>1 DEF LoseMessage, Over, serverRows
<1>6. TakeLogout(q) \/ TakeFailure(q) \/ Drop(q) => Over(q)
  BY <1>1 DEF TakeLogout, TakeFailure, Drop, Answered, Over, At, serverRows
<1> QED
  BY <1>2, <1>4, <1>5, <1>6

-----------------------------------------------------------------------------
\* A new pair of tokens has a number nobody knows yet.
LEMMA IssueNew ==
  ASSUME SessionTypeOK, TokensOK, NEW c \in Company, Issue(c)
  PROVE  /\ NewToken \in Token \ Issued
         /\ Issued' = Issued \cup {NewToken}
         /\ \E n \in 0..MaxTokens : Issued' = 1..n
         /\ token' \in [Token -> [state : State, company : Company \cup {Nobody}]]
         /\ token'[NewToken].state = "live" /\ token'[NewToken].company = c
         /\ \A k \in Token \ {NewToken} : token'[k] = token[k]
         /\ fresh' = fresh \cup {NewToken}
<1>1. PICK n \in 0..MaxTokens : Issued = 1..n
  BY DEF TokensOK
<1>2. MaxTokens \in Nat /\ n \in Nat /\ n <= MaxTokens
  BY <1>1, SessionAssumption
<1>3. NewToken = n + 1
  <2>1. Cardinality(1..n) = n
    BY <1>2, FS_Interval
  <2> QED
    BY <1>1, <1>2, <2>1 DEF NewToken, Issued
<1>4. n + 1 \in Token /\ n + 1 \notin Issued
  BY <1>1, <1>2, <1>3 DEF Issue
<1>5. [state |-> "live", company |-> c] \in [state : State, company : Company \cup {Nobody}]
  BY DEF State
<1>6. /\ token' \in [Token -> [state : State, company : Company \cup {Nobody}]]
      /\ token'[n + 1] = [state |-> "live", company |-> c]
      /\ \A k \in Token \ {n + 1} : token'[k] = token[k]
  BY <1>3, <1>4, <1>5 DEF Issue, SessionTypeOK
<1>7. Issued' = Issued \cup {n + 1}
  BY <1>4, <1>6 DEF Issued
<1>8. n + 1 \in 0..MaxTokens /\ Issued' = 1..(n + 1)
  BY <1>1, <1>2, <1>4, <1>7 DEF Token
<1> QED
  BY <1>3, <1>4, <1>6, <1>7, <1>8 DEF Issue

\* A statement that changes the state of tokens: none is issued, none is forgotten.
LEMMA TokensRowsKept ==
  ASSUME SessionTypeOK, NEW s \in {"replaced", "revoked"}, NEW K \in SUBSET Issued,
         token' = [k \in Token |-> IF k \in K THEN [token[k] EXCEPT !.state = s] ELSE token[k]]
  PROVE  /\ token' \in [Token -> [state : State, company : Company \cup {Nobody}]]
         /\ Issued' = Issued
         /\ \A k \in Token : token'[k].company = token[k].company
         /\ \A k \in Token : token'[k].state = IF k \in K THEN s ELSE token[k].state
<1>1. ASSUME NEW k \in Token
      PROVE  /\ token'[k] \in [state : State, company : Company \cup {Nobody}]
             /\ token'[k].company = token[k].company
             /\ token'[k].state = IF k \in K THEN s ELSE token[k].state
  <2>1. token[k] \in [state : State, company : Company \cup {Nobody}]
    BY DEF SessionTypeOK
  <2>2. [token[k] EXCEPT !.state = s] \in [state : State, company : Company \cup {Nobody}]
    BY <2>1 DEF State
  <2> QED
    BY <2>1, <2>2
<1>2. Issued' = Issued
  BY <1>1 DEF Issued
<1> QED
  BY <1>1, <1>2

\* What is left of the tokens, as long as nothing refers to one that was not issued.
LEMMA TokensKept ==
  ASSUME SessionTypeOK, TokensOK, Issued' = Issued,
         \A k \in Token : token'[k].company = token[k].company,
         fresh' \subseteq fresh,
         storage' \in {0, storage} \/ storage' \in Issued,
         \A p \in Request : req'[p].refresh \in {0, req[p].refresh, storage},
         \A p \in Request : req'[p].issued \in {0, req[p].issued}
  PROVE  TokensOK'
<1>1. \E n \in 0..MaxTokens : Issued' = 1..n
  BY DEF TokensOK
<1>2. \A k \in Issued' : token'[k].company \in Company
  BY DEF TokensOK, Issued
<1>3. fresh' \subseteq Issued'
  BY DEF TokensOK
<1>4. storage' = 0 \/ storage' \in Issued'
  BY DEF TokensOK, Refers
<1>5. \A p \in Request : /\ req'[p].refresh = 0 \/ req'[p].refresh \in Issued'
                         /\ req'[p].issued = 0 \/ req'[p].issued \in Issued'
  BY DEF TokensOK, Refers
<1> QED
  BY <1>1, <1>2, <1>3, <1>4, <1>5 DEF TokensOK, Refers

\* A request keeps what it knows of a renewal, or is none.
RenewsAsBefore(p) ==
    /\ Renewing(p)' => Renewing(p)
    /\ Holds(p)' => Holds(p)
    /\ req[p].step = "renewed" => req'[p].step = "renewed"
    /\ req'[p].refresh = req[p].refresh /\ req'[p].issued = req[p].issued
    /\ req'[p].alive = req[p].alive \/ cut' \/ ~Renewing(p)

Renewed(p) == req[p].step = "renewed" /\ req[p].alive

LEMMA RenewalsKept ==
  ASSUME RenewalsOK, cut => cut', storage' \in {0, storage},
         storage' # 0 /\ token'[storage'].state = "replaced" => token[storage].state = "replaced",
         \A p \in Request : Holds(p) /\ token'[req[p].issued].state = "replaced"
                               => token[req[p].issued].state = "replaced",
         \A p \in Request : \/ RenewsAsBefore(p)
                            \/ /\ ~Renewing(p)' /\ ~Holds(p)'
                               /\ req'[p].refresh \in {0, req[p].refresh}
                               /\ req'[p].issued \in {0, req[p].issued}
                               /\ Renewed(p) => storage' = 0 \/ cut'
  PROVE  RenewalsOK'
<1>1. ASSUME NEW p \in Request, Renewing(p)'
      PROVE  req'[p].refresh # 0 /\ (req'[p].alive \/ cut')
  BY <1>1 DEF RenewalsOK, RenewsAsBefore, Renewing
<1>2. ASSUME NEW p \in Request, Holds(p)'
      PROVE  HolderOK(p)'
  <2>1. RenewsAsBefore(p) /\ Holds(p)
    BY <1>2 DEF RenewsAsBefore, Holds
  <2>2. HolderOK(p) /\ req'[p].issued = req[p].issued /\ req[p].issued # 0
    BY <2>1 DEF RenewalsOK, HolderOK, RenewsAsBefore
  <2>3. \A r \in Request : /\ req'[r].refresh \in {0, req[r].refresh}
                           /\ req'[r].issued \in {0, req[r].issued}
    BY DEF RenewsAsBefore
  <2> QED
    BY <2>1, <2>2, <2>3 DEF HolderOK
<1>3. StoredTokenIsCurrent'
  <2> SUFFICES ASSUME storage' # 0, token'[storage'].state = "replaced", ~cut'
               PROVE  \E p \in Request : At(p, "renewed")' /\ req'[p].alive
                                        /\ req'[p].refresh = storage'
    BY DEF StoredTokenIsCurrent
  <2>1. PICK p \in Request : At(p, "renewed") /\ req[p].alive /\ req[p].refresh = storage
    BY DEF RenewalsOK, StoredTokenIsCurrent
  <2>2. RenewsAsBefore(p)
    BY <2>1 DEF Renewed, At
  <2> QED
    BY <2>1, <2>2 DEF RenewsAsBefore, At, Renewing
<1> QED
  BY <1>1, <1>2, <1>3 DEF RenewalsOK

\* A request that stays as it is, and one that is over, are complete.
LEMMA MessageKept ==
  ASSUME NEW p \in Request, MessageOK(p), sales \subseteq sales', Stays(p)
  PROVE  MessageOK(p)'
  BY DEF MessageOK, Stays

LEMMA SameMessage ==
  ASSUME NEW p \in Request, MessageOK(p), sales \subseteq sales', req'[p] = req[p]
  PROVE  MessageOK(p)'
  BY DEF MessageOK

LEMMA IdleMessage ==
  ASSUME NEW p \in Request, req'[p] = Idle
  PROVE  MessageOK(p)' /\ ~Renewing(p)' /\ ~Holds(p)' /\ req'[p].refresh = 0 /\ req'[p].issued = 0
  BY DEF MessageOK, Idle, Renewing, Holds

\* A request that ends says nothing to the server.
LEMMA OverKeepsTokens ==
  ASSUME SessionInv, NEW q \in Request, Over(q)
  PROVE  SessionTypeOK' /\ TokensOK' /\ RenewalsOK' /\ \A p \in Request : MessageOK(p)'
<1>1. /\ SessionTypeOK /\ TokensOK /\ RenewalsOK
      /\ \A p \in Request : MessageOK(p)
  BY DEF SessionInv
<1>2. req[q].tab \in Tab /\ req[q].tab # Nobody
  BY <1>1, SessionAssumption DEF Over, MessageOK
<1>3. \/ Leaves(q, req[q].tab, Idle) /\ EndSession(q)
      \/ Gone(q) /\ ~EndSession(q)
  BY <1>1, <1>2, RequestEnds DEF Over, EndSession, ShowError, Ignore
<1>4. /\ req' \in [Request -> Message] /\ req'[q] = Idle
      /\ \A p \in Request \ {q} : Stays(p) /\ req'[p].alive = req[p].alive
  BY <1>3 DEF Leaves, Gone, Stays
<1>5. storage' \in {0, storage} /\ (~EndSession(q) => storage' = storage)
  BY DEF Over, EndSession, ShowError, Ignore
<1>6. \A p \in Request : MessageOK(p)'
  BY <1>1, <1>4, MessageKept, IdleMessage DEF Over
<1>7. TokensOK'
  <2>1. token' = token /\ fresh' \subseteq fresh
    BY DEF Over
  <2>2. Issued' = Issued
    BY <2>1 DEF Issued
  <2>3. \A p \in Request : /\ req'[p].refresh \in {0, req[p].refresh, storage}
                           /\ req'[p].issued \in {0, req[p].issued}
    BY <1>4, IdleMessage DEF Stays
  <2> QED
    BY <1>1, <1>5, <2>1, <2>2, <2>3, TokensKept
<1>8. RenewalsOK'
  <2>1. token' = token /\ cut' = cut
    BY DEF Over
  <2>2. ASSUME NEW p \in Request \ {q}
        PROVE  RenewsAsBefore(p)
    BY <1>4 DEF Stays, RenewsAsBefore, Renewing, Holds
  <2>3. /\ ~Renewing(q)' /\ ~Holds(q)'
        /\ req'[q].refresh = 0 /\ req'[q].issued = 0
    BY <1>4, IdleMessage
  <2>4. Renewed(q) => storage' = 0
    BY <1>5 DEF Over, Renewed, EndSession
  <2> QED
    BY <1>1, <1>5, <2>1, <2>2, <2>3, <2>4, RenewalsKept
<1>9. SessionTypeOK'
  <2>1. tab' \in [Tab -> View]
    <3>1. tab \in [Tab -> View] /\ tab[req[q].tab] \in View
      BY <1>1, <1>2 DEF SessionTypeOK
    <3>2. [tab[req[q].tab] EXCEPT !.submitting = FALSE] \in View
      BY <3>1 DEF View
    <3> QED
      BY <1>2, <3>1, <3>2, Elements DEF Over, EndSession, ShowError, Ignore
  <2>2. given' \subseteq Basket
    <3>1. tab[req[q].tab] \in View
      BY <1>1, <1>2 DEF SessionTypeOK
    <3>2. tab[req[q].tab].key # 0 => tab[req[q].tab].basket \in Basket
      BY <1>2, <3>1 DEF SessionInv, OrdersOK, PageOK, View
    <3> QED
      BY <1>1, <3>2 DEF Over, EndSession, ShowError, Ignore, GivenUp, SessionTypeOK
  <2>3. /\ token' = token /\ sales' = sales /\ fresh' \subseteq Token
        /\ losses' \in 0..MaxLosses /\ UNCHANGED <<events, keys, cut, served>>
    BY <1>1 DEF Over, SessionTypeOK
  <2>4. storage' \in 0..MaxTokens /\ (storage' # 0 => token'[storage'].state # "none")
    BY <1>1, <1>5, <2>3, SessionAssumption DEF SessionTypeOK
  <2> QED
    BY <1>1, <1>4, <2>1, <2>2, <2>3, <2>4 DEF SessionTypeOK
<1> QED
  BY <1>6, <1>7, <1>8, <1>9

-----------------------------------------------------------------------------
\* A request that goes on changes neither a page nor the till.
OnTheWay(q) ==
    /\ \E s \in Step, k, i \in 0..MaxTokens : GoesOn(q, s, k, i)
    /\ sales \subseteq sales'
    /\ UNCHANGED <<tab, losses, till>>

LEMMA GoesOnTypes ==
  ASSUME SessionTypeOK, req' \in [Request -> Message],
         token' \in [Token -> [state : State, company : Company \cup {Nobody}]],
         fresh' \subseteq Token, sales' \subseteq Sale,
         storage' \in 0..MaxTokens, storage' # 0 => token'[storage'].state # "none",
         UNCHANGED <<tab, losses, till>>
  PROVE  SessionTypeOK'
  BY DEF SessionTypeOK, till

LEMMA GoesOnMessages ==
  ASSUME NEW q \in Request, NEW s \in Step, NEW k, NEW i, GoesOn(q, s, k, i),
         \A p \in Request : MessageOK(p), sales \subseteq sales',
         s # "idle", req[q].step # "idle",
         req[q].op = "login" => s \in {"sent", "answered"},
         req[q].op = "sale" /\ s = "answered" => \E o \in sales' : o.key = req[q].key
  PROVE  \A p \in Request : MessageOK(p)'
<1>1. \A p \in Request \ {q} : MessageOK(p)'
  BY SameMessage DEF GoesOn
<1>2. MessageOK(q)'
  BY DEF GoesOn, Asks, MessageOK
<1> QED
  BY <1>1, <1>2

\* The statements of the server that issue tokens, for a login or a renewal.
LEMMA IssueKeeps ==
  ASSUME SessionInv, NEW q \in Request, login(q) \/ issueTokens(q)
  PROVE  OnTheWay(q) /\ SessionTypeOK' /\ TokensOK' /\ RenewalsOK' /\ \A p \in Request : MessageOK(p)'
<1>1. /\ SessionTypeOK /\ TokensOK /\ RenewalsOK
      /\ \A p \in Request : MessageOK(p)
      /\ req \in [Request -> Message]
  BY DEF SessionInv, SessionTypeOK
<1>2. PICK c \in Company : Issue(c)
  <2>1. CASE login(q)
    BY <1>1, <2>1 DEF login, MessageOK
  <2>2. CASE issueTokens(q)
    <3>1. req[q].refresh \in Issued
      BY <1>1, <2>2 DEF issueTokens, At, RenewalsOK, Renewing, TokensOK, Refers
    <3> QED
      BY <1>1, <2>2, <3>1 DEF issueTokens, TokensOK
  <2> QED
    BY <2>1, <2>2
<1>3. /\ NewToken \in Token \ Issued
      /\ Issued' = Issued \cup {NewToken}
      /\ \E n \in 0..MaxTokens : Issued' = 1..n
      /\ token' \in [Token -> [state : State, company : Company \cup {Nobody}]]
      /\ token'[NewToken].state = "live" /\ token'[NewToken].company = c
      /\ \A k \in Token \ {NewToken} : token'[k] = token[k]
      /\ fresh' = fresh \cup {NewToken}
  BY <1>1, <1>2, IssueNew
<1>4. PICK n : n = NewToken
  OBVIOUS
<1>5. n \in 0..MaxTokens /\ n # 0 /\ n \in Token
  BY <1>3, <1>4, SessionAssumption DEF Token
<1>6. PICK s \in {"answered", "rotate"} :
         /\ GoesOn(q, s, req[q].refresh, n)
         /\ \/ req[q].op = "login" /\ req[q].step = "sent" /\ s = "answered"
            \/ req[q].op # "login" /\ req[q].step = "issue" /\ s = "rotate"
  <2>1. CASE login(q)
    <3>1. "answered" \in Step
          /\ req' = [req EXCEPT ![q] = [@ EXCEPT !.step = "answered", !.issued = n]]
      BY <1>4, <2>1 DEF login, Step
    <3>2. GoesOn(q, "answered", req[q].refresh, n)
      BY <1>1, <1>5, <3>1, StepsOn DEF Message
    <3> QED
      BY <2>1, <3>2 DEF login, At
  <2>2. CASE issueTokens(q)
    <3>1. req[q].op # "login"
      BY <1>1, <2>2 DEF issueTokens, At, MessageOK
    <3> QED
      BY <1>1, <1>4, <1>5, <2>2, <3>1, StepsOn DEF issueTokens, At, Step
  <2> QED
    BY <2>1, <2>2
<1>7. UNCHANGED <<sales, storage, tab, losses, till>>
  BY DEF login, issueTokens
<1>8. req[q].refresh \in 0..MaxTokens /\ s \in Step
  BY <1>1 DEF Message, Step
<1>9. OnTheWay(q)
  BY <1>5, <1>6, <1>7, <1>8 DEF OnTheWay
<1>10. \A p \in Request : MessageOK(p)'
  <2>1. s # "idle" /\ req[q].step # "idle" /\ (req[q].op = "login" => s \in {"sent", "answered"})
        /\ ~(req[q].op = "sale" /\ s = "answered") /\ sales \subseteq sales'
    BY <1>6, <1>7
  <2> QED
    BY <1>1, <1>6, <1>8, <2>1, GoesOnMessages
<1>11. \A k \in Issued : k \in Token /\ k # n /\ token'[k] = token[k]
  BY <1>3, <1>4 DEF Issued
<1>12. \A p \in Request : /\ req'[p].refresh = req[p].refresh
                          /\ req'[p].issued = IF p = q THEN n ELSE req[p].issued
  BY <1>6 DEF GoesOn
<1>13. TokensOK'
  <2>1. \A k \in Issued' : token'[k].company \in Company
    BY <1>1, <1>3, <1>4, <1>11 DEF TokensOK
  <2>2. fresh' \subseteq Issued'
    BY <1>1, <1>3 DEF TokensOK
  <2>3. storage' = 0 \/ storage' \in Issued'
    BY <1>1, <1>3, <1>7 DEF TokensOK, Refers
  <2>4. \A p \in Request : /\ req'[p].refresh = 0 \/ req'[p].refresh \in Issued'
                           /\ req'[p].issued = 0 \/ req'[p].issued \in Issued'
    BY <1>1, <1>3, <1>4, <1>12 DEF TokensOK, Refers
  <2> QED
    BY <1>3, <2>1, <2>2, <2>3, <2>4 DEF TokensOK, Refers
<1>14. RenewalsOK'
  <2>1. ASSUME NEW p \in Request, Renewing(p)'
        PROVE  req'[p].refresh # 0 /\ (req'[p].alive \/ cut')
    <3>1. Renewing(p) /\ req'[p].alive = req[p].alive /\ cut' = cut
      BY <1>6, <1>7, <2>1 DEF GoesOn, Asks, Renewing, till
    <3> QED
      BY <1>1, <1>12, <3>1 DEF RenewalsOK
  <2>2. ASSUME NEW p \in Request, Holds(p)', p # q
        PROVE  HolderOK(p)'
    <3>1. Holds(p) /\ HolderOK(p) /\ req'[p] = req[p]
      BY <1>1, <1>6, <2>2 DEF GoesOn, Holds, RenewalsOK
    <3>2. req[p].issued \in Issued
      BY <1>1, <3>1 DEF HolderOK, TokensOK, Refers
    <3> QED
      BY <1>7, <1>11, <1>12, <3>1, <3>2 DEF HolderOK
  <2>3. HolderOK(q)'
    <3>1. storage # n /\ \A p \in Request : req[p].refresh # n /\ req[p].issued # n
      BY <1>1, <1>3, <1>4, <1>5 DEF TokensOK, Refers
    <3> QED
      BY <1>3, <1>4, <1>5, <1>7, <1>12, <3>1 DEF HolderOK
  <2>4. StoredTokenIsCurrent'
    <3> SUFFICES ASSUME storage' # 0, token'[storage'].state = "replaced", ~cut'
                 PROVE  \E p \in Request : At(p, "renewed")' /\ req'[p].alive
                                          /\ req'[p].refresh = storage'
      BY DEF StoredTokenIsCurrent
    <3>1. storage' = storage /\ cut' = cut /\ token'[storage] = token[storage]
      BY <1>1, <1>7, <1>11 DEF TokensOK, Refers, till
    <3>2. PICK p \in Request : At(p, "renewed") /\ req[p].alive /\ req[p].refresh = storage
      BY <1>1, <3>1 DEF RenewalsOK, StoredTokenIsCurrent
    <3>3. p # q
      BY <1>6, <3>2 DEF At
    <3> QED
      BY <1>6, <3>1, <3>2, <3>3 DEF GoesOn, At
  <2> QED
    BY <2>1, <2>2, <2>3, <2>4 DEF RenewalsOK
<1>15. SessionTypeOK'
  <2>1. req' \in [Request -> Message] /\ fresh' \subseteq Token /\ sales' \subseteq Sale
    BY <1>1, <1>3, <1>6, <1>7 DEF GoesOn, SessionTypeOK
  <2>2. storage' \in 0..MaxTokens /\ (storage' # 0 => token'[storage'].state # "none")
    BY <1>1, <1>7, <1>11 DEF TokensOK, Refers, SessionTypeOK
  <2> QED
    BY <1>1, <1>3, <1>7, <2>1, <2>2, GoesOnTypes
<1> QED
  BY <1>9, <1>10, <1>13, <1>14, <1>15

\* The statements of the server that change no row, or the state of tokens.
LEMMA RowsKeep ==
  ASSUME SessionInv, NEW q \in Request,
         createSale(q) \/ logout(q) \/ ReadToken(q) \/ Break(q)
  PROVE  OnTheWay(q) /\ SessionTypeOK' /\ TokensOK' /\ RenewalsOK' /\ \A p \in Request : MessageOK(p)'
<1>1. /\ SessionTypeOK /\ TokensOK /\ RenewalsOK
      /\ \A p \in Request : MessageOK(p)
      /\ req \in [Request -> Message]
  BY DEF SessionInv, SessionTypeOK
<1>2. /\ req[q].refresh \in 0..MaxTokens /\ req[q].issued \in 0..MaxTokens
      /\ {"answered", "issue", "failed"} \subseteq Step
  BY <1>1 DEF Message, Step
<1>3. PICK s \in {"answered", "issue", "failed"} :
         /\ Goto(q, s)
         /\ \/ s = "answered" /\ req[q].step = "sent" /\ req[q].op \in {"sale", "logout"}
            \/ s = "issue" /\ req[q].step = "refresh"
            \/ s = "failed" /\ req[q].step \in {"refresh", "rotate"}
  <2>1. CASE createSale(q)
    BY <2>1 DEF createSale, Allowed, At
  <2>2. CASE logout(q)
    BY <2>2 DEF logout, Allowed, At
  <2>3. CASE ReadToken(q)
    BY <2>3 DEF ReadToken, At
  <2>4. CASE Break(q)
    BY <2>4 DEF Break, At
  <2> QED
    BY <2>1, <2>2, <2>3, <2>4
<1>4. GoesOn(q, s, req[q].refresh, req[q].issued)
  BY <1>1, <1>2, <1>3, StepsOn
<1>5. UNCHANGED <<fresh, storage, tab, losses, till>>
  BY DEF createSale, logout, ReadToken, Break, serverRows
<1>6. \/ token' = token
      \/ token' = [k \in Token |-> IF k \in {n \in Issued : token[n].state = "live"}
                                   THEN [token[k] EXCEPT !.state = "revoked"] ELSE token[k]]
  <2>1. \A k \in Token : token[k].state = "live" <=> k \in {n \in Issued : token[n].state = "live"}
    BY DEF Issued
  <2>2. RevokeAll = [k \in Token |-> IF k \in {n \in Issued : token[n].state = "live"}
                                     THEN [token[k] EXCEPT !.state = "revoked"] ELSE token[k]]
    BY <2>1 DEF RevokeAll
  <2> QED
    BY <2>2 DEF createSale, logout, ReadToken, Break, serverRows
<1>7. /\ token' \in [Token -> [state : State, company : Company \cup {Nobody}]]
      /\ Issued' = Issued
      /\ \A k \in Token : token'[k].company = token[k].company
      /\ \A k \in Token : token'[k].state = "replaced" => token[k].state = "replaced"
  <2>1. CASE token' = token
    BY <1>1, <2>1 DEF SessionTypeOK, Issued
  <2>2. CASE token' = [k \in Token |-> IF k \in {n \in Issued : token[n].state = "live"}
                                       THEN [token[k] EXCEPT !.state = "revoked"] ELSE token[k]]
    <3>1. {n \in Issued : token[n].state = "live"} \in SUBSET Issued
      OBVIOUS
    <3>2. PICK K \in SUBSET Issued : K = {n \in Issued : token[n].state = "live"}
      BY <3>1
    <3>3. token' = [k \in Token |-> IF k \in K THEN [token[k] EXCEPT !.state = "revoked"]
                                     ELSE token[k]]
      BY <2>2, <3>2
    <3>4. /\ token' \in [Token -> [state : State, company : Company \cup {Nobody}]]
          /\ Issued' = Issued
          /\ \A k \in Token : token'[k].company = token[k].company
          /\ \A k \in Token : token'[k].state = IF k \in K THEN "revoked" ELSE token[k].state
      BY <1>1, <3>3, TokensRowsKept
    <3> QED
      BY <3>4
  <2> QED
    BY <1>6, <2>1, <2>2
<1>8. sales \subseteq sales' /\ sales' \subseteq Sale
      /\ (req[q].op = "sale" /\ s = "answered" => \E o \in sales' : o.key = req[q].key)
  <2>1. CASE createSale(q)
    <3>1. req[q].access \in Issued /\ CompanyOf(q) \in Company
      BY <1>1, <2>1 DEF createSale, Allowed, TokensOK, CompanyOf
    <3>2. req[q].key \in 1..MaxKeys /\ req[q].basket \in Basket /\ req[q].at \in Company
      BY <1>1, <2>1 DEF createSale, MessageOK
    <3>3. [company |-> CompanyOf(q), key |-> req[q].key, basket |-> req[q].basket,
           at |-> req[q].at] \in Sale
      BY <3>1, <3>2 DEF Sale
    <3> QED
      BY <1>1, <2>1, <3>3 DEF createSale, SessionTypeOK
  <2>2. CASE ~createSale(q)
    <3>1. sales' = sales
      BY <2>2 DEF logout, ReadToken, Break, serverRows
    <3>2. ~(req[q].op = "sale" /\ s = "answered")
      BY <1>3, <2>2, <3>1 DEF logout, ReadToken, Break, At, Goto
    <3> QED
      BY <1>1, <3>1, <3>2 DEF SessionTypeOK
  <2> QED
    BY <2>1, <2>2
<1>9. OnTheWay(q)
  BY <1>2, <1>3, <1>4, <1>5, <1>8 DEF OnTheWay
<1>10. \A p \in Request : MessageOK(p)'
  <2>1. s # "idle" /\ s \in Step /\ req[q].step # "idle"
        /\ (req[q].op = "login" => s \in {"sent", "answered"})
    BY <1>1, <1>2, <1>3 DEF MessageOK
  <2> QED
    BY <1>1, <1>4, <1>8, <2>1, GoesOnMessages
<1>11. \A p \in Request : req'[p].refresh = req[p].refresh /\ req'[p].issued = req[p].issued
  BY <1>4 DEF GoesOn
<1>12. TokensOK'
  BY <1>1, <1>5, <1>7, <1>11, TokensKept
<1>13. RenewalsOK'
  <2>1. ASSUME NEW p \in Request
        PROVE  RenewsAsBefore(p)
    <3>1. CASE p = q
      BY <1>3, <1>4, <3>1 DEF GoesOn, Asks, RenewsAsBefore, Renewing, Holds
    <3>2. CASE p # q
      BY <1>4, <3>2 DEF GoesOn, RenewsAsBefore, Renewing, Holds
    <3> QED
      BY <3>1, <3>2
  <2>2. cut' = cut /\ storage' = storage
    BY <1>5 DEF till
  <2>3. storage # 0 => storage \in Token
    BY <1>1 DEF SessionTypeOK, Token
  <2>4. \A p \in Request : Holds(p) => req[p].issued \in Token
    BY <1>1 DEF RenewalsOK, HolderOK, TokensOK, Refers, Issued
  <2> QED
    BY <1>1, <1>7, <2>1, <2>2, <2>3, <2>4, RenewalsKept
<1>14. SessionTypeOK'
  <2>1. req' \in [Request -> Message] /\ fresh' \subseteq Token
    BY <1>1, <1>4, <1>5 DEF GoesOn, SessionTypeOK
  <2>2. storage' \in 0..MaxTokens /\ (storage' # 0 => token'[storage'].state # "none")
    BY <1>1, <1>5, <1>7 DEF TokensOK, Refers, SessionTypeOK, Issued
  <2> QED
    BY <1>5, <1>1, <1>7, <1>8, <2>1, <2>2, GoesOnTypes
<1> QED
  BY <1>9, <1>10, <1>12, <1>13, <1>14

\* Nothing of the old tokens is left but for the request that will store the new ones.
LEMMA RotateKeeps ==
  ASSUME SessionInv, NEW q \in Request, Rotate(q)
  PROVE  OnTheWay(q) /\ SessionTypeOK' /\ TokensOK' /\ RenewalsOK' /\ \A p \in Request : MessageOK(p)'
<1>1. /\ SessionTypeOK /\ TokensOK /\ RenewalsOK
      /\ \A p \in Request : MessageOK(p)
      /\ req \in [Request -> Message]
  BY DEF SessionInv, SessionTypeOK
<1>2. /\ req[q].refresh \in 0..MaxTokens /\ req[q].issued \in 0..MaxTokens
      /\ "renewed" \in Step /\ req[q].step = "rotate"
  BY <1>1 DEF Message, Step, Rotate, At
<1>3. GoesOn(q, "renewed", req[q].refresh, req[q].issued)
  BY <1>1, <1>2, StepsOn DEF Rotate
<1>4. UNCHANGED <<fresh, sales, storage, tab, losses, till>>
  BY DEF Rotate
<1>5. PICK k \in Issued : k = req[q].refresh
  BY <1>1, <1>2 DEF TokensOK, Refers, RenewalsOK, Renewing
<1>6. /\ token' \in [Token -> [state : State, company : Company \cup {Nobody}]]
      /\ Issued' = Issued
      /\ \A n \in Token : token'[n].company = token[n].company
      /\ \A n \in Token : token'[n].state = IF n = k THEN "replaced" ELSE token[n].state
  <2>1. PICK K \in SUBSET Issued : K = {k}
    BY <1>5
  <2>2. token' = [token EXCEPT ![k] = [token[k] EXCEPT !.state = "replaced"]] /\ k \in Token
        /\ token \in [Token -> [state : State, company : Company \cup {Nobody}]]
    BY <1>1, <1>5 DEF Rotate, Issued, SessionTypeOK
  <2>3. token' = [n \in Token |-> IF n \in K THEN [token[n] EXCEPT !.state = "replaced"]
                                  ELSE token[n]]
    BY <2>1, <2>2
  <2>4. /\ token' \in [Token -> [state : State, company : Company \cup {Nobody}]]
        /\ Issued' = Issued
        /\ \A n \in Token : token'[n].company = token[n].company
        /\ \A n \in Token : token'[n].state = IF n \in K THEN "replaced" ELSE token[n].state
    BY <1>1, <2>3, TokensRowsKept
  <2> QED
    BY <2>1, <2>4
<1>7. OnTheWay(q)
  BY <1>2, <1>3, <1>4 DEF OnTheWay
<1>8. \A p \in Request : MessageOK(p)'
  <2>1. req[q].op # "login" /\ sales \subseteq sales'
    BY <1>1, <1>2, <1>4 DEF MessageOK
  <2> QED
    BY <1>1, <1>2, <1>3, <2>1, GoesOnMessages
<1>9. \A p \in Request : req'[p].refresh = req[p].refresh /\ req'[p].issued = req[p].issued
  BY <1>3 DEF GoesOn
<1>10. TokensOK'
  BY <1>1, <1>4, <1>6, <1>9, TokensKept
<1>11. RenewalsOK'
  <2>1. ASSUME NEW p \in Request
        PROVE  /\ Renewing(p)' => Renewing(p) /\ req'[p].alive = req[p].alive
               /\ Holds(p)' => Holds(p)
    <3>1. CASE p = q
      BY <1>2, <1>3, <3>1 DEF GoesOn, Asks, Renewing, Holds
    <3>2. CASE p # q
      BY <1>3, <3>2 DEF GoesOn, Renewing, Holds
    <3> QED
      BY <3>1, <3>2
  <2>2. \A p \in Request : Renewing(p)' => req'[p].refresh # 0 /\ (req'[p].alive \/ cut')
    BY <1>1, <1>4, <1>9, <2>1 DEF RenewalsOK, till
  <2>3. ASSUME NEW p \in Request, Holds(p)'
        PROVE  HolderOK(p)'
    <3>1. HolderOK(p) /\ req[p].issued # k /\ req[p].issued \in Token
      BY <1>1, <1>5, <2>1, <2>3 DEF RenewalsOK, HolderOK, TokensOK, Refers, Issued
    <3> QED
      BY <1>4, <1>6, <1>9, <3>1 DEF HolderOK
  <2>4. StoredTokenIsCurrent'
    <3> SUFFICES ASSUME storage' # 0, token'[storage'].state = "replaced", ~cut'
                 PROVE  \E p \in Request : At(p, "renewed")' /\ req'[p].alive
                                          /\ req'[p].refresh = storage'
      BY DEF StoredTokenIsCurrent
    <3>1. storage' = storage /\ cut' = cut /\ storage \in Token
      BY <1>1, <1>4 DEF till, SessionTypeOK, Token
    <3>2. CASE storage = k
      <4>1. req[q].alive
        BY <1>1, <1>2, <3>1 DEF RenewalsOK, Renewing
      <4> QED
        BY <1>3, <1>5, <3>1, <3>2, <4>1 DEF GoesOn, Asks, At
    <3>3. CASE storage # k
      <4>1. PICK p \in Request : At(p, "renewed") /\ req[p].alive /\ req[p].refresh = storage
        BY <1>1, <1>6, <3>1, <3>3 DEF RenewalsOK, StoredTokenIsCurrent
      <4>2. p # q
        BY <1>2, <4>1 DEF At
      <4> QED
        BY <1>3, <3>1, <4>1, <4>2 DEF GoesOn, At
    <3> QED
      BY <3>2, <3>3
  <2> QED
    BY <2>2, <2>3, <2>4 DEF RenewalsOK
<1>12. SessionTypeOK'
  <2>1. req' \in [Request -> Message] /\ fresh' \subseteq Token /\ sales' \subseteq Sale
    BY <1>1, <1>3, <1>4 DEF GoesOn, SessionTypeOK
  <2>2. storage' \in 0..MaxTokens /\ (storage' # 0 => token'[storage'].state # "none")
    BY <1>1, <1>4, <1>6 DEF TokensOK, Refers, SessionTypeOK, Issued
  <2> QED
    BY <1>1, <1>4, <1>6, <2>1, <2>2, GoesOnTypes
<1> QED
  BY <1>7, <1>8, <1>10, <1>11, <1>12

\* The code of the browser that renews the tokens it stored, and stores the new ones.
Renews(q) ==
    /\ At(q, "sent") /\ req[q].alive /\ storage # 0 /\ req[q].op # "login"
    /\ req' = [req EXCEPT ![q] = [@ EXCEPT !.step = "refresh", !.refresh = storage]]
    /\ token' = token /\ fresh' \subseteq fresh
    /\ UNCHANGED <<sales, storage, tab, losses, till>>

LEMMA BrowserKeeps ==
  ASSUME SessionInv, NEW q \in Request, Renews(q) \/ TakeRefresh(q)
  PROVE  OnTheWay(q) /\ SessionTypeOK' /\ TokensOK' /\ RenewalsOK' /\ \A p \in Request : MessageOK(p)'
<1>1. /\ SessionTypeOK /\ TokensOK /\ RenewalsOK
      /\ \A p \in Request : MessageOK(p)
      /\ req \in [Request -> Message] /\ storage \in 0..MaxTokens
  BY DEF SessionInv, SessionTypeOK
<1>2. /\ req[q].refresh \in 0..MaxTokens /\ req[q].issued \in 0..MaxTokens
      /\ "refresh" \in Step /\ "sent" \in Step
  BY <1>1 DEF Message, Step
<1>3. /\ token' = token /\ fresh' \subseteq fresh
      /\ UNCHANGED <<sales, tab, losses, till>> /\ cut' = cut
  BY DEF Renews, TakeRefresh, serverRows, till
<1>4. PICK k \in 0..MaxTokens, s \in Step :
         /\ GoesOn(q, s, k, req[q].issued)
         /\ \/ /\ req[q].step = "sent" /\ req[q].alive /\ storage # 0
               /\ s = "refresh" /\ k = storage /\ storage' = storage
            \/ /\ req[q].step = "renewed" /\ req[q].alive
               /\ s = "sent" /\ k = req[q].refresh /\ storage' = req[q].issued
         /\ req[q].op # "login"
  <2>1. CASE Renews(q)
    <3>1. GoesOn(q, "refresh", storage, req[q].issued)
      BY <1>1, <1>2, <2>1, StepsOn DEF Renews
    <3> QED
      BY <1>1, <1>2, <2>1, <3>1 DEF Renews, At
  <2>2. CASE TakeRefresh(q)
    <3>1. PICK i \in 0..MaxTokens : i = req[q].issued
      BY <1>2
    <3>2. req' = [req EXCEPT ![q] = [@ EXCEPT !.step = "sent", !.access = i, !.retry = TRUE]]
      BY <2>2, <3>1 DEF TakeRefresh
    <3>3. GoesOn(q, "sent", req[q].refresh, req[q].issued)
      BY <1>1, <1>2, <3>2, StepsOn
    <3>4. req[q].op # "login"
      BY <1>1, <2>2 DEF TakeRefresh, At, MessageOK
    <3> QED
      BY <1>2, <2>2, <3>3, <3>4 DEF TakeRefresh, At
  <2> QED
    BY <2>1, <2>2
<1>5. OnTheWay(q)
  BY <1>2, <1>3, <1>4 DEF OnTheWay
<1>6. \A p \in Request : MessageOK(p)'
  <2>1. s # "idle" /\ req[q].step # "idle" /\ s # "answered" /\ req[q].op # "login"
        /\ sales \subseteq sales'
    BY <1>3, <1>4
  <2> QED
    BY <1>1, <1>4, <2>1, GoesOnMessages
<1>7. Issued' = Issued
  BY <1>3 DEF Issued
<1>8. \A p \in Request : /\ req'[p].refresh = IF p = q THEN k ELSE req[p].refresh
                         /\ req'[p].issued = req[p].issued
  BY <1>4 DEF GoesOn
<1>9. k \in {req[q].refresh, storage} /\ (storage' = storage \/ storage' = req[q].issued)
  BY <1>4
<1>10. TokensOK'
  <2>1. \A p \in Request : req'[p].refresh \in {0, req[p].refresh, storage}
    BY <1>8, <1>9
  <2>2. storage' \in {0, storage} \/ storage' \in Issued
    BY <1>1, <1>9 DEF TokensOK, Refers
  <2> QED
    BY <1>1, <1>3, <1>7, <1>8, <2>1, <2>2, TokensKept
<1>11. RenewalsOK'
  <2>1. ASSUME NEW p \in Request \ {q}
        PROVE  (Renewing(p)' => Renewing(p)) /\ (Holds(p)' => Holds(p)) /\ req'[p] = req[p]
    BY <1>4 DEF GoesOn, Renewing, Holds
  <2>2. ~Holds(q)' /\ (Renewing(q)' => req'[q].refresh # 0 /\ req'[q].alive)
    BY <1>4 DEF GoesOn, Asks, Holds, Renewing
  <2>3. \A p \in Request : Renewing(p)' => req'[p].refresh # 0 /\ (req'[p].alive \/ cut')
    BY <1>1, <1>3, <2>1, <2>2 DEF RenewalsOK
  <2>4. ASSUME NEW p \in Request, Holds(p)'
        PROVE  HolderOK(p)'
    <3>1. HolderOK(p) /\ p # q
      BY <1>1, <2>1, <2>2, <2>4 DEF RenewalsOK
    <3> QED
      BY <1>3, <1>8, <1>9, <3>1 DEF HolderOK
  <2>5. StoredTokenIsCurrent'
    <3> SUFFICES ASSUME storage' # 0, token'[storage'].state = "replaced", ~cut'
                 PROVE  \E p \in Request : At(p, "renewed")' /\ req'[p].alive
                                          /\ req'[p].refresh = storage'
      BY DEF StoredTokenIsCurrent
    <3>1. req[q].step = "sent" /\ storage' = storage
      <4>1. req[q].step = "renewed" => token[req[q].issued].state # "replaced"
        BY <1>1 DEF RenewalsOK, Holds, HolderOK
      <4> QED
        BY <1>3, <1>4, <4>1
    <3>2. PICK p \in Request : At(p, "renewed") /\ req[p].alive /\ req[p].refresh = storage
      BY <1>1, <1>3, <3>1 DEF RenewalsOK, StoredTokenIsCurrent
    <3>3. p # q
      BY <3>1, <3>2 DEF At
    <3> QED
      BY <2>1, <3>1, <3>2, <3>3 DEF At
  <2> QED
    BY <2>3, <2>4, <2>5 DEF RenewalsOK
<1>12. SessionTypeOK'
  <2>1. req' \in [Request -> Message] /\ fresh' \subseteq Token /\ sales' \subseteq Sale
        /\ token' \in [Token -> [state : State, company : Company \cup {Nobody}]]
    BY <1>1, <1>3, <1>4 DEF GoesOn, SessionTypeOK
  <2>2. storage' \in 0..MaxTokens /\ (storage' # 0 => token'[storage'].state # "none")
    BY <1>1, <1>2, <1>3, <1>9 DEF TokensOK, Refers, SessionTypeOK, Issued
  <2> QED
    BY <1>1, <1>3, <2>1, <2>2, GoesOnTypes
<1> QED
  BY <1>5, <1>6, <1>10, <1>11, <1>12

-----------------------------------------------------------------------------
\* A request that a page starts has no tokens of a renewal yet.
Begun(m, op, t) ==
    /\ m \in Message
    /\ m.op = op /\ m.step = "sent" /\ m.tab = t /\ m.alive = TRUE /\ m.page = TRUE
    /\ m.refresh = 0 /\ m.issued = 0

LEMMA Requests ==
  ASSUME NEW t \in Tab, NEW a \in 0..MaxTokens
  PROVE  /\ \A op \in {"me", "warehouses", "logout"} :
               Begun([Idle EXCEPT !.op = op, !.step = "sent", !.tab = t, !.access = a], op, t)
         /\ \A c \in Company :
               LET m == [Idle EXCEPT !.op = "login", !.step = "sent", !.tab = t, !.at = c]
               IN  Begun(m, "login", t) /\ m.at = c
<1>1. Idle \in Message
  BY Elements
<1>2. /\ Idle.alive = TRUE /\ Idle.page = TRUE
      /\ Idle.refresh = 0 /\ Idle.issued = 0
  BY DEF Idle
<1>3. ASSUME NEW op \in {"me", "warehouses", "logout"}
      PROVE  Begun([Idle EXCEPT !.op = op, !.step = "sent", !.tab = t, !.access = a], op, t)
  <2>1. [Idle EXCEPT !.op = op, !.step = "sent", !.tab = t, !.access = a] \in Message
    BY <1>1 DEF Message, Op, Step
  <2> QED
    BY <1>1, <1>2, <2>1 DEF Begun, Message
<1>4. ASSUME NEW c \in Company
      PROVE  LET m == [Idle EXCEPT !.op = "login", !.step = "sent", !.tab = t, !.at = c]
             IN  Begun(m, "login", t) /\ m.at = c
  <2>1. [Idle EXCEPT !.op = "login", !.step = "sent", !.tab = t, !.at = c] \in Message
    BY <1>1 DEF Message, Op, Step
  <2> QED
    BY <1>1, <1>2, <2>1 DEF Begun, Message
<1> QED
  BY <1>3, <1>4

\* Requests are as they were, but for some that are over or have begun.
KeptOrNew(p) ==
    \/ Stays(p) /\ (req'[p].alive = req[p].alive \/ cut' \/ ~Renewing(p))
    \/ /\ req'[p].step \in {"sent", "idle"} /\ req'[p].refresh = 0 /\ req'[p].issued = 0
       /\ ~Renewed(p)
       /\ MessageOK(p)'

LEMMA QuietKeeps ==
  ASSUME SessionTypeOK, TokensOK, RenewalsOK, \A p \in Request : MessageOK(p),
         UNCHANGED <<serverRows, storage>>, cut => cut',
         \A p \in Request : KeptOrNew(p)
  PROVE  TokensOK' /\ RenewalsOK' /\ \A p \in Request : MessageOK(p)'
<1>1. token' = token /\ fresh' = fresh /\ sales' = sales /\ storage' = storage
  BY DEF serverRows
<1>2. \A p \in Request : MessageOK(p)'
  BY <1>1, MessageKept DEF KeptOrNew
<1>3. TokensOK'
  <2>1. Issued' = Issued
    BY <1>1 DEF Issued
  <2>2. \A p \in Request : /\ req'[p].refresh \in {0, req[p].refresh}
                           /\ req'[p].issued \in {0, req[p].issued}
    BY DEF KeptOrNew, Stays
  <2> QED
    BY <1>1, <2>1, <2>2, TokensKept
<1>4. RenewalsOK'
  <2>1. ASSUME NEW p \in Request
        PROVE  \/ RenewsAsBefore(p)
               \/ /\ ~Renewing(p)' /\ ~Holds(p)'
                  /\ req'[p].refresh \in {0, req[p].refresh}
                  /\ req'[p].issued \in {0, req[p].issued}
                  /\ ~Renewed(p)
    BY DEF KeptOrNew, Stays, RenewsAsBefore, Renewing, Holds
  <2> QED
    BY <1>1, <2>1, RenewalsKept
<1> QED
  BY <1>2, <1>3, <1>4

LEMMA QuietTypes ==
  ASSUME SessionTypeOK, UNCHANGED <<serverRows, storage, losses>>,
         req' \in [Request -> Message], tab' \in [Tab -> View],
         events' \in 0..MaxEvents, keys' \in 0..MaxKeys, cut' \in BOOLEAN,
         given' \subseteq Basket, served' \subseteq Basket
  PROVE  SessionTypeOK'
  BY DEF SessionTypeOK, serverRows

\* A request whose slot is free was over, and one that begins is complete.
LEMMA BegunMessage ==
  ASSUME NEW q \in Request, NEW op \in {"login", "me", "warehouses", "sale", "logout"},
         NEW t \in Tab, Begun(req'[q], op, t), ~Renewed(q),
         op = "login" => req'[q].at \in Company,
         op = "sale" => /\ req'[q].key \in 1..MaxKeys /\ req'[q].basket \in Basket
                        /\ req'[q].at \in Company
  PROVE  KeptOrNew(q)
  BY DEF KeptOrNew, Begun, MessageOK

\* What a page gives up is a basket.
LEMMA GivenType ==
  ASSUME SessionTypeOK, OrdersOK, NEW t \in Tab
  PROVE  GivenUp(t) \subseteq Basket /\ given \subseteq GivenUp(t)
<1>1. tab[t] \in View /\ given \subseteq Basket
  BY DEF SessionTypeOK
<1>2. tab[t].key # 0 => tab[t].basket \in Basket
  BY <1>1 DEF OrdersOK, PageOK, View
<1> QED
  BY <1>1, <1>2 DEF GivenUp

-----------------------------------------------------------------------------
\* Answers that end a request and change its page.
LEMMA AnswersKeep ==
  ASSUME SessionInv, NEW q \in Request, TakeMe(q) \/ TakeWarehouses(q) \/ TakeSale(q)
  PROVE  /\ Gone(q) /\ req[q].tab \in Tab
         /\ SessionTypeOK' /\ TokensOK' /\ RenewalsOK' /\ \A p \in Request : MessageOK(p)'
<1>1. /\ SessionTypeOK /\ TokensOK /\ RenewalsOK
      /\ \A p \in Request : MessageOK(p)
      /\ tab \in [Tab -> View] /\ served \subseteq Basket
  BY DEF SessionInv, SessionTypeOK
<1>2. /\ req' = [req EXCEPT ![q] = Idle]
      /\ UNCHANGED <<serverRows, storage, losses, events, keys, cut, given>>
      /\ req[q].step \in {"sent", "answered"}
  BY DEF TakeMe, TakeWarehouses, TakeSale, Allowed, Answered, At, till
<1>3. Gone(q)
  BY <1>1, <1>2, RequestEnds
<1>4. req[q].tab \in Tab
  BY <1>1, <1>2 DEF MessageOK
<1>5. ASSUME NEW p \in Request
      PROVE  KeptOrNew(p)
  <2>1. CASE p = q
    BY <1>2, <1>3, <2>1, IdleMessage DEF Gone, KeptOrNew, Renewed, Idle
  <2>2. CASE p # q
    BY <1>3, <2>2 DEF Gone, KeptOrNew, Stays
  <2> QED
    BY <2>1, <2>2
<1>6. TokensOK' /\ RenewalsOK' /\ \A p \in Request : MessageOK(p)'
  BY <1>1, <1>2, <1>5, QuietKeeps
<1>7. PICK t \in Tab : t = req[q].tab
  BY <1>4
<1>8. tab[t] \in View
  BY <1>1
<1>9. tab' \in [Tab -> View]
  <2>1. CASE TakeMe(q)
    <3>1. [tab[t] EXCEPT !.me = TRUE] \in View
      BY <1>8 DEF View
    <3> QED
      BY <1>1, <1>7, <2>1, <3>1 DEF TakeMe
  <2>2. CASE TakeWarehouses(q)
    <3>1. CompanyOf(q) \in Company
      BY <1>1, <2>2 DEF TakeWarehouses, Allowed, TokensOK, CompanyOf
    <3>2. [tab[t] EXCEPT !.at = CompanyOf(q)] \in View
      BY <1>8, <3>1 DEF View
    <3> QED
      BY <1>1, <1>7, <2>2, <3>2 DEF TakeWarehouses
  <2>3. CASE TakeSale(q)
    <3>1. [tab[t] EXCEPT !.done = TRUE, !.submitting = FALSE] \in View
      BY <1>8 DEF View
    <3> QED
      BY <1>1, <1>7, <2>3, <3>1 DEF TakeSale
  <2> QED
    BY <2>1, <2>2, <2>3
<1>10. served' \subseteq Basket
  <2>1. CASE TakeSale(q) /\ req[q].page
    <3>1. OnPage(q, "sale", t)
      BY <1>7, <2>1 DEF TakeSale, Answered, OnPage
    <3>2. FormOK(t) /\ PageOK(t)
      BY DEF SessionInv, OrdersOK
    <3>3. tab[t].key # 0 /\ tab[t].basket # Nobody
      BY <3>1, <3>2 DEF FormOK, PageOK
    <3> QED
      BY <1>1, <1>7, <1>8, <2>1, <3>3 DEF TakeSale, View
  <2>2. CASE ~(TakeSale(q) /\ req[q].page)
    BY <1>1, <2>2 DEF TakeMe, TakeWarehouses, TakeSale, till
  <2> QED
    BY <2>1, <2>2
<1>11. SessionTypeOK'
  <2>1. req' \in [Request -> Message]
    BY <1>3 DEF Gone
  <2>2. /\ events' \in 0..MaxEvents /\ keys' \in 0..MaxKeys /\ cut' \in BOOLEAN
        /\ given' \subseteq Basket /\ UNCHANGED <<serverRows, storage, losses>>
    BY <1>1, <1>2 DEF SessionTypeOK
  <2> QED
    BY <1>1, <1>9, <1>10, <2>1, <2>2, QuietTypes
<1> QED
  BY <1>3, <1>4, <1>6, <1>11

\* A login's tokens are stored, and its request goes on as one for the profile.
LEMMA LoginKeeps ==
  ASSUME SessionInv, NEW q \in Request, TakeLogin(q)
  PROVE  /\ req' \in [Request -> Message] /\ \A p \in Request \ {q} : req'[p] = req[p]
         /\ Begun(req'[q], "me", req[q].tab) /\ req[q].tab \in Tab
         /\ SessionTypeOK' /\ TokensOK' /\ RenewalsOK' /\ \A p \in Request : MessageOK(p)'
<1>1. /\ SessionTypeOK /\ TokensOK /\ RenewalsOK
      /\ \A p \in Request : MessageOK(p)
      /\ req \in [Request -> Message]
  BY DEF SessionInv, SessionTypeOK
<1>2. req[q].op = "login" /\ req[q].step = "answered" /\ req[q].tab \in Tab
  BY <1>1 DEF TakeLogin, Answered, At, MessageOK
<1>3. PICK t \in Tab, a \in 0..MaxTokens : t = req[q].tab /\ a = req[q].issued
  BY <1>1, <1>2 DEF Message
<1>4. PICK m : m = [Idle EXCEPT !.op = "me", !.step = "sent", !.tab = t, !.access = a]
  OBVIOUS
<1>5. Begun(m, "me", t)
  BY <1>4, Requests
<1>6. req' = [req EXCEPT ![q] = m]
  BY <1>3, <1>4 DEF TakeLogin
<1>7. /\ req' \in [Request -> Message] /\ req'[q] = m
      /\ \A p \in Request \ {q} : req'[p] = req[p]
  BY <1>1, <1>5, <1>6 DEF Begun
<1>8. /\ UNCHANGED <<token, fresh, sales, tab, losses, till>> /\ storage' = a /\ cut' = cut
  BY <1>3 DEF TakeLogin, serverRows, till
<1>9. HolderOK(q) /\ a # 0 /\ a \in Issued
  BY <1>1, <1>2, <1>3 DEF RenewalsOK, Holds, HolderOK, TokensOK, Refers
<1>10. Issued' = Issued
  BY <1>8 DEF Issued
<1>11. \A p \in Request : /\ req'[p].refresh \in {0, req[p].refresh, storage}
                          /\ req'[p].issued \in {0, req[p].issued}
  BY <1>5, <1>7 DEF Begun
<1>12. TokensOK'
  BY <1>1, <1>8, <1>9, <1>10, <1>11, TokensKept
<1>13. \A p \in Request : MessageOK(p)'
  <2>1. \A p \in Request \ {q} : MessageOK(p)'
    BY <1>1, <1>7, <1>8, SameMessage
  <2>2. MessageOK(q)'
    BY <1>5, <1>7 DEF Begun, MessageOK
  <2> QED
    BY <2>1, <2>2
<1>14. RenewalsOK'
  <2>1. ~Renewing(q)' /\ ~Holds(q)' /\ req'[q].refresh = 0 /\ req'[q].issued = 0
    BY <1>5, <1>7 DEF Begun, Renewing, Holds
  <2>2. \A p \in Request : Renewing(p)' => req'[p].refresh # 0 /\ (req'[p].alive \/ cut')
    BY <1>1, <1>7, <1>8, <2>1 DEF RenewalsOK, Renewing
  <2>3. ASSUME NEW p \in Request, Holds(p)'
        PROVE  HolderOK(p)'
    <3>1. HolderOK(p) /\ p # q
      BY <1>1, <1>7, <2>1, <2>3 DEF RenewalsOK, Holds
    <3>2. req'[p].issued = req[p].issued /\ req[p].issued # a
      BY <1>3, <1>7, <1>9, <3>1 DEF HolderOK
    <3> QED
      BY <1>7, <1>8, <2>1, <3>1, <3>2 DEF HolderOK
  <2>4. StoredTokenIsCurrent'
    BY <1>3, <1>8, <1>9 DEF StoredTokenIsCurrent, HolderOK
  <2> QED
    BY <2>2, <2>3, <2>4 DEF RenewalsOK
<1>15. SessionTypeOK'
  BY <1>1, <1>7, <1>8, <1>9 DEF SessionTypeOK, till, Issued
<1> QED
  BY <1>2, <1>3, <1>5, <1>7, <1>12, <1>13, <1>14, <1>15

\* Request q of a free slot begins as m.
Begins(q, m) ==
    /\ req[q].step = "idle"
    /\ req' \in [Request -> Message] /\ req'[q] = m
    /\ \A p \in Request \ {q} : req'[p] = req[p]

\* A request that begins beside the others.
LEMMA CashierAsks ==
  ASSUME SessionInv, NEW t \in Tab, NEW q \in Request, NEW c \in Company, NEW b,
         Login(t, q, c) \/ Logout(t, q) \/ SubmitSale(t, q, b)
  PROVE  /\ \E m : /\ Begins(q, m)
                   /\ \/ Begun(m, "login", t) /\ Login(t, q, c)
                      \/ Begun(m, "logout", t) /\ Logout(t, q)
                      \/ /\ Begun(m, "sale", t) /\ SubmitSale(t, q, b)
                         /\ m.at = tab[t].at /\ m.at \in Company /\ m.basket = b
                         /\ m.key = tab'[t].key /\ m.key \in 1..MaxKeys
         /\ tab' \in [Tab -> View]
         /\ SessionTypeOK' /\ TokensOK' /\ RenewalsOK' /\ \A p \in Request : MessageOK(p)'
<1>1. /\ SessionTypeOK /\ TokensOK /\ RenewalsOK
      /\ \A p \in Request : MessageOK(p)
      /\ req \in [Request -> Message] /\ tab \in [Tab -> View] /\ tab[t] \in View
      /\ storage \in 0..MaxTokens /\ keys \in 0..MaxKeys
  BY DEF SessionInv, SessionTypeOK
<1>2. /\ UNCHANGED <<serverRows, storage, losses, cut, given, served>>
      /\ req[q].step = "idle" /\ events' = events + 1 /\ events < MaxEvents
  BY DEF Login, Logout, SubmitSale, Starts, At
<1>3. ASSUME NEW m \in Message, req' = [req EXCEPT ![q] = m]
      PROVE  Begins(q, m)
  BY <1>1, <1>2, <1>3 DEF Begins
<1>4. SubmitSale(t, q, b) => b \in Basket
  BY <1>1, SessionAssumption DEF SubmitSale, Unserved, SessionInv, OrdersOK, PageOK, View
<1>5. tab' \in [Tab -> View] /\ keys' \in 0..MaxKeys
      /\ (SubmitSale(t, q, b) => /\ tab'[t].key \in 1..MaxKeys
                                 /\ tab'[t].key = IF tab[t].key = 0 THEN keys' ELSE tab[t].key)
  <2>1. CASE ~SubmitSale(t, q, b)
    BY <1>1, <2>1 DEF Login, Logout
  <2>2. CASE SubmitSale(t, q, b)
    <3>1. keys' \in 0..MaxKeys /\ MaxKeys \in Nat /\ tab[t].key \in 0..MaxKeys
          /\ (tab[t].key = 0 => keys' \in 1..MaxKeys)
      BY <1>1, <2>2, SessionAssumption DEF SubmitSale, View
    <3>2. PICK k : k = IF tab[t].key = 0 THEN keys' ELSE tab[t].key
      OBVIOUS
    <3>3. k \in 1..MaxKeys /\ k \in 0..MaxKeys
      BY <3>1, <3>2
    <3>4. [tab[t] EXCEPT !.submitting = TRUE, !.key = k, !.basket = b] \in View
      BY <1>1, <1>4, <2>2, <3>3 DEF View
    <3>5. PICK v \in View : v = [tab[t] EXCEPT !.submitting = TRUE, !.key = k, !.basket = b]
      BY <3>4
    <3>6. tab' = [tab EXCEPT ![t] = v] /\ v.key = k
      BY <1>1, <2>2, <3>2, <3>5 DEF SubmitSale, View
    <3> QED
      BY <1>1, <3>1, <3>2, <3>3, <3>6
  <2> QED
    BY <2>1, <2>2
<1>6. PICK m : /\ Begins(q, m)
               /\ \/ Begun(m, "login", t) /\ Login(t, q, c) /\ m.at = c
                  \/ Begun(m, "logout", t) /\ Logout(t, q)
                  \/ /\ Begun(m, "sale", t) /\ SubmitSale(t, q, b)
                     /\ m.at = tab[t].at /\ m.at \in Company /\ m.basket = b
                     /\ m.key = tab'[t].key /\ m.key \in 1..MaxKeys
  <2>1. CASE Login(t, q, c)
    <3>1. PICK m : m = [Idle EXCEPT !.op = "login", !.step = "sent", !.tab = t, !.at = c]
      OBVIOUS
    <3>2. Begun(m, "login", t) /\ m.at = c
      BY <1>1, <3>1, Requests
    <3> QED
      BY <1>3, <2>1, <3>1, <3>2 DEF Login, Begun
  <2>2. CASE Logout(t, q)
    <3>1. PICK m : m = [Idle EXCEPT !.op = "logout", !.step = "sent", !.tab = t,
                                    !.access = storage]
      OBVIOUS
    <3>2. Begun(m, "logout", t)
      BY <1>1, <3>1, Requests
    <3> QED
      BY <1>3, <2>2, <3>1, <3>2 DEF Logout, Begun
  <2>3. CASE SubmitSale(t, q, b)
    <3>1. PICK k \in 0..MaxKeys : k = tab'[t].key /\ k \in 1..MaxKeys
      BY <1>5, <2>3, SessionAssumption
    <3>2. PICK a \in Company : a = tab[t].at
      BY <1>1, <2>3 DEF SubmitSale, View
    <3>3. PICK m : m = [Idle EXCEPT !.op = "sale", !.step = "sent", !.tab = t,
                                    !.access = storage, !.at = a, !.basket = b, !.key = k]
      OBVIOUS
    <3>4. Begun(m, "sale", t) /\ m.at = a /\ m.basket = b /\ m.key = k
      <4>1. Idle \in Message /\ storage \in 0..MaxTokens
        BY <1>1, Elements
      <4>2. Idle.alive = TRUE /\ Idle.page = TRUE /\ Idle.refresh = 0 /\ Idle.issued = 0
        BY DEF Idle
      <4>3. m \in Message
        BY <1>4, <2>3, <3>3, <4>1 DEF Message, Op, Step
      <4> QED
        BY <3>3, <4>1, <4>2, <4>3 DEF Begun, Message
    <3>5. req' = [req EXCEPT ![q] = m]
      BY <1>5, <2>3, <3>1, <3>2, <3>3 DEF SubmitSale
    <3> QED
      BY <1>3, <2>3, <3>1, <3>2, <3>4, <3>5 DEF Begun
  <2> QED
    BY <2>1, <2>2, <2>3
<1>7. ASSUME NEW p \in Request
      PROVE  KeptOrNew(p)
  <2>1. CASE p = q
    <3>1. ~Renewed(q) /\ req'[q] = m
      BY <1>2, <1>6 DEF Renewed, Begins
    <3> QED
      BY <1>6, <1>4, <2>1, <3>1, BegunMessage DEF Begun
  <2>2. CASE p # q
    BY <1>6, <2>2 DEF Begins, KeptOrNew, Stays
  <2> QED
    BY <2>1, <2>2
<1>8. TokensOK' /\ RenewalsOK' /\ \A p \in Request : MessageOK(p)'
  BY <1>1, <1>2, <1>7, QuietKeeps
<1>9. SessionTypeOK'
  <2>1. req' \in [Request -> Message]
    BY <1>6 DEF Begins
  <2>2. events' \in 0..MaxEvents
    BY <1>1, <1>2, SessionAssumption DEF SessionTypeOK
  <2>3. cut' \in BOOLEAN /\ given' \subseteq Basket /\ served' \subseteq Basket
    BY <1>1, <1>2 DEF SessionTypeOK
  <2> QED
    BY <1>1, <1>2, <1>5, <2>1, <2>2, <2>3, QuietTypes
<1> QED
  BY <1>5, <1>6, <1>8, <1>9

\* What tab t waited for is forgotten; at most its profile is asked for, by request q.
Forgets(t, q) ==
    /\ req' \in [Request -> Message]
    /\ \A p \in Request :
          \/ /\ Stays(p) /\ req'[p].page = req[p].page
             /\ req'[p].alive = (req[p].alive /\ req[p].tab # t)
          \/ p = q /\ Begun(req'[p], "me", t)

LEMMA ReloadForgets ==
  ASSUME SessionTypeOK, NEW t \in Tab, NEW q \in Request, Reload(t, q)
  PROVE  Forgets(t, q)
<1>1. req \in [Request -> Message] /\ storage \in 0..MaxTokens
  BY DEF SessionTypeOK
<1>2. PICK dead : dead = [r \in Request |-> IF req[r].tab = t
                                            THEN [req[r] EXCEPT !.alive = FALSE] ELSE req[r]]
  OBVIOUS
<1>3. ASSUME NEW p \in Request
      PROVE  /\ dead[p] \in Message
             /\ dead[p].op = req[p].op /\ dead[p].step = req[p].step /\ dead[p].tab = req[p].tab
             /\ dead[p].access = req[p].access /\ dead[p].refresh = req[p].refresh
             /\ dead[p].issued = req[p].issued /\ dead[p].retry = req[p].retry
             /\ dead[p].at = req[p].at /\ dead[p].basket = req[p].basket
             /\ dead[p].key = req[p].key /\ dead[p].page = req[p].page
             /\ dead[p].alive = (req[p].alive /\ req[p].tab # t)
  <2>1. /\ req[p] \in Message
        /\ dead[p] = IF req[p].tab = t THEN [req[p] EXCEPT !.alive = FALSE] ELSE req[p]
    BY <1>1, <1>2
  <2>2. CASE req[p].tab = t
    <3>1. dead[p].alive = FALSE
      BY <2>1, <2>2 DEF Message
    <3> QED
      BY <2>1, <2>2, <3>1 DEF Message
  <2>3. CASE req[p].tab # t
    <3>1. dead[p] = req[p] /\ req[p].alive \in BOOLEAN
      BY <2>1, <2>3 DEF Message
    <3> QED
      BY <2>1, <2>3, <3>1
  <2> QED
    BY <2>2, <2>3
<1>4. dead \in [Request -> Message]
  <2>1. \A p \in Request : dead[p] \in Message
    BY <1>3
  <2> QED
    BY <1>2, <2>1
<1>5. CASE storage = 0
  <2>1. req' = dead
    BY <1>2, <1>5 DEF Reload
  <2> QED
    BY <1>3, <1>4, <2>1 DEF Forgets, Stays
<1>6. CASE storage # 0
  <2>1. PICK m : m = [Idle EXCEPT !.op = "me", !.step = "sent", !.tab = t, !.access = storage]
    OBVIOUS
  <2>2. Begun(m, "me", t)
    BY <1>1, <2>1, Requests
  <2>3. req' = [dead EXCEPT ![q] = m]
    BY <1>2, <1>6, <2>1 DEF Reload
  <2>4. req' \in [Request -> Message] /\ req'[q] = m /\ \A p \in Request \ {q} : req'[p] = dead[p]
    BY <1>4, <2>2, <2>3 DEF Begun
  <2>5. \A p \in Request \ {q} : /\ Stays(p) /\ req'[p].page = req[p].page
                                 /\ req'[p].alive = (req[p].alive /\ req[p].tab # t)
    BY <1>3, <2>4 DEF Stays
  <2> QED
    BY <2>2, <2>4, <2>5 DEF Forgets
<1> QED
  BY <1>5, <1>6

LEMMA OpenPosLeaves ==
  ASSUME SessionTypeOK, NEW t \in Tab, NEW q \in Request, OpenPos(t, q)
  PROVE  \E m : Leaves(q, t, m) /\ Begun(m, "warehouses", t)
<1>1. req \in [Request -> Message] /\ storage \in 0..MaxTokens
  BY DEF SessionTypeOK
<1>2. PICK m : m = [Idle EXCEPT !.op = "warehouses", !.step = "sent", !.tab = t,
                                !.access = storage]
  OBVIOUS
<1>3. Begun(m, "warehouses", t)
  BY <1>1, <1>2, Requests
<1>4. PICK r : r = Orphaned(req, t)
  OBVIOUS
<1>5. /\ r \in [Request -> Message]
      /\ \A p \in Request : r[p] = IF req[p].tab = t THEN [req[p] EXCEPT !.page = FALSE]
                                   ELSE req[p]
  BY <1>1, <1>4, OrphanedFields
<1>6. req' = [r EXCEPT ![q] = m]
  BY <1>2, <1>4 DEF OpenPos
<1>7. req' \in [Request -> Message] /\ req'[q] = m /\ \A p \in Request \ {q} : req'[p] = r[p]
  BY <1>3, <1>5, <1>6 DEF Begun
<1>8. ASSUME NEW p \in Request \ {q}
      PROVE  /\ Stays(p) /\ req'[p].alive = req[p].alive
             /\ req'[p].page = (req[p].page /\ req[p].tab # t)
  <2>1. /\ req[p] \in Message
        /\ req'[p] = IF req[p].tab = t THEN [req[p] EXCEPT !.page = FALSE] ELSE req[p]
    BY <1>1, <1>5, <1>7
  <2>2. CASE req[p].tab = t
    <3>1. Stays(p) /\ req'[p].alive = req[p].alive /\ req'[p].page = FALSE
      BY <2>1, <2>2 DEF Stays, Message
    <3> QED
      BY <2>2, <3>1
  <2>3. CASE req[p].tab # t
    <3>1. req'[p] = req[p] /\ req[p].page \in BOOLEAN
      BY <2>1, <2>3 DEF Message
    <3> QED
      BY <2>3, <3>1 DEF Stays
  <2> QED
    BY <2>2, <2>3
<1> QED
  BY <1>3, <1>7, <1>8 DEF Leaves

\* The page of a tab is left, or is changed without a request.
LEMMA PagesKeep ==
  ASSUME SessionInv, NEW t \in Tab, NEW q, NEW b,
         \/ q \in Request /\ (Reload(t, q) \/ OpenPos(t, q))
         \/ b \in Basket /\ Exchange(t, b)
         \/ resetForNewSale(t)
  PROVE  SessionTypeOK' /\ TokensOK' /\ RenewalsOK' /\ \A p \in Request : MessageOK(p)'
<1>1. /\ SessionTypeOK /\ TokensOK /\ RenewalsOK /\ OrdersOK
      /\ \A p \in Request : MessageOK(p)
      /\ req \in [Request -> Message] /\ tab \in [Tab -> View] /\ tab[t] \in View
      /\ events \in 0..MaxEvents /\ cut \in BOOLEAN
  BY DEF SessionInv, SessionTypeOK
<1>2. UNCHANGED <<serverRows, storage, losses, keys, served>> /\ (cut => cut')
  <2>1. CASE Reload(t, q)
    BY <2>1 DEF Reload
  <2>2. CASE OpenPos(t, q)
    BY <2>2 DEF OpenPos
  <2>3. CASE Exchange(t, b) \/ resetForNewSale(t)
    BY <2>3 DEF Exchange, resetForNewSale, till
  <2> QED
    BY <2>1, <2>2, <2>3
<1>3. req' \in [Request -> Message] /\ \A p \in Request : KeptOrNew(p)
  <2>1. CASE q \in Request /\ Reload(t, q)
    <3>1. Forgets(t, q) /\ req[q].step = "idle"
      BY <1>1, <2>1, ReloadForgets DEF Reload, Starts, At
    <3>2. ASSUME NEW p \in Request
          PROVE  KeptOrNew(p)
      <4>1. CASE /\ Stays(p) /\ req'[p].page = req[p].page
                 /\ req'[p].alive = (req[p].alive /\ req[p].tab # t)
        <5>1. req[p].alive /\ req[p].tab = t /\ Renewing(p) => cut'
          BY <2>1 DEF Reload, Renewing
        <5>2. req[p].alive \in BOOLEAN
          BY <1>1 DEF Message
        <5> QED
          BY <4>1, <5>1, <5>2 DEF KeptOrNew
      <4>2. CASE p = q /\ Begun(req'[p], "me", t)
        BY <3>1, <4>2, BegunMessage DEF Renewed
      <4> QED
        BY <3>1, <4>1, <4>2 DEF Forgets
    <3> QED
      BY <3>1, <3>2 DEF Forgets
  <2>2. CASE q \in Request /\ OpenPos(t, q)
    <3>1. PICK m : Leaves(q, t, m) /\ Begun(m, "warehouses", t)
      BY <1>1, <2>2, OpenPosLeaves
    <3>2. ~Renewed(q) /\ Begun(req'[q], "warehouses", t)
      BY <2>2, <3>1 DEF OpenPos, Starts, At, Renewed, Leaves
    <3>3. KeptOrNew(q)
      BY <2>2, <3>2, BegunMessage
    <3>4. \A p \in Request \ {q} : KeptOrNew(p)
      BY <3>1 DEF Leaves, KeptOrNew
    <3> QED
      BY <3>1, <3>3, <3>4 DEF Leaves
  <2>3. CASE Exchange(t, b) \/ resetForNewSale(t)
    <3>1. req' = req
      BY <2>3 DEF Exchange, resetForNewSale
    <3> QED
      BY <1>1, <3>1 DEF KeptOrNew, Stays
  <2> QED
    BY <2>1, <2>2, <2>3
<1>4. TokensOK' /\ RenewalsOK' /\ \A p \in Request : MessageOK(p)'
  BY <1>1, <1>2, <1>3, QuietKeeps
<1>5. tab' \in [Tab -> View]
  <2>1. Closed \in View /\ [Closed EXCEPT !.me = TRUE] \in View
    BY Elements DEF View
  <2>2. b \in Basket => [tab[t] EXCEPT !.basket = b, !.swapped = TRUE] \in View
    BY <1>1 DEF View
  <2>3. [tab[t] EXCEPT !.basket = Nobody, !.key = 0, !.swapped = FALSE, !.done = FALSE] \in View
    <3>1. 0 \in 0..MaxKeys
      BY SessionAssumption
    <3> QED
      BY <1>1, <3>1 DEF View
  <2>4. CASE Reload(t, q) \/ OpenPos(t, q)
    BY <1>1, <2>1, <2>4 DEF Reload, OpenPos
  <2>5. CASE b \in Basket /\ Exchange(t, b)
    BY <1>1, <2>2, <2>5 DEF Exchange
  <2>6. CASE resetForNewSale(t)
    BY <1>1, <2>3, <2>6 DEF resetForNewSale
  <2> QED
    BY <2>4, <2>5, <2>6
<1>6. given' \subseteq Basket
  BY <1>1, GivenType DEF Reload, OpenPos, Exchange, resetForNewSale, till, SessionTypeOK
<1>7. events' \in 0..MaxEvents /\ cut' \in BOOLEAN
  <2>1. \/ events' = events
        \/ events < MaxEvents /\ events' = events + 1
    BY DEF Reload, OpenPos, Exchange, resetForNewSale, till, Starts
  <2>2. cut' \in BOOLEAN
    BY <1>1 DEF Reload, OpenPos, Exchange, resetForNewSale, till
  <2> QED
    BY <1>1, <2>1, <2>2, SessionAssumption
<1>8. SessionTypeOK'
  <2>1. keys' \in 0..MaxKeys /\ served' \subseteq Basket
    BY <1>1, <1>2 DEF SessionTypeOK
  <2> QED
    BY <1>1, <1>2, <1>3, <1>5, <1>6, <1>7, <2>1, QuietTypes
<1> QED
  BY <1>4, <1>8

-----------------------------------------------------------------------------
\* Whoever asks for nothing new, and records what was asked for, adds no order.
LEMMA NoNewOrders ==
  ASSUME \A p \in Request : req'[p].op = "sale" =>
            /\ req[p].op = "sale" /\ req'[p].key = req[p].key
            /\ req'[p].at = req[p].at /\ req'[p].basket = req[p].basket,
         \A s \in sales' : \/ s \in sales
                           \/ \E p \in Request : /\ req[p].op = "sale" /\ req[p].key = s.key
                                                 /\ req[p].at = s.at /\ req[p].basket = s.basket
  PROVE  Orders' \subseteq Orders
<1> SUFFICES ASSUME NEW o \in Orders' PROVE o \in Orders
  OBVIOUS
<1>1. o \in [key : 1..MaxKeys, at : Company, basket : Basket]
  BY DEF Orders
<1>2. CASE \E s \in sales' : s.key = o.key /\ s.at = o.at /\ s.basket = o.basket
  BY <1>1, <1>2 DEF Orders
<1>3. CASE \E q \in Request : /\ req'[q].op = "sale" /\ req'[q].key = o.key
                              /\ req'[q].at = o.at /\ req'[q].basket = o.basket
  BY <1>1, <1>3 DEF Orders
<1> QED
  BY <1>2, <1>3 DEF Orders

\* The pages stay, with their baskets and keys.
LEMMA OrdersKept ==
  ASSUME OrdersOK, Orders' \subseteq Orders, keys' = keys, given \subseteq given',
         served \subseteq served', SoldWhereShown',
         \A t \in Tab :
            /\ tab'[t].key = tab[t].key /\ tab'[t].basket = tab[t].basket
            /\ tab'[t].swapped = tab[t].swapped
            /\ tab'[t].at = tab[t].at \/ tab[t].key = 0
            /\ tab'[t].done => tab[t].done \/ tab[t].basket \in served'
  PROVE  OrdersOK'
<1>1. \A o \in Orders' : o.key <= keys'
  BY DEF OrdersOK
<1>2. ASSUME NEW t \in Tab
      PROVE  PageOK(t)'
  <2>1. PageOK(t) /\ \A u \in Tab : tab'[u].key = tab[u].key /\ tab'[u].basket = tab[u].basket
    BY DEF OrdersOK
  <2>2. tab'[t].key <= keys' /\ (tab'[t].key = 0 <=> tab'[t].basket = Nobody)
    BY <2>1 DEF PageOK
  <2>3. tab'[t].done => tab'[t].basket \in served'
    BY <2>1 DEF PageOK
  <2>4. tab'[t].key # 0 =>
          /\ \A u \in Tab \ {t} : tab'[u].key # tab'[t].key /\ tab'[u].basket # tab'[t].basket
          /\ \A o \in Orders' : o.key = tab'[t].key =>
                o.basket = tab'[t].basket \/ tab'[t].swapped
          /\ \A o \in Orders' : o.basket = tab'[t].basket =>
                (o.key = tab'[t].key /\ o.at = tab'[t].at) \/ tab'[t].basket \in given'
    BY <2>1 DEF PageOK
  <2> QED
    BY <2>2, <2>3, <2>4 DEF PageOK
<1>3. ASSUME NEW b \in Basket \ given'
      PROVE  /\ \A o, p \in Orders' : o.basket = b /\ p.basket = b => o = p
             /\ b \in Unserved' => \A o \in Orders' : o.basket # b
  <2>1. b \in Unserved' => b \in Unserved
    BY DEF Unserved
  <2> QED
    BY <2>1 DEF OrdersOK
<1> QED
  BY <1>1, <1>2, <1>3 DEF OrdersOK

\* A page is emptied: its sale was completed, or its basket is given up.
LEMMA OrdersEmptied ==
  ASSUME OrdersOK, Orders' \subseteq Orders, keys' = keys, served' = served, SoldWhereShown',
         keys \in Nat, NEW t \in Tab,
         \A u \in Tab \ {t} : tab'[u] = tab[u],
         tab'[t].key = 0, tab'[t].basket = Nobody, tab'[t].done = FALSE,
         given' = GivenUp(t) \/ (given' = given /\ tab[t].done)
  PROVE  OrdersOK'
<1>1. \A o \in Orders' : o.key <= keys'
  BY DEF OrdersOK
<1>2. given \subseteq given' /\ (tab[t].key # 0 => tab[t].done \/ tab[t].basket \in given')
  BY DEF GivenUp
<1>3. ASSUME NEW u \in Tab
      PROVE  PageOK(u)'
  <2>1. CASE u = t
    BY <2>1 DEF PageOK
  <2>2. CASE u # t
    <3>1. PageOK(u) /\ tab'[u] = tab[u] /\ u # t
      BY <2>2 DEF OrdersOK
    <3>2. tab'[u].key # 0 =>
            \A w \in Tab \ {u} : tab'[w].key # tab'[u].key /\ tab'[w].basket # tab'[u].basket
      BY <3>1 DEF PageOK
    <3> QED
      BY <1>2, <3>1, <3>2 DEF PageOK
  <2> QED
    BY <2>1, <2>2
<1>4. ASSUME NEW b \in Basket \ given'
      PROVE  /\ \A o, p \in Orders' : o.basket = b /\ p.basket = b => o = p
             /\ b \in Unserved' => \A o \in Orders' : o.basket # b
  <2>1. b \notin given /\ PageOK(t)
    BY <1>2 DEF OrdersOK
  <2>2. b \in Unserved' => b \in Unserved
    <3> SUFFICES ASSUME b \in Unserved' PROVE b \in Unserved
      OBVIOUS
    <3>1. b \notin served /\ \A u \in Tab \ {t} : tab[u].basket # b
      BY DEF Unserved
    <3>2. tab[t].basket # b
      BY <1>2, <2>1, <3>1, SessionAssumption DEF PageOK
    <3> QED
      BY <3>1, <3>2 DEF Unserved
  <2> QED
    BY <2>1, <2>2 DEF OrdersOK
<1> QED
  BY <1>1, <1>3, <1>4 DEF OrdersOK

\* Another basket takes the place of one that was sent, which is given up.
LEMMA OrdersExchanged ==
  ASSUME SessionTypeOK, OrdersOK, NEW t \in Tab, NEW b \in Unserved, Exchange(t, b)
  PROVE  OrdersOK'
<1>1. /\ UNCHANGED <<sales, req, keys, served>>
      /\ tab \in [Tab -> View] /\ tab[t] \in View /\ b \in Basket /\ b # Nobody
  BY SessionAssumption DEF Exchange, SessionTypeOK, serverRows, Unserved
<1>2. PICK v : v = [tab[t] EXCEPT !.basket = b, !.swapped = TRUE]
  OBVIOUS
<1>3. /\ tab'[t] = v /\ \A u \in Tab \ {t} : tab'[u] = tab[u]
      /\ v.basket = b /\ v.swapped = TRUE /\ v.key = tab[t].key /\ v.done = tab[t].done
      /\ tab[t].key # 0 /\ ~tab[t].done
  BY <1>1, <1>2 DEF Exchange, View
<1>4. given' = given \cup {tab[t].basket}
  BY DEF Exchange, GivenUp
<1>5. Orders' = Orders /\ SoldWhereShown'
  BY <1>1 DEF Orders, OrdersOK, SoldWhereShown
<1>6. b \notin served /\ \A u \in Tab : tab[u].basket # b
  BY DEF Unserved
<1>7. b \notin given => \A o \in Orders : o.basket # b
  BY <1>1 DEF OrdersOK
<1>8. ASSUME NEW u \in Tab
      PROVE  PageOK(u)'
  <2>1. CASE u = t
    <3>1. PageOK(t) /\ v.key # 0
      BY <1>3 DEF OrdersOK
    <3>2. \A w \in Tab \ {t} : tab'[w].key # v.key /\ tab'[w].basket # b
      BY <1>3, <1>6, <3>1 DEF PageOK
    <3>3. \A o \in Orders : o.basket = b => b \in given'
      BY <1>4, <1>7
    <3> QED
      BY <1>1, <1>3, <1>5, <2>1, <3>1, <3>2, <3>3 DEF PageOK
  <2>2. CASE u # t
    <3>1. PageOK(u) /\ tab'[u] = tab[u]
      BY <1>3, <2>2 DEF OrdersOK
    <3>2. tab'[u].key # 0 =>
            \A w \in Tab \ {u} : tab'[w].key # tab'[u].key /\ tab'[w].basket # tab'[u].basket
      BY <1>3, <1>6, <2>2, <3>1 DEF PageOK
    <3> QED
      BY <1>1, <1>4, <1>5, <3>1, <3>2 DEF PageOK
  <2> QED
    BY <2>1, <2>2
<1>9. ASSUME NEW c \in Basket \ given'
      PROVE  /\ \A o, p \in Orders' : o.basket = c /\ p.basket = c => o = p
             /\ c \in Unserved' => \A o \in Orders' : o.basket # c
  <2>1. c \notin given /\ c # tab[t].basket
    BY <1>4
  <2>2. c \in Unserved' => c \in Unserved
    BY <1>1, <1>3, <2>1 DEF Unserved
  <2> QED
    BY <1>5, <2>1, <2>2 DEF OrdersOK
<1> QED
  BY <1>1, <1>5, <1>8, <1>9 DEF OrdersOK

\* A basket is sent: under a new key, or once more under the key it was sent with.
LEMMA OrdersSubmitted ==
  ASSUME SessionTypeOK, OrdersOK, NEW t \in Tab, NEW q \in Request, NEW b \in Basket,
         NEW m, SubmitSale(t, q, b), Begins(q, m), m.at = tab[t].at, m.at \in Company,
         m.basket = b, m.key = tab'[t].key, m.key \in 1..MaxKeys
  PROVE  OrdersOK'
<1>1. /\ UNCHANGED <<sales, given, served>>
      /\ tab \in [Tab -> View] /\ tab[t] \in View /\ keys \in Nat /\ b # Nobody
      /\ ~tab[t].done
  BY SessionAssumption DEF SubmitSale, SessionTypeOK, serverRows
<1>2. PICK k : k = IF tab[t].key = 0 THEN keys' ELSE tab[t].key
  OBVIOUS
<1>3. PICK v : v = [tab[t] EXCEPT !.submitting = TRUE, !.key = k, !.basket = b]
  OBVIOUS
<1>4. /\ tab'[t] = v /\ \A u \in Tab \ {t} : tab'[u] = tab[u]
      /\ v.basket = b /\ v.swapped = tab[t].swapped /\ v.key = k /\ v.done = tab[t].done
      /\ v.at = tab[t].at
  BY <1>1, <1>2, <1>3 DEF SubmitSale, View
<1>5. m.key = k /\ k \in Nat \ {0} /\ k \in 1..MaxKeys
  BY <1>4, SessionAssumption
<1>6. PICK n \in [key : 1..MaxKeys, at : Company, basket : Basket] :
         n = [key |-> k, at |-> tab[t].at, basket |-> b]
  BY <1>5
<1>7. n.key = k /\ n.at = tab[t].at /\ n.basket = b
  BY <1>6
<1>8. Orders' \subseteq Orders \cup {n}
  <2> SUFFICES ASSUME NEW o \in Orders' PROVE o \in Orders \/ o = n
    OBVIOUS
  <2>1. o \in [key : 1..MaxKeys, at : Company, basket : Basket]
    BY DEF Orders
  <2>2. CASE \E s \in sales' : s.key = o.key /\ s.at = o.at /\ s.basket = o.basket
    BY <1>1, <2>1, <2>2 DEF Orders
  <2>3. CASE \E p \in Request : /\ req'[p].op = "sale" /\ req'[p].key = o.key
                                /\ req'[p].at = o.at /\ req'[p].basket = o.basket
    <3>1. PICK p \in Request : /\ req'[p].op = "sale" /\ req'[p].key = o.key
                               /\ req'[p].at = o.at /\ req'[p].basket = o.basket
      BY <2>3
    <3>2. CASE p = q
      <4>1. o.key = n.key /\ o.at = n.at /\ o.basket = n.basket
        BY <1>5, <1>7, <3>1, <3>2 DEF Begins
      <4> QED
        BY <1>6, <2>1, <4>1
    <3>3. CASE p # q
      BY <2>1, <3>1, <3>3 DEF Begins, Orders
    <3> QED
      BY <3>2, <3>3
  <2> QED
    BY <2>2, <2>3 DEF Orders
<1>9. Orders \subseteq [key : 1..MaxKeys, at : Company, basket : Basket]
  BY DEF Orders
\* What is known of key k and basket b.
<1>10. /\ \A u \in Tab \ {t} : tab[u].key # k /\ tab[u].basket # b
       /\ \A o \in Orders : o.key = k => o.basket = b \/ tab[t].swapped
       /\ \A o \in Orders : o.basket = b => (o.key = k /\ o.at = tab[t].at) \/ b \in given
       /\ keys <= keys' /\ k <= keys' /\ keys' \in Nat
  <2>1. CASE tab[t].key = 0
    <3>1. b \in Unserved /\ keys' = keys + 1 /\ k = keys + 1
      BY <1>2, <2>1 DEF SubmitSale, OrdersOK, PageOK
    <3>2. ASSUME NEW u \in Tab \ {t}
          PROVE  tab[u].key # k /\ tab[u].basket # b
      <4>1. tab[u].key \in Nat /\ tab[u].key <= keys
        BY <1>1, SessionAssumption DEF OrdersOK, PageOK, View
      <4> QED
        BY <1>1, <3>1, <4>1 DEF Unserved
    <3>3. ASSUME NEW o \in Orders
          PROVE  o.key # k /\ (o.basket = b => b \in given)
      <4>1. o.key \in Nat /\ o.key <= keys
        BY <1>9, SessionAssumption DEF OrdersOK
      <4> QED
        BY <1>1, <3>1, <4>1 DEF OrdersOK
    <3> QED
      BY <1>1, <3>1, <3>2, <3>3
  <2>2. CASE tab[t].key # 0
    <3>1. PageOK(t) /\ b = tab[t].basket /\ keys' = keys /\ k = tab[t].key
      BY <1>2, <2>2 DEF SubmitSale, OrdersOK, PageOK
    <3> QED
      BY <1>1, <2>2, <3>1 DEF PageOK
  <2> QED
    BY <2>1, <2>2
<1>11. \A c \in Unserved' : c \in Unserved /\ c # b
  <2> SUFFICES ASSUME NEW c \in Unserved' PROVE c \in Unserved /\ c # b
    OBVIOUS
  <2>1. c \in Basket \ served /\ \A u \in Tab : tab'[u].basket # c
    BY <1>1 DEF Unserved
  <2>2. c # b /\ \A u \in Tab \ {t} : tab[u].basket # c
    BY <1>4, <2>1
  <2>3. tab[t].basket \in {Nobody, b}
    BY DEF SubmitSale
  <2> QED
    BY <2>1, <2>2, <2>3, SessionAssumption DEF Unserved
<1>12. \A o \in Orders' : o.key <= keys'
  <2>1. \A o \in Orders : o.key <= keys /\ o.key \in Nat
    BY <1>9, SessionAssumption DEF OrdersOK
  <2> QED
    BY <1>1, <1>7, <1>8, <1>10, <2>1
<1>13. ASSUME NEW u \in Tab
       PROVE  PageOK(u)'
  <2>1. CASE u = t
    <3>1. \A w \in Tab \ {t} : tab'[w].key # k /\ tab'[w].basket # b
      BY <1>4, <1>10
    <3>2. /\ \A o \in Orders' : o.key = k => o.basket = b \/ v.swapped
          /\ \A o \in Orders' : o.basket = b => (o.key = k /\ o.at = v.at) \/ b \in given'
      BY <1>1, <1>4, <1>7, <1>8, <1>10
    <3> QED
      BY <1>1, <1>4, <1>5, <1>10, <2>1, <3>1, <3>2 DEF PageOK
  <2>2. CASE u # t
    <3>1. PageOK(u) /\ tab'[u] = tab[u] /\ tab[u].key # k /\ tab[u].basket # b
      BY <1>4, <1>10, <2>2 DEF OrdersOK
    <3>2. tab[u].key <= keys' /\ (tab[u].key = 0 <=> tab[u].basket = Nobody)
          /\ (tab[u].done => tab[u].basket \in served')
      <4>1. tab[u].key \in Nat
        BY <1>1, SessionAssumption DEF View
      <4> QED
        BY <1>1, <1>10, <3>1, <4>1 DEF PageOK
    <3>3. tab[u].key # 0 =>
            \A w \in Tab \ {u} : tab'[w].key # tab[u].key /\ tab'[w].basket # tab[u].basket
      BY <1>4, <2>2, <3>1 DEF PageOK
    <3>4. tab[u].key # 0 =>
            /\ \A o \in Orders' : o.key = tab[u].key => o.basket = tab[u].basket \/ tab[u].swapped
            /\ \A o \in Orders' : o.basket = tab[u].basket =>
                  (o.key = tab[u].key /\ o.at = tab[u].at) \/ tab[u].basket \in given'
      BY <1>1, <1>7, <1>8, <3>1 DEF PageOK
    <3> QED
      BY <3>1, <3>2, <3>3, <3>4 DEF PageOK
  <2> QED
    BY <2>1, <2>2
<1>14. ASSUME NEW c \in Basket \ given'
       PROVE  /\ \A o, p \in Orders' : o.basket = c /\ p.basket = c => o = p
              /\ c \in Unserved' => \A o \in Orders' : o.basket # c
  <2>1. ASSUME NEW o \in Orders, o.basket = c, c = b
        PROVE  o = n
    BY <1>1, <1>6, <1>7, <1>9, <1>10, <2>1
  <2>2. \A o, p \in Orders : o.basket = c /\ p.basket = c => o = p
    BY <1>1 DEF OrdersOK
  <2>3. c \in Unserved => \A o \in Orders : o.basket # c
    BY <1>1 DEF OrdersOK
  <2> QED
    BY <1>7, <1>8, <1>11, <2>1, <2>2, <2>3
<1>15. SoldWhereShown'
  BY <1>1 DEF OrdersOK, SoldWhereShown
<1> QED
  BY <1>12, <1>13, <1>14, <1>15 DEF OrdersOK

-----------------------------------------------------------------------------
\* A form stays as it is, with the sale it waits for.
LEMMA FormKept ==
  ASSUME NEW t \in Tab, FormOK(t), sales \subseteq sales',
         tab'[t].submitting = tab[t].submitting, tab'[t].done = tab[t].done,
         tab'[t].key = tab[t].key,
         tab[t].done => tab'[t].basket = tab[t].basket /\ tab'[t].swapped = tab[t].swapped,
         \A q \in Request : /\ OnPage(q, "sale", t)' <=> OnPage(q, "sale", t)
                            /\ OnPage(q, "sale", t) => req'[q].key = req[q].key,
         \A q \in Request : OnPage(q, "warehouses", t)' =>
                               OnPage(q, "warehouses", t) /\ tab'[t].at = tab[t].at
  PROVE  FormOK(t)'
<1>1. tab'[t].submitting <=> \E q \in Request : OnPage(q, "sale", t)'
  BY DEF FormOK
<1>2. tab'[t].submitting => ~tab'[t].done /\ tab'[t].key # 0
  BY DEF FormOK
<1>3. \A q \in Request : OnPage(q, "sale", t)' => req'[q].key = tab'[t].key
  BY DEF FormOK
<1>4. \A q \in Request : OnPage(q, "warehouses", t)' => tab'[t].at = Nobody /\ tab'[t].key = 0
  BY DEF FormOK
<1>5. \A q, p \in Request : \A op \in {"sale", "warehouses"} :
         OnPage(q, op, t)' /\ OnPage(p, op, t)' => p = q
  BY DEF FormOK
<1>6. tab'[t].done => /\ tab'[t].key # 0
                      /\ \E s \in sales' : /\ s.key = tab'[t].key
                                           /\ s.basket = tab'[t].basket \/ tab'[t].swapped
  BY DEF FormOK
<1> QED
  BY <1>1, <1>2, <1>3, <1>4, <1>5, <1>6 DEF FormOK

\* A form that waits for no sale.
LEMMA FormFree ==
  ASSUME NEW t \in Tab, tab'[t].submitting = FALSE,
         \A q \in Request : ~OnPage(q, "sale", t)',
         \A q \in Request : OnPage(q, "warehouses", t)' => tab'[t].at = Nobody /\ tab'[t].key = 0,
         \A q, p \in Request : OnPage(q, "warehouses", t)' /\ OnPage(p, "warehouses", t)' => p = q,
         tab'[t].done => /\ tab'[t].key # 0
                         /\ \E s \in sales' : /\ s.key = tab'[t].key
                                              /\ s.basket = tab'[t].basket \/ tab'[t].swapped
  PROVE  FormOK(t)'
<1>1. \A q, p \in Request : \A op \in {"sale", "warehouses"} :
         OnPage(q, op, t)' /\ OnPage(p, op, t)' => p = q
  OBVIOUS
<1> QED
  BY <1>1 DEF FormOK

\* What becomes of the answers a page waits for.
LEMMA WaitsOn ==
  ASSUME NEW q \in Request, NEW s, NEW k, NEW i, GoesOn(q, s, k, i),
         NEW p \in Request, NEW op, NEW t
  PROVE  (OnPage(p, op, t)' <=> OnPage(p, op, t)) /\ req'[p].key = req[p].key
<1>1. CASE p = q
  BY <1>1 DEF GoesOn, Asks, OnPage
<1>2. CASE p # q
  BY <1>2 DEF GoesOn, OnPage
<1> QED
  BY <1>1, <1>2

LEMMA WaitsNoMore ==
  ASSUME NEW q \in Request, Gone(q), NEW op \in {"sale", "warehouses"}, NEW t
  PROVE  /\ ~OnPage(q, op, t)'
         /\ \A p \in Request \ {q} : /\ OnPage(p, op, t)' <=> OnPage(p, op, t)
                                     /\ req'[p].key = req[p].key
<1>1. req'[q].op = "none"
  BY DEF Gone, Idle
<1> QED
  BY <1>1 DEF Gone, OnPage

LEMMA WaitsElsewhere ==
  ASSUME NEW q \in Request, NEW u, NEW m, Leaves(q, u, m),
         NEW op \in {"sale", "warehouses"}, NEW t
  PROVE  /\ \A p \in Request \ {q} : OnPage(p, op, u)' => FALSE
         /\ t # u => \A p \in Request \ {q} : /\ OnPage(p, op, t)' <=> OnPage(p, op, t)
                                              /\ req'[p].key = req[p].key
<1>1. ASSUME NEW p \in Request \ {q}
      PROVE  /\ req'[p].op = req[p].op /\ req'[p].tab = req[p].tab /\ req'[p].key = req[p].key
             /\ req'[p].alive = req[p].alive
             /\ req'[p].page = (req[p].page /\ req[p].tab # u)
  BY DEF Leaves, Stays
<1> QED
  BY <1>1 DEF OnPage

\* A request that goes on is none of the pages' business yet.
LEMMA OnTheWayKeeps ==
  ASSUME SessionInv, NEW q \in Request, OnTheWay(q)
  PROVE  \A t \in Tab : FormOK(t)'
<1> SUFFICES ASSUME NEW t \in Tab PROVE FormOK(t)'
  OBVIOUS
<1>1. FormOK(t) /\ tab' = tab /\ sales \subseteq sales'
  BY DEF SessionInv, OnTheWay
<1>2. PICK s \in Step, k \in 0..MaxTokens, i \in 0..MaxTokens : GoesOn(q, s, k, i)
  BY DEF OnTheWay
<1>3. \A p \in Request : /\ OnPage(p, "sale", t)' <=> OnPage(p, "sale", t)
                         /\ OnPage(p, "warehouses", t)' <=> OnPage(p, "warehouses", t)
                         /\ req'[p].key = req[p].key
  BY <1>2, WaitsOn
<1> QED
  BY <1>1, <1>3, FormKept

\* When a request is over, the page that waited for it is free again.
LEMMA OverKeepsForms ==
  ASSUME SessionInv, NEW q \in Request, Over(q)
  PROVE  \A t \in Tab : FormOK(t)'
<1>1. /\ SessionTypeOK /\ MessageOK(q) /\ \A t \in Tab : FormOK(t)
      /\ tab \in [Tab -> View] /\ sales' = sales /\ req[q].step # "idle"
  BY DEF SessionInv, SessionTypeOK, Over
<1>2. PICK u \in Tab : u = req[q].tab
  BY <1>1 DEF MessageOK
<1>3. u # Nobody
  BY SessionAssumption
<1> SUFFICES ASSUME NEW t \in Tab PROVE FormOK(t)'
  OBVIOUS
<1>4. CASE EndSession(q)
  <2>1. Leaves(q, u, Idle) /\ tab' = [tab EXCEPT ![u] = Closed]
    BY <1>1, <1>2, <1>3, <1>4, RequestEnds DEF EndSession
  <2>2. \A op \in {"sale", "warehouses"} : ~OnPage(q, op, t)'
    BY <2>1 DEF Leaves, Idle, OnPage
  <2>3. CASE t = u
    <3>1. tab'[t].submitting = FALSE /\ tab'[t].done = FALSE
      BY <1>1, <2>1, <2>3 DEF Closed
    <3>2. \A p \in Request : ~OnPage(p, "sale", t)' /\ ~OnPage(p, "warehouses", t)'
      BY <2>1, <2>2, <2>3, WaitsElsewhere
    <3> QED
      BY <3>1, <3>2, FormFree
  <2>4. CASE t # u
    <3>1. tab'[t] = tab[t] /\ FormOK(t)
      BY <1>1, <2>1, <2>4
    <3>2. \A op : ~OnPage(q, op, t)
      BY <1>2, <2>4 DEF OnPage
    <3>3. \A p \in Request : /\ OnPage(p, "sale", t)' <=> OnPage(p, "sale", t)
                             /\ OnPage(p, "warehouses", t)' <=> OnPage(p, "warehouses", t)
                             /\ p # q => req'[p].key = req[p].key
      BY <2>1, <2>2, <2>4, <3>2, WaitsElsewhere
    <3> QED
      BY <1>1, <3>1, <3>2, <3>3, FormKept
  <2> QED
    BY <2>3, <2>4
<1>5. CASE ~EndSession(q)
  <2>1. Gone(q)
    BY <1>1, <1>5, RequestEnds DEF Over, ShowError, Ignore
  <2>2. /\ ~OnPage(q, "sale", t)' /\ ~OnPage(q, "warehouses", t)'
        /\ \A p \in Request \ {q} : /\ OnPage(p, "sale", t)' <=> OnPage(p, "sale", t)
                                    /\ OnPage(p, "warehouses", t)' <=> OnPage(p, "warehouses", t)
                                    /\ req'[p].key = req[p].key
    BY <2>1, WaitsNoMore
  <2>3. CASE OnPage(q, "sale", t)
    <3>1. tab' = [tab EXCEPT ![u].submitting = FALSE] /\ t = u
      BY <1>2, <1>5, <2>3 DEF Over, ShowError, OnPage
    <3>2. /\ tab'[t].submitting = FALSE /\ tab'[t].key = tab[t].key
          /\ tab'[t].done = tab[t].done /\ tab'[t].at = tab[t].at
      BY <1>1, <3>1 DEF View
    <3>3. tab[t].submitting
      BY <1>1, <2>3 DEF FormOK
    <3>4. tab'[t].done = FALSE
      BY <1>1, <3>2, <3>3 DEF FormOK, View
    <3>5. \A p \in Request : ~OnPage(p, "sale", t)'
      BY <1>1, <2>2, <2>3 DEF FormOK
    <3>6. \A p \in Request : OnPage(p, "warehouses", t)' => tab'[t].at = Nobody /\ tab'[t].key = 0
      BY <1>1, <2>2, <3>2 DEF FormOK
    <3>7. \A p, r \in Request : OnPage(p, "warehouses", t)' /\ OnPage(r, "warehouses", t)' => p = r
      BY <1>1, <2>2 DEF FormOK
    <3> QED
      BY <3>2, <3>4, <3>5, <3>6, <3>7, FormFree
  <2>4. CASE ~OnPage(q, "sale", t)
    <3>1. tab'[t] = tab[t]
      BY <1>1, <1>2, <1>5, <2>4 DEF Over, ShowError, Ignore, OnPage
    <3>2. \A p \in Request : /\ OnPage(p, "sale", t)' <=> OnPage(p, "sale", t)
                             /\ OnPage(p, "sale", t) => req'[p].key = req[p].key
                             /\ OnPage(p, "warehouses", t)' => OnPage(p, "warehouses", t)
      BY <2>2, <2>4
    <3> QED
      BY <1>1, <3>1, <3>2, FormKept
  <2> QED
    BY <2>3, <2>4
<1> QED
  BY <1>4, <1>5

\* What a page makes of an answer.
LEMMA AnswersKeepForms ==
  ASSUME SessionInv, NEW q \in Request, TakeMe(q) \/ TakeWarehouses(q) \/ TakeSale(q)
  PROVE  \A t \in Tab : FormOK(t)'
<1>1. /\ Gone(q) /\ MessageOK(q) /\ \A t \in Tab : FormOK(t) /\ PageOK(t)
      /\ tab \in [Tab -> View]
  BY AnswersKeep DEF SessionInv, OrdersOK, SessionTypeOK
<1>2. PICK u \in Tab : u = req[q].tab
  BY AnswersKeep
<1>3. sales' = sales
  BY DEF TakeMe, TakeWarehouses, TakeSale, serverRows
<1> SUFFICES ASSUME NEW t \in Tab PROVE FormOK(t)'
  OBVIOUS
<1>4. /\ ~OnPage(q, "sale", t)' /\ ~OnPage(q, "warehouses", t)'
      /\ \A p \in Request \ {q} : /\ OnPage(p, "sale", t)' <=> OnPage(p, "sale", t)
                                  /\ OnPage(p, "warehouses", t)' <=> OnPage(p, "warehouses", t)
                                  /\ req'[p].key = req[p].key
  BY <1>1, WaitsNoMore
<1>5. CASE OnPage(q, "sale", t)
  <2>1. TakeSale(q) /\ t = u /\ tab[t] \in View
    BY <1>1, <1>2, <1>5 DEF TakeMe, TakeWarehouses, OnPage
  <2>2. tab' = [tab EXCEPT ![t] = [tab[t] EXCEPT !.done = TRUE, !.submitting = FALSE]]
    BY <1>2, <1>5, <2>1 DEF TakeSale, OnPage
  <2>3. PICK v : v = [tab[t] EXCEPT !.done = TRUE, !.submitting = FALSE]
    OBVIOUS
  <2>4. /\ tab'[t] = v /\ v.submitting = FALSE /\ v.key = tab[t].key /\ v.basket = tab[t].basket
        /\ v.swapped = tab[t].swapped
    BY <1>1, <2>1, <2>2, <2>3 DEF View
  <2>5. tab[t].submitting /\ tab[t].key # 0 /\ req[q].key = tab[t].key
    BY <1>1, <1>5 DEF FormOK
  <2>6. \A p \in Request : ~OnPage(p, "sale", t)' /\ ~OnPage(p, "warehouses", t)'
    BY <1>1, <1>4, <1>5, <2>5 DEF FormOK
  <2>7. PICK s \in sales : s.key = tab[t].key
    BY <1>1, <1>5, <2>1, <2>5 DEF MessageOK, TakeSale, Answered, At, OnPage
  <2>8. s.basket = tab[t].basket \/ tab[t].swapped
    <3>1. s \in Sale
      BY DEF SessionInv, SessionTypeOK
    <3>2. PICK o \in [key : 1..MaxKeys, at : Company, basket : Basket] :
             o = [key |-> s.key, at |-> s.at, basket |-> s.basket]
      BY <3>1 DEF Sale
    <3>3. o \in Orders /\ o.key = tab[t].key /\ o.basket = s.basket
      BY <2>7, <3>2 DEF Orders
    <3> QED
      BY <1>1, <2>5, <3>3 DEF PageOK
  <2> QED
    BY <1>3, <2>4, <2>5, <2>6, <2>7, <2>8, FormFree
<1>6. CASE OnPage(q, "warehouses", t)
  <2>1. TakeWarehouses(q) /\ t = u /\ tab[t] \in View
    BY <1>1, <1>2, <1>6 DEF TakeMe, TakeSale, Answered, OnPage
  <2>2. tab' = [tab EXCEPT ![t].at = CompanyOf(q)]
    BY <1>2, <1>6, <2>1 DEF TakeWarehouses, OnPage
  <2>3. /\ tab'[t].submitting = tab[t].submitting /\ tab'[t].done = tab[t].done
        /\ tab'[t].key = tab[t].key /\ tab'[t].basket = tab[t].basket
        /\ tab'[t].swapped = tab[t].swapped
    BY <1>1, <2>1, <2>2 DEF View
  <2>4. \A p \in Request : ~OnPage(p, "warehouses", t)'
    BY <1>1, <1>4, <1>6 DEF FormOK
  <2>5. ~OnPage(q, "sale", t)
    BY <1>6 DEF OnPage
  <2> QED
    BY <1>1, <1>3, <1>4, <2>3, <2>4, <2>5, FormKept
<1>7. CASE ~OnPage(q, "sale", t) /\ ~OnPage(q, "warehouses", t)
  <2>1. /\ tab'[t].submitting = tab[t].submitting /\ tab'[t].done = tab[t].done
        /\ tab'[t].key = tab[t].key /\ tab'[t].basket = tab[t].basket
        /\ tab'[t].swapped = tab[t].swapped /\ tab'[t].at = tab[t].at
    <3>1. CASE TakeMe(q)
      <4>1. tab' = tab \/ tab' = [tab EXCEPT ![u].me = TRUE]
        BY <1>2, <3>1 DEF TakeMe
      <4> QED
        BY <1>1, <4>1 DEF View
    <3>2. CASE TakeWarehouses(q)
      <4>1. tab' = tab \/ (tab' = [tab EXCEPT ![u].at = CompanyOf(q)] /\ u # t)
        BY <1>2, <1>7, <3>2 DEF TakeWarehouses, OnPage
      <4> QED
        BY <1>1, <4>1
    <3>3. CASE TakeSale(q)
      <4>1. tab'[t] = tab[t]
        BY <1>1, <1>2, <1>7, <3>3 DEF TakeSale, Answered, OnPage
      <4> QED
        BY <4>1
    <3> QED
      BY <3>1, <3>2, <3>3
  <2> QED
    BY <1>1, <1>3, <1>4, <1>7, <2>1, FormKept
<1> QED
  BY <1>5, <1>6, <1>7

\* A request that begins and is no sale is not waited for by a form.
LEMMA OtherRequestKeepsForms ==
  ASSUME SessionInv, NEW q \in Request, tab' = tab, sales' = sales,
         \A p \in Request \ {q} : req'[p] = req[p],
         req[q].op \notin {"sale", "warehouses"}, req'[q].op \notin {"sale", "warehouses"}
  PROVE  \A t \in Tab : FormOK(t)'
<1> SUFFICES ASSUME NEW t \in Tab PROVE FormOK(t)'
  OBVIOUS
<1>1. FormOK(t)
  BY DEF SessionInv
<1>2. \A p \in Request : /\ OnPage(p, "sale", t)' <=> OnPage(p, "sale", t)
                         /\ OnPage(p, "warehouses", t)' <=> OnPage(p, "warehouses", t)
                         /\ OnPage(p, "sale", t) => req'[p].key = req[p].key
  BY DEF OnPage
<1> QED
  BY <1>1, <1>2, FormKept

\* The form that sends a sale is busy.
LEMMA SubmitKeepsForms ==
  ASSUME SessionInv, NEW t \in Tab, NEW q \in Request, NEW b \in Basket, NEW m,
         SubmitSale(t, q, b), Begins(q, m), Begun(m, "sale", t),
         m.key = tab'[t].key, m.key \in 1..MaxKeys
  PROVE  \A u \in Tab : FormOK(u)'
<1>1. /\ MessageOK(q) /\ \A u \in Tab : FormOK(u)
      /\ tab \in [Tab -> View] /\ sales' = sales
  BY DEF SessionInv, SessionTypeOK, SubmitSale, serverRows
<1>2. req[q].op = "none"
  BY <1>1 DEF Begins, MessageOK
<1>3. /\ \A u \in Tab : OnPage(q, "sale", u)' <=> u = t
      /\ \A u \in Tab : /\ ~OnPage(q, "sale", u) /\ ~OnPage(q, "warehouses", u)
                        /\ ~OnPage(q, "warehouses", u)'
      /\ \A p \in Request \ {q}, u \in Tab :
            /\ OnPage(p, "sale", u)' <=> OnPage(p, "sale", u)
            /\ OnPage(p, "warehouses", u)' <=> OnPage(p, "warehouses", u)
            /\ req'[p].key = req[p].key
  BY <1>2 DEF Begins, Begun, OnPage
<1> SUFFICES ASSUME NEW u \in Tab PROVE FormOK(u)'
  OBVIOUS
<1>4. CASE u # t
  <2>1. tab'[u] = tab[u]
    BY <1>1, <1>4 DEF SubmitSale
  <2> QED
    BY <1>1, <1>3, <1>4, <2>1, FormKept
<1>5. CASE u = t
  <2>1. PICK k : k = IF tab[t].key = 0 THEN keys' ELSE tab[t].key
    OBVIOUS
  <2>2. PICK v : v = [tab[t] EXCEPT !.submitting = TRUE, !.key = k, !.basket = b]
    OBVIOUS
  <2>3. /\ tab'[t] = v /\ v.submitting = TRUE /\ v.done = FALSE /\ tab[t].submitting = FALSE
    BY <1>1, <2>1, <2>2 DEF SubmitSale, View
  <2>4. tab[t].at # Nobody
    BY DEF SubmitSale
  <2>5. \A p \in Request : ~OnPage(p, "sale", t) /\ ~OnPage(p, "warehouses", t)
    BY <1>1, <2>3, <2>4 DEF FormOK
  <2>6. \A p \in Request : (OnPage(p, "sale", t)' <=> p = q) /\ ~OnPage(p, "warehouses", t)'
    BY <1>3, <2>5
  <2>7. req'[q].key = tab'[t].key /\ tab'[t].key # 0
    BY SessionAssumption DEF Begins
  <2>8. \A r, p \in Request : \A op \in {"sale", "warehouses"} :
           OnPage(r, op, t)' /\ OnPage(p, op, t)' => p = r
    BY <2>6
  <2> QED
    BY <1>5, <2>3, <2>6, <2>7, <2>8 DEF FormOK
<1> QED
  BY <1>4, <1>5

\* A page that is left waits for nothing; one that is opened, for its warehouses.
LEMMA LeftPageKeepsForms ==
  ASSUME SessionInv, NEW t \in Tab, NEW q \in Request, Reload(t, q) \/ OpenPos(t, q)
  PROVE  \A u \in Tab : FormOK(u)'
<1>1. /\ SessionTypeOK /\ MessageOK(q) /\ \A u \in Tab : FormOK(u)
      /\ tab \in [Tab -> View] /\ sales' = sales /\ req[q].step = "idle"
  BY DEF SessionInv, SessionTypeOK, Reload, OpenPos, Starts, At, serverRows
<1>2. req[q].op = "none"
  BY <1>1 DEF MessageOK
<1>3. /\ \A u \in Tab \ {t} : tab'[u] = tab[u]
      /\ tab'[t].submitting = FALSE /\ tab'[t].done = FALSE
      /\ tab'[t].at = Nobody /\ tab'[t].key = 0
  <2>1. tab' = [tab EXCEPT ![t] = Closed] \/ tab' = [tab EXCEPT ![t] = [Closed EXCEPT !.me = TRUE]]
    BY DEF Reload, OpenPos
  <2> QED
    BY <1>1, <2>1 DEF Closed
<1>4. /\ \A p \in Request : ~OnPage(p, "sale", t)'
      /\ \A p \in Request : OnPage(p, "warehouses", t)' => p = q
      /\ \A p \in Request, u \in Tab \ {t} :
            /\ OnPage(p, "sale", u)' <=> OnPage(p, "sale", u)
            /\ OnPage(p, "warehouses", u)' <=> OnPage(p, "warehouses", u)
            /\ OnPage(p, "sale", u) => req'[p].key = req[p].key
  <2>1. CASE Reload(t, q)
    <3>1. Forgets(t, q)
      BY <1>1, <2>1, ReloadForgets
    <3>2. ASSUME NEW p \in Request, Stays(p), req'[p].page = req[p].page,
                 req'[p].alive = (req[p].alive /\ req[p].tab # t)
          PROVE  /\ ~OnPage(p, "sale", t)' /\ ~OnPage(p, "warehouses", t)'
                 /\ \A u \in Tab \ {t} :
                       /\ OnPage(p, "sale", u)' <=> OnPage(p, "sale", u)
                       /\ OnPage(p, "warehouses", u)' <=> OnPage(p, "warehouses", u)
                       /\ req'[p].key = req[p].key
      BY <3>2 DEF Stays, OnPage
    <3>3. ASSUME Begun(req'[q], "me", t)
          PROVE  /\ ~OnPage(q, "sale", t)' /\ ~OnPage(q, "warehouses", t)'
                 /\ \A u \in Tab \ {t} :
                       /\ ~OnPage(q, "sale", u)' /\ ~OnPage(q, "sale", u)
                       /\ ~OnPage(q, "warehouses", u)' /\ ~OnPage(q, "warehouses", u)
      BY <1>2, <3>3 DEF Begun, OnPage
    <3> QED
      BY <3>1, <3>2, <3>3 DEF Forgets
  <2>2. CASE OpenPos(t, q)
    <3>1. PICK m : Leaves(q, t, m) /\ Begun(m, "warehouses", t)
      BY <1>1, <2>2, OpenPosLeaves
    <3>2. /\ ~OnPage(q, "sale", t)'
          /\ \A u \in Tab \ {t} : /\ ~OnPage(q, "sale", u)' /\ ~OnPage(q, "sale", u)
                                  /\ ~OnPage(q, "warehouses", u)' /\ ~OnPage(q, "warehouses", u)
      BY <1>2, <3>1 DEF Leaves, Begun, OnPage
    <3>3. ASSUME NEW p \in Request \ {q}
          PROVE  /\ ~OnPage(p, "sale", t)' /\ ~OnPage(p, "warehouses", t)'
                 /\ \A u \in Tab \ {t} :
                       /\ OnPage(p, "sale", u)' <=> OnPage(p, "sale", u)
                       /\ OnPage(p, "warehouses", u)' <=> OnPage(p, "warehouses", u)
                       /\ req'[p].key = req[p].key
      BY <3>1, WaitsElsewhere
    <3> QED
      BY <3>2, <3>3
  <2> QED
    BY <2>1, <2>2
<1> SUFFICES ASSUME NEW u \in Tab PROVE FormOK(u)'
  OBVIOUS
<1>5. CASE u = t
  BY <1>3, <1>4, <1>5, FormFree
<1>6. CASE u # t
  BY <1>1, <1>3, <1>4, <1>6, FormKept
<1> QED
  BY <1>5, <1>6

\* The cashier changes what is rung up.
LEMMA RingUpKeepsForms ==
  ASSUME SessionInv, NEW t \in Tab, NEW b, Exchange(t, b) \/ resetForNewSale(t)
  PROVE  \A u \in Tab : FormOK(u)'
<1>1. /\ \A u \in Tab : FormOK(u)
      /\ tab \in [Tab -> View] /\ sales' = sales /\ req' = req
  BY DEF SessionInv, SessionTypeOK, Exchange, resetForNewSale, serverRows
<1>2. \A p \in Request, u \in Tab : /\ OnPage(p, "sale", u)' <=> OnPage(p, "sale", u)
                                    /\ OnPage(p, "warehouses", u)' <=> OnPage(p, "warehouses", u)
                                    /\ req'[p].key = req[p].key
  BY <1>1 DEF OnPage
<1>3. \A u \in Tab \ {t} : tab'[u] = tab[u]
  BY <1>1 DEF Exchange, resetForNewSale
<1> SUFFICES ASSUME NEW u \in Tab PROVE FormOK(u)'
  OBVIOUS
<1>4. CASE u # t
  BY <1>1, <1>2, <1>3, <1>4, FormKept
<1>5. CASE u = t /\ Exchange(t, b)
  <2>1. /\ tab'[t].submitting = tab[t].submitting /\ tab'[t].done = tab[t].done
        /\ tab'[t].key = tab[t].key /\ tab'[t].at = tab[t].at /\ ~tab[t].done
    BY <1>1, <1>5 DEF Exchange, View
  <2> QED
    BY <1>1, <1>2, <1>5, <2>1, FormKept
<1>6. CASE u = t /\ resetForNewSale(t)
  <2>1. /\ tab'[t].submitting = tab[t].submitting /\ tab'[t].done = FALSE
        /\ tab'[t].key = 0 /\ tab'[t].at = tab[t].at /\ tab[t].done
        /\ tab[t].submitting \in BOOLEAN
    BY <1>1, <1>6 DEF resetForNewSale, View
  <2>2. tab[t].submitting = FALSE
    BY <1>1, <2>1 DEF FormOK
  <2>3. \A p \in Request : ~OnPage(p, "sale", t)' /\ ~OnPage(p, "warehouses", t)'
    BY <1>1, <1>2, <2>1, <2>2 DEF FormOK
  <2> QED
    BY <1>6, <2>1, <2>2, <2>3, FormFree
<1> QED
  BY <1>4, <1>5, <1>6

-----------------------------------------------------------------------------
\* Every step but the sending of a sale adds no order, and leaves the baskets alone
\* or gives them up.
LEMMA OrdersOnTheWay ==
  ASSUME SessionInv, NEW q \in Request, OnTheWay(q), sales' = sales \/ createSale(q)
  PROVE  OrdersOK'
<1>1. OrdersOK /\ tab' = tab /\ UNCHANGED <<keys, given, served>>
  BY DEF SessionInv, OnTheWay, till
<1>2. PICK s \in Step, k \in 0..MaxTokens, i \in 0..MaxTokens : GoesOn(q, s, k, i)
  BY DEF OnTheWay
<1>3. \A p \in Request : /\ req'[p].op = req[p].op /\ req'[p].key = req[p].key
                         /\ req'[p].at = req[p].at /\ req'[p].basket = req[p].basket
  BY <1>2 DEF GoesOn, Asks
<1>4. \A r \in sales' : \/ r \in sales
                        \/ /\ createSale(q) /\ req[q].op = "sale"
                           /\ r = [company |-> CompanyOf(q), key |-> req[q].key,
                                   basket |-> req[q].basket, at |-> req[q].at]
                           /\ req[q].at = CompanyOf(q)
  BY DEF createSale
<1>5. Orders' \subseteq Orders
  <2>1. \A r \in sales' : \/ r \in sales
                          \/ \E p \in Request : /\ req[p].op = "sale" /\ req[p].key = r.key
                                                /\ req[p].at = r.at /\ req[p].basket = r.basket
    BY <1>4
  <2> QED
    BY <1>3, <2>1, NoNewOrders
<1>6. SoldWhereShown'
  BY <1>1, <1>4 DEF OrdersOK, SoldWhereShown
<1> QED
  BY <1>1, <1>5, <1>6, OrdersKept

LEMMA OrdersOver ==
  ASSUME SessionInv, NEW q \in Request, Over(q)
  PROVE  OrdersOK'
<1>1. /\ SessionTypeOK /\ OrdersOK /\ MessageOK(q) /\ FormOK(req[q].tab)
      /\ tab \in [Tab -> View] /\ keys \in Nat /\ req[q].tab \in Tab
      /\ UNCHANGED <<sales, keys, served>>
  BY SessionAssumption DEF SessionInv, SessionTypeOK, Over, MessageOK
<1>2. PICK u \in Tab : u = req[q].tab
  BY <1>1
<1>3. \/ EndSession(q) /\ Leaves(q, u, Idle)
      \/ ~EndSession(q) /\ Gone(q)
  BY <1>1, <1>2, SessionAssumption, RequestEnds DEF Over, EndSession, ShowError, Ignore
<1>4. Orders' \subseteq Orders
  <2>1. req'[q].op = "none"
    BY <1>3 DEF Leaves, Gone, Idle
  <2>2. \A p \in Request \ {q} : /\ req'[p].op = req[p].op /\ req'[p].key = req[p].key
                                 /\ req'[p].at = req[p].at /\ req'[p].basket = req[p].basket
    BY <1>3 DEF Leaves, Gone, Stays
  <2> QED
    BY <1>1, <2>1, <2>2, NoNewOrders
<1>5. SoldWhereShown'
  BY <1>1 DEF OrdersOK, SoldWhereShown
<1>6. CASE EndSession(q)
  <2>1. tab' = [tab EXCEPT ![u] = Closed] /\ given' = GivenUp(u)
    BY <1>2, <1>6 DEF EndSession
  <2>2. /\ \A w \in Tab \ {u} : tab'[w] = tab[w]
        /\ tab'[u].key = 0 /\ tab'[u].basket = Nobody /\ tab'[u].done = FALSE
    BY <1>1, <2>1 DEF Closed
  <2> QED
    BY <1>1, <1>4, <1>5, <2>1, <2>2, OrdersEmptied
<1>7. CASE ~EndSession(q)
  <2>1. given' = given /\ (tab' = tab \/ tab' = [tab EXCEPT ![u].submitting = FALSE])
    BY <1>2, <1>7 DEF Over, ShowError, Ignore
  <2>2. \A t \in Tab :
           /\ tab'[t].key = tab[t].key /\ tab'[t].basket = tab[t].basket
           /\ tab'[t].swapped = tab[t].swapped /\ tab'[t].at = tab[t].at
           /\ tab'[t].done = tab[t].done
    BY <1>1, <2>1 DEF View
  <2> QED
    BY <1>1, <1>4, <1>5, <2>1, <2>2, OrdersKept
<1> QED
  BY <1>6, <1>7

LEMMA OrdersAnswered ==
  ASSUME SessionInv, NEW q \in Request, TakeMe(q) \/ TakeWarehouses(q) \/ TakeSale(q)
  PROVE  OrdersOK'
<1>1. /\ OrdersOK /\ Gone(q) /\ \A t \in Tab : FormOK(t)
      /\ tab \in [Tab -> View] /\ UNCHANGED <<sales, keys, given>>
  BY AnswersKeep DEF SessionInv, SessionTypeOK, TakeMe, TakeWarehouses, TakeSale, serverRows, till
<1>2. PICK u \in Tab : u = req[q].tab
  BY AnswersKeep
<1>3. Orders' \subseteq Orders
  <2>1. req'[q].op = "none"
    BY <1>1 DEF Gone, Idle
  <2> QED
    BY <1>1, <2>1, NoNewOrders DEF Gone
<1>4. SoldWhereShown'
  BY <1>1 DEF OrdersOK, SoldWhereShown
<1>5. /\ served \subseteq served'
      /\ \A t \in Tab :
           /\ tab'[t].key = tab[t].key /\ tab'[t].basket = tab[t].basket
           /\ tab'[t].swapped = tab[t].swapped
           /\ tab'[t].at = tab[t].at \/ tab[t].key = 0
           /\ tab'[t].done => tab[t].done \/ tab[t].basket \in served'
  <2>1. CASE TakeMe(q)
    <3>1. served' = served /\ (tab' = tab \/ tab' = [tab EXCEPT ![u].me = TRUE])
      BY <1>2, <2>1 DEF TakeMe, till
    <3> QED
      BY <1>1, <3>1 DEF View
  <2>2. CASE TakeWarehouses(q)
    <3>1. /\ served' = served
          /\ tab' = tab \/ (OnPage(q, "warehouses", u) /\ tab' = [tab EXCEPT ![u].at = CompanyOf(q)])
      BY <1>2, <2>2 DEF TakeWarehouses, OnPage, till
    <3>2. OnPage(q, "warehouses", u) => tab[u].key = 0
      BY <1>1 DEF FormOK
    <3> QED
      BY <1>1, <3>1, <3>2 DEF View
  <2>3. CASE TakeSale(q)
    <3>1. PICK v : v = [tab[u] EXCEPT !.done = TRUE, !.submitting = FALSE]
      OBVIOUS
    <3>2. /\ v.key = tab[u].key /\ v.basket = tab[u].basket /\ v.swapped = tab[u].swapped
          /\ v.at = tab[u].at
      BY <1>1, <3>1 DEF View
    <3>3. \/ tab' = tab /\ served' = served
          \/ tab' = [tab EXCEPT ![u] = v] /\ served' = served \cup {tab[u].basket}
      BY <1>2, <2>3, <3>1 DEF TakeSale
    <3> QED
      BY <1>1, <3>2, <3>3
  <2> QED
    BY <2>1, <2>2, <2>3
<1> QED
  BY <1>1, <1>3, <1>4, <1>5, OrdersKept

LEMMA OrdersOfOthers ==
  ASSUME SessionInv, NEW q \in Request, UNCHANGED <<sales, tab, keys, given, served>>,
         \A p \in Request \ {q} : req'[p] = req[p], req'[q].op # "sale"
  PROVE  OrdersOK'
<1>1. OrdersOK /\ SoldWhereShown'
  BY DEF SessionInv, OrdersOK, SoldWhereShown
<1>2. Orders' \subseteq Orders
  BY NoNewOrders
<1> QED
  BY <1>1, <1>2, OrdersKept

LEMMA OrdersOfLeftPages ==
  ASSUME SessionInv, NEW t \in Tab, NEW q,
         (q \in Request /\ (Reload(t, q) \/ OpenPos(t, q))) \/ resetForNewSale(t)
  PROVE  OrdersOK'
<1>1. /\ SessionTypeOK /\ OrdersOK /\ tab \in [Tab -> View] /\ keys \in Nat
      /\ UNCHANGED <<sales, keys, served>>
  BY SessionAssumption
     DEF SessionInv, SessionTypeOK, Reload, OpenPos, resetForNewSale, serverRows, till
<1>2. Orders' \subseteq Orders
  <2>1. \A p \in Request : req'[p].op = "sale" =>
           /\ req[p].op = "sale" /\ req'[p].key = req[p].key
           /\ req'[p].at = req[p].at /\ req'[p].basket = req[p].basket
    <3>1. CASE q \in Request /\ Reload(t, q)
      BY <1>1, <3>1, ReloadForgets DEF Forgets, Stays, Begun
    <3>2. CASE q \in Request /\ OpenPos(t, q)
      <4>1. PICK m : Leaves(q, t, m) /\ Begun(m, "warehouses", t)
        BY <1>1, <3>2, OpenPosLeaves
      <4> QED
        BY <4>1 DEF Leaves, Stays, Begun
    <3>3. CASE resetForNewSale(t)
      BY <3>3 DEF resetForNewSale
    <3> QED
      BY <3>1, <3>2, <3>3
  <2> QED
    BY <1>1, <2>1, NoNewOrders
<1>3. SoldWhereShown'
  BY <1>1 DEF OrdersOK, SoldWhereShown
<1>4. /\ \A u \in Tab \ {t} : tab'[u] = tab[u]
      /\ tab'[t].key = 0 /\ tab'[t].basket = Nobody /\ tab'[t].done = FALSE
      /\ given' = GivenUp(t) \/ (given' = given /\ tab[t].done)
  <2>1. CASE Reload(t, q) \/ OpenPos(t, q)
    <3>1. given' = GivenUp(t)
          /\ (tab' = [tab EXCEPT ![t] = Closed] \/ tab' = [tab EXCEPT ![t] = [Closed EXCEPT !.me = TRUE]])
      BY <2>1 DEF Reload, OpenPos
    <3> QED
      BY <1>1, <3>1 DEF Closed
  <2>2. CASE resetForNewSale(t)
    BY <1>1, <2>2 DEF resetForNewSale, View, till
  <2> QED
    BY <2>1, <2>2
<1> QED
  BY <1>1, <1>2, <1>3, <1>4, OrdersEmptied

-----------------------------------------------------------------------------
LEMMA InitSessionInv == SessionInit => SessionInv
<1> SUFFICES ASSUME SessionInit PROVE SessionInv
  OBVIOUS
<1>1. PICK c \in Company :
         token = [k \in Token |-> IF k = 1 THEN [state |-> "live", company |-> c] ELSE Unissued]
  <2>1. (CHOOSE c \in Company : TRUE) \in Company
    BY SessionAssumption
  <2> QED
    BY <2>1 DEF SessionInit
<1>2. /\ 1 \in Token /\ MaxTokens \in Nat /\ 1 <= MaxTokens
      /\ MaxKeys \in Nat /\ MaxEvents \in Nat /\ MaxLosses \in Nat
  BY SessionAssumption DEF Token
<1>3. /\ token \in [Token -> [state : State, company : Company \cup {Nobody}]]
      /\ token[1].state = "live" /\ token[1].company = c
      /\ \A k \in Token \ {1} : token[k].state = "none"
  BY <1>1, <1>2 DEF Unissued, State
<1>4. Issued = {1} /\ Issued = 1..1
  BY <1>2, <1>3 DEF Issued
<1>5. /\ fresh = {1} /\ sales = {} /\ storage = 1 /\ req = [q \in Request |-> Idle]
      /\ losses = 0 /\ events = 0 /\ keys = 0 /\ cut = FALSE /\ given = {} /\ served = {}
  BY DEF SessionInit
<1>6. \A q \in Request : req[q] = Idle
  BY <1>5
<1>7. \A t \in Tab : /\ tab[t] \in View
                     /\ tab[t].basket = Nobody /\ tab[t].key = 0
                     /\ tab[t].submitting = FALSE /\ tab[t].done = FALSE
  <2>1. ASSUME NEW d \in Company
        PROVE  /\ Ready(d) \in View /\ Ready(d).basket = Nobody /\ Ready(d).key = 0
               /\ Ready(d).submitting = FALSE /\ Ready(d).done = FALSE
    <3>1. Closed \in View /\ Closed.basket = Nobody /\ Closed.key = 0
          /\ Closed.submitting = FALSE /\ Closed.done = FALSE
      BY Elements DEF Closed
    <3>2. Ready(d) = [Closed EXCEPT !.me = TRUE, !.at = d]
      BY DEF Ready
    <3> QED
      BY <2>1, <3>1, <3>2 DEF View
  <2>2. /\ Closed \in View /\ Closed.basket = Nobody /\ Closed.key = 0
        /\ Closed.submitting = FALSE /\ Closed.done = FALSE
    BY Elements DEF Closed
  <2>3. PICK d \in Company : tab \in [Tab -> {Closed, Ready(d)}]
    <3>1. (CHOOSE d \in Company : TRUE) \in Company
      BY SessionAssumption
    <3> QED
      BY <3>1 DEF SessionInit
  <2> QED
    BY <2>1, <2>2, <2>3
<1>8. SessionTypeOK
  <2>1. tab \in [Tab -> View]
    <3>1. tab = [t \in Tab |-> tab[t]]
      BY DEF SessionInit
    <3> QED
      BY <1>7, <3>1
  <2>2. req \in [Request -> Message]
    BY <1>5, Elements
  <2>3. /\ fresh \subseteq Token /\ sales \subseteq Sale
        /\ storage \in 0..MaxTokens /\ token[storage].state # "none"
    BY <1>2, <1>3, <1>5
  <2>4. /\ losses \in 0..MaxLosses /\ events \in 0..MaxEvents /\ keys \in 0..MaxKeys
    BY <1>2, <1>5
  <2>5. cut \in BOOLEAN /\ given \subseteq Basket /\ served \subseteq Basket
    BY <1>5
  <2> QED
    BY <1>3, <2>1, <2>2, <2>3, <2>4, <2>5 DEF SessionTypeOK
<1>9. \A q \in Request : /\ req[q].step = "idle" /\ req[q].op = "none" /\ req[q].tab = Nobody
                         /\ req[q].refresh = 0 /\ req[q].issued = 0
  BY <1>6 DEF Idle
<1>10. TokensOK
  <2>1. 1 \in 0..MaxTokens
    BY <1>2
  <2>2. \E n \in 0..MaxTokens : Issued = 1..n
    BY <1>4, <2>1
  <2> QED
    BY <1>3, <1>4, <1>5, <1>9, <2>2 DEF TokensOK, Refers
<1>11. RenewalsOK
  BY <1>3, <1>5, <1>9 DEF RenewalsOK, Renewing, Holds, StoredTokenIsCurrent
<1>12. \A q \in Request : MessageOK(q)
  BY <1>9 DEF MessageOK
<1>13. \A t \in Tab : FormOK(t)
  <2>1. \A q \in Request, t \in Tab : ~OnPage(q, "sale", t) /\ ~OnPage(q, "warehouses", t)
    BY <1>9 DEF OnPage
  <2> QED
    BY <1>7, <2>1 DEF FormOK
<1>14. OrdersOK
  <2>1. Orders = {}
    BY <1>5, <1>9 DEF Orders
  <2>2. \A t \in Tab : PageOK(t)
    BY <1>5, <1>7 DEF PageOK
  <2> QED
    BY <1>5, <2>1, <2>2 DEF OrdersOK, SoldWhereShown
<1> QED
  BY <1>8, <1>10, <1>11, <1>12, <1>13, <1>14 DEF SessionInv

\* One step, by the actions of the specification.
LEMMA AnswerSessionInv ==
  ASSUME SessionInv, NEW q \in Request, Answer(q) \/ Take(q) \/ LoseMessage(q)
  PROVE  SessionInv'
<1>1. SessionTypeOK
  BY DEF SessionInv
<1>2. CASE Over(q)
  BY <1>2, OverKeepsTokens, OverKeepsForms, OrdersOver DEF SessionInv
<1>3. CASE login(q) \/ issueTokens(q)
  <2>1. sales' = sales
    BY <1>3 DEF login, issueTokens
  <2> QED
    BY <1>3, <2>1, IssueKeeps, OnTheWayKeeps, OrdersOnTheWay DEF SessionInv
<1>4. CASE createSale(q) \/ logout(q) \/ ReadToken(q) \/ Break(q)
  <2>1. sales' = sales \/ createSale(q)
    BY <1>4 DEF logout, ReadToken, Break, serverRows
  <2> QED
    BY <1>4, <2>1, RowsKeep, OnTheWayKeeps, OrdersOnTheWay DEF SessionInv
<1>5. CASE Rotate(q)
  <2>1. sales' = sales
    BY <1>5 DEF Rotate
  <2> QED
    BY <1>5, <2>1, RotateKeeps, OnTheWayKeeps, OrdersOnTheWay DEF SessionInv
<1>6. CASE Renews(q) \/ TakeRefresh(q)
  <2>1. sales' = sales
    BY <1>6 DEF Renews, TakeRefresh, serverRows
  <2> QED
    BY <1>6, <2>1, BrowserKeeps, OnTheWayKeeps, OrdersOnTheWay DEF SessionInv
<1>7. CASE TakeMe(q) \/ TakeWarehouses(q) \/ TakeSale(q)
  BY <1>7, AnswersKeep, AnswersKeepForms, OrdersAnswered DEF SessionInv
<1>8. CASE TakeLogin(q)
  <2>1. UNCHANGED <<sales, tab, keys, given, served>>
    BY <1>8 DEF TakeLogin, serverRows, till
  <2>2. req[q].op = "login" /\ req'[q].op = "me" /\ \A p \in Request \ {q} : req'[p] = req[p]
    BY <1>8, LoginKeeps DEF TakeLogin, Answered, Begun
  <2> QED
    BY <1>8, <2>1, <2>2, LoginKeeps, OrdersOfOthers, OtherRequestKeepsForms DEF SessionInv
<1>9. TurnAway(q) => Over(q) \/ Renews(q)
  BY <1>1, StepsOver DEF Renews
<1> QED
  BY <1>1, <1>2, <1>3, <1>4, <1>5, <1>6, <1>7, <1>8, <1>9, StepsOver DEF Answer, Take

LEMMA CashierSessionInv ==
  ASSUME SessionInv, Cashier
  PROVE  SessionInv'
<1>1. /\ SessionTypeOK /\ OrdersOK /\ \A q \in Request : MessageOK(q)
      /\ Company # {} /\ Unserved \subseteq Basket
  BY SessionAssumption DEF SessionInv, Unserved
<1>2. ASSUME NEW t \in Tab, NEW q \in Request, NEW b \in Basket, SubmitSale(t, q, b)
      PROVE  SessionInv'
  <2>1. PICK m : /\ Begins(q, m) /\ Begun(m, "sale", t)
                 /\ m.at = tab[t].at /\ m.at \in Company /\ m.basket = b
                 /\ m.key = tab'[t].key /\ m.key \in 1..MaxKeys
    <3>1. \A c \in Company : ~Login(t, q, c) /\ ~Logout(t, q)
      <4>1. tab'[t].submitting = TRUE /\ tab[t].submitting = FALSE
        BY <1>1, <1>2 DEF SubmitSale, SessionTypeOK, View
      <4>2. tab' # tab
        BY <4>1
      <4> QED
        BY <4>2 DEF Login, Logout
    <3> QED
      BY <1>1, <1>2, <3>1, CashierAsks
  <2>2. OrdersOK'
    BY <1>1, <1>2, <2>1, OrdersSubmitted
  <2>3. \A u \in Tab : FormOK(u)'
    BY <1>2, <2>1, SubmitKeepsForms
  <2> QED
    BY <1>1, <1>2, <2>2, <2>3, CashierAsks DEF SessionInv
<1>3. ASSUME NEW t \in Tab, NEW q \in Request, NEW c \in Company,
             Login(t, q, c) \/ Logout(t, q)
      PROVE  SessionInv'
  <2>1. UNCHANGED <<sales, tab, keys, given, served>>
    BY <1>3 DEF Login, Logout, serverRows
  <2>2. PICK m : Begins(q, m) /\ (Begun(m, "login", t) \/ Begun(m, "logout", t))
    <3>1. PICK b : b = Nobody
      OBVIOUS
    <3>2. PICK m : /\ Begins(q, m)
                   /\ \/ Begun(m, "login", t) \/ Begun(m, "logout", t)
                      \/ SubmitSale(t, q, b)
      BY <1>3, CashierAsks
    <3>3. ~SubmitSale(t, q, b)
      <4>1. SubmitSale(t, q, b) => tab'[t].submitting = TRUE /\ tab[t].submitting = FALSE
        BY <1>1 DEF SubmitSale, SessionTypeOK, View
      <4> QED
        BY <2>1, <4>1
    <3> QED
      BY <3>2, <3>3
  <2>3. /\ req[q].op = "none" /\ req'[q].op \in {"login", "logout"}
        /\ \A p \in Request \ {q} : req'[p] = req[p]
    BY <1>1, <2>2 DEF Begins, Begun, MessageOK
  <2> QED
    BY <1>3, <2>1, <2>3, CashierAsks, OrdersOfOthers, OtherRequestKeepsForms DEF SessionInv
<1>4. ASSUME NEW t \in Tab, NEW q \in Request, Reload(t, q) \/ OpenPos(t, q)
      PROVE  SessionInv'
  BY <1>4, PagesKeep, LeftPageKeepsForms, OrdersOfLeftPages DEF SessionInv
<1>5. ASSUME NEW t \in Tab, NEW b \in Unserved, Exchange(t, b)
      PROVE  SessionInv'
  BY <1>1, <1>5, PagesKeep, RingUpKeepsForms, OrdersExchanged DEF SessionInv
<1>6. ASSUME NEW t \in Tab, resetForNewSale(t)
      PROVE  SessionInv'
  BY <1>6, PagesKeep, RingUpKeepsForms, OrdersOfLeftPages DEF SessionInv
<1> QED
  BY <1>1, <1>2, <1>3, <1>4, <1>5, <1>6 DEF Cashier

LEMMA StutterSessionInv == SessionInv /\ UNCHANGED svars => SessionInv'
<1> SUFFICES ASSUME SessionInv, UNCHANGED svars PROVE SessionInv'
  OBVIOUS
<1>1. /\ token' = token /\ fresh' = fresh /\ sales' = sales /\ storage' = storage
      /\ tab' = tab /\ req' = req /\ losses' = losses /\ events' = events /\ keys' = keys
      /\ cut' = cut /\ given' = given /\ served' = served
  BY DEF svars, serverRows, till
<1>2. SessionTypeOK'
  BY <1>1 DEF SessionInv, SessionTypeOK
<1>3. ASSUME NEW p \in Request
      PROVE  KeptOrNew(p) /\ MessageOK(p)
  BY <1>1 DEF SessionInv, KeptOrNew, Stays
<1>4. TokensOK' /\ RenewalsOK' /\ \A p \in Request : MessageOK(p)'
  BY <1>1, <1>3, QuietKeeps DEF SessionInv, serverRows
<1>5. \A t \in Tab : FormOK(t)'
  BY <1>1 DEF SessionInv, FormOK, OnPage
<1>6. OrdersOK'
  <2>1. Orders' \subseteq Orders
    BY <1>1, NoNewOrders
  <2>2. OrdersOK /\ SoldWhereShown'
    BY <1>1 DEF SessionInv, OrdersOK, SoldWhereShown
  <2> QED
    BY <1>1, <2>1, <2>2, OrdersKept
<1> QED
  BY <1>2, <1>4, <1>5, <1>6 DEF SessionInv

LEMMA StepSessionInv == SessionInv /\ [SessionNext]_svars => SessionInv'
<1>1. ASSUME SessionInv, SessionNext PROVE SessionInv'
  <2>1. CASE \E q \in Request : Answer(q) \/ Take(q) \/ LoseMessage(q)
    BY <1>1, <2>1, AnswerSessionInv
  <2>2. CASE Cashier
    BY <1>1, <2>2, CashierSessionInv
  <2> QED
    BY <1>1, <2>1, <2>2 DEF SessionNext
<1> QED
  BY <1>1, StutterSessionInv

LEMMA SessionInvariance == SessionSpec => []SessionInv
  BY InitSessionInv, StepSessionInv, PTL DEF SessionSpec

\* However renewals, refusals, lost answers and reloads cross: a page that shows a
\* completed sale shows a recorded one (createSale), a form that is busy waits for an
\* answer its page will take (PosPage.tsx).
THEOREM TillAlwaysTellsTheTruth == SessionSpec => []TillTellsTheTruth
<1>1. SessionInv => TillTellsTheTruth
  <2> SUFFICES ASSUME SessionInv PROVE TillTellsTheTruth
    OBVIOUS
  <2>1. CompletedIsRecorded
    BY DEF SessionInv, FormOK, CompletedIsRecorded
  <2>2. SubmittingIsUnderWay
    BY DEF SessionInv, FormOK, SubmittingIsUnderWay, OnPage
  <2> QED
    BY <2>1, <2>2 DEF TillTellsTheTruth, SessionInv
<1> QED
  BY <1>1, SessionInvariance, PTL

\* A basket is sold once, in the company its page had loaded, however often the sale
\* was sent (the clientReferenceId of createSale), unless its page was left.
THEOREM BasketsSoldOnceWhereShown == SessionSpec => []SoldOnceWhereShown
<1>1. SessionInv => SoldOnceWhereShown
  <2> SUFFICES ASSUME SessionInv PROVE SoldOnceWhereShown
    OBVIOUS
  <2>1. SoldWhereShown /\ sales \subseteq Sale
    BY DEF SessionInv, OrdersOK, SessionTypeOK
  <2>2. ASSUME NEW b \in Basket \ given, NEW r \in sales, NEW s \in sales,
               r.basket = b, s.basket = b
        PROVE  r = s
    <3>1. r \in Sale /\ s \in Sale
      BY <2>1
    <3>2. PICK o \in [key : 1..MaxKeys, at : Company, basket : Basket] :
             o = [key |-> r.key, at |-> r.at, basket |-> r.basket]
      BY <3>1 DEF Sale
    <3>3. PICK p \in [key : 1..MaxKeys, at : Company, basket : Basket] :
             p = [key |-> s.key, at |-> s.at, basket |-> s.basket]
      BY <3>1 DEF Sale
    <3>4. o \in Orders /\ p \in Orders /\ o.basket = b /\ p.basket = b
      BY <2>2, <3>2, <3>3 DEF Orders
    <3>5. o = p
      BY <3>4 DEF SessionInv, OrdersOK
    <3>6. r.key = s.key /\ r.at = s.at /\ r.company = r.at /\ s.company = s.at
      BY <2>1, <3>2, <3>3, <3>5 DEF SoldWhereShown
    <3> QED
      BY <2>2, <3>1, <3>6 DEF Sale
  <2>3. ASSUME NEW b \in Basket \ given
        PROVE  Cardinality({s \in sales : s.basket = b}) <= 1
    <3>1. CASE {s \in sales : s.basket = b} = {}
      BY <3>1, FS_EmptySet
    <3>2. CASE {s \in sales : s.basket = b} # {}
      <4>1. PICK r \in sales : r.basket = b
        BY <3>2
      <4>2. {s \in sales : s.basket = b} = {r}
        BY <2>2, <4>1
      <4>3. Cardinality({r}) = 1
        BY FS_Singleton
      <4> QED
        BY <4>2, <4>3
    <3> QED
      BY <3>1, <3>2
  <2> QED
    BY <2>1, <2>3 DEF SoldOnceWhereShown, BasketSoldOnce
<1> QED
  BY <1>1, SessionInvariance, PTL

\* The refresh token the browser keeps was not replaced, whichever renewals of its
\* tabs cross, fail half-way or lose their answer (refresh, client.ts), unless a tab
\* was reloaded while it renewed.
THEOREM StoredTokenStaysCurrent == SessionSpec => []StoredTokenIsCurrent
<1>1. SessionInv => StoredTokenIsCurrent
  BY DEF SessionInv, RenewalsOK
<1> QED
  BY <1>1, SessionInvariance, PTL
=============================================================================
