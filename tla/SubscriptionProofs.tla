------------------------- MODULE SubscriptionProofs -------------------------
(***************************************************************************)
(* Theorems about Subscription, for any number of people, branches, plans  *)
(* and of requests at the same time, and any changes by administrators.    *)
(*                                                                         *)
(* A request that counted holds the row of subscriptions until it ends, so *)
(* what it counted stands when it inserts (RequestOK); a request that did  *)
(* not count a cashier relies on a role that only a revocation takes away, *)
(* and `raced' says that one did.                                          *)
(***************************************************************************)
EXTENDS Subscription, FiniteSetTheorems, TLAPS

RequestRow ==
    [step : Step,
     op : {"none", "createUser", "assignRole", "revokeRole", "createBranch", "connect"},
     who : Person \cup {Nobody}, at : Scope, role : {"none", "cashier"},
     limit : Nat \cup {Null}, cashiers : Nat \cup {Null}, known : BOOLEAN, price : Nat]

SubscriptionRow ==
    [exists : BOOLEAN, status : Status, over : BOOLEAN, plan : Plan,
     override : [Resource -> Override \cup {Null}], sells : {"unset", "no"}]

Types ==
    /\ plan \in [Plan -> Terms]
    /\ sub \in SubscriptionRow
    /\ member \subseteq Person \cup {System}
    /\ role \in [Person \cup {System} -> [Scope -> Nat]]
    /\ branches \in Nat \ {0}
    /\ lock \in Request \cup {Nobody}
    /\ req \in [Request -> RequestRow]
    /\ paid \in Nat \cup {Null}
    /\ asked \in 0..MaxEvents /\ admin \in 0..MaxAdmin
    /\ lost \in BOOLEAN /\ raced \in BOOLEAN

\* Requests that are about to insert a row of p in scope s.
Inserting(p, s) ==
    {q \in Request : req[q].step = "insert" /\ req[q].who = p /\ req[q].at = s}

\* Roles are of members.  In a branch a role is there once; everywhere, as often
\* as requests passed the check before the first of them inserted.
RolesOK ==
    \A p \in Person \cup {System} : \A s \in Scope :
        /\ role[p][s] > 0 => p \in member \ {System}
        /\ s \in Branch => role[p][s] <= 1
        /\ role[p][s] + Cardinality(Inserting(p, s)) <= Cardinality(Request)

\* Where a new user is, whose membership is not committed.
Joining == {"assign", "lock", "check", "insert"}

\* What a request relies on: that it alone counts, and what it saw.
RequestOK(q) ==
    LET r == req[q] IN
    /\ r.step = "make" => lock = q /\ r.op \in {"createUser", "createBranch"}
    /\ r.step = "make" /\ r.op = "createBranch" /\ r.limit # Null => branches < r.limit
    /\ r.op = "createUser" => r.who \in Person
    /\ r.op = "createUser" /\ r.step \in Joining \cup {"make"} =>
          /\ lock = q
          /\ r.limit # Null => Cardinality(member \ {System}) < r.limit
    /\ r.op = "createUser" /\ r.step \in Joining => r.who \notin member
    /\ r.op \in {"assignRole", "revokeRole"} => r.who \in member \ {System}
    /\ r.step = "assign" => r.op = "createUser"
    /\ r.step \in Joining => r.op \in {"assignRole", "createUser"}
    /\ r.step = "lock" => ~r.known
    /\ r.step \in {"check", "insert"} /\ r.known /\ ~raced => r.who \in Cashiers
    /\ r.step \in {"check", "insert"} /\ ~r.known =>
          /\ lock = q
          /\ ~raced /\ r.cashiers # Null => Cardinality(Cashiers) < r.cashiers
    /\ r.step \in {"pay", "paying"} => r.price \in due

RequestsOK == \A q \in Request : RequestOK(q)

\* The inductive invariant.
SubInv == Types /\ RolesOK /\ RequestsOK /\ CommissionFromActivation

-----------------------------------------------------------------------------
\* Members and cashiers can be counted.
LEMMA PeopleFinite ==
  ASSUME Types
  PROVE  /\ IsFiniteSet(member) /\ IsFiniteSet(Cashiers) /\ IsFiniteSet(member \ {System})
         /\ Cardinality(member) \in Nat /\ Cardinality(Cashiers) \in Nat
         /\ Cardinality(member \ {System}) \in Nat
         /\ Cardinality(member \ {System}) <= Cardinality(member)
<1>1. IsFiniteSet(Person \cup {System})
  BY SubscriptionAssumption, FS_AddElement
<1>2. IsFiniteSet(member)
  BY <1>1, FS_Subset DEF Types
<1>3. Cashiers \subseteq member /\ member \ {System} \subseteq member
  BY DEF Cashiers
<1>4. /\ IsFiniteSet(Cashiers) /\ IsFiniteSet(member \ {System})
      /\ Cardinality(member \ {System}) <= Cardinality(member)
  BY <1>2, <1>3, FS_Subset
<1> QED
  BY <1>2, <1>4, FS_CardinalityType

\* One more counts one more.
LEMMA OneMore ==
  ASSUME NEW S, IsFiniteSet(S), NEW x
  PROVE  Cardinality(S) \in Nat /\ Cardinality(S \cup {x}) \in Nat
         /\ Cardinality(S \cup {x}) <= Cardinality(S) + 1
<1>1. Cardinality(S) \in Nat
  BY FS_CardinalityType
<1> QED
  BY <1>1, FS_AddElement

\* Requests can be counted, one at the least.
LEMMA RequestsFinite ==
  ASSUME NEW p, NEW s, NEW q \in Request
  PROVE  /\ IsFiniteSet(Inserting(p, s))
         /\ Cardinality(Inserting(p, s)) \in Nat /\ Cardinality(Request) \in Nat
         /\ Cardinality(Inserting(p, s)) <= Cardinality(Request)
         /\ Cardinality(Request) >= 1
<1>1. IsFiniteSet(Request) /\ Inserting(p, s) \subseteq Request
  BY SubscriptionAssumption DEF Inserting
<1>2. Cardinality(Request) \in Nat /\ Cardinality(Request) # 0
  BY <1>1, FS_CardinalityType, FS_EmptySet
<1> QED
  BY <1>1, <1>2, FS_Subset, FS_CardinalityType

\* A company begins with a trial, or without a subscription.
LEMMA FreshType == NoSubscription \in SubscriptionRow /\ Fresh \in SubscriptionRow
<1>1. [r \in Resource |-> Null] \in [Resource -> Override \cup {Null}]
  OBVIOUS
<1>2. NoSubscription \in SubscriptionRow
  BY <1>1, SubscriptionAssumption DEF NoSubscription, SubscriptionRow, Status
<1> QED
  BY <1>2 DEF Fresh, SubscriptionRow

\* A limit is a number or none.
LEMMA LimitType ==
  ASSUME Types
  PROVE  \A r \in Resource : Limit(r) \in Nat \cup {Null}
<1>1. Row \in Terms
  BY DEF Types, Row, SubscriptionRow
<1>2. \A r \in Resource : Row[r] \in Nat \cup {Null}
  BY <1>1, SubscriptionAssumption DEF Resource
<1> QED
  BY <1>2, SubscriptionAssumption DEF Types, Limit, SubscriptionRow

\* A step of q leaves what the other requests rely on.
LEMMA OthersKept ==
  ASSUME SubInv, NEW q \in Request, NEW r \in RequestRow,
         req' = [req EXCEPT ![q] = r],
         lock' = lock \/ lock \in {q, Nobody},
         member \subseteq member',
         member' \ {System} = member \ {System} \/ lock = q,
         branches' = branches \/ lock = q,
         due \subseteq due',
         raced => raced',
         ~raced' => \A o \in Request \ {q} :
                       req[o].known /\ req[o].who \in Cashiers => req[o].who \in Cashiers',
         ~raced' => lock = q \/ Cashiers' \subseteq Cashiers,
         RequestOK(q)'
  PROVE  RequestsOK'
<1> SUFFICES ASSUME NEW o \in Request \ {q} PROVE RequestOK(o)'
  BY DEF RequestsOK
<1>1. RequestOK(o) /\ req'[o] = req[o] /\ o # Nobody
  BY SubscriptionAssumption DEF SubInv, RequestsOK, Types
<1>2. lock = o => /\ lock' = o /\ member' \ {System} = member \ {System} /\ branches' = branches
                  /\ ~raced' => Cashiers' \subseteq Cashiers
  BY <1>1
<1>3. Cashiers' \subseteq Cashiers =>
         Cardinality(Cashiers') <= Cardinality(Cashiers) /\ Cardinality(Cashiers') \in Nat
               /\ Cardinality(Cashiers) \in Nat
  BY PeopleFinite, FS_Subset, FS_CardinalityType DEF SubInv
<1>4. req[o].limit \in Nat \cup {Null} /\ req[o].cashiers \in Nat \cup {Null}
  BY DEF SubInv, Types, RequestRow
<1> DEFINE d == req[o]
           C == Cashiers
           M == member \ {System}
<1>5. /\ d.step = "make" => lock' = o /\ d.op \in {"createUser", "createBranch"}
      /\ d.step = "make" /\ d.op = "createBranch" /\ d.limit # Null => branches' < d.limit
      /\ d.op = "createUser" /\ d.step \in Joining \cup {"make"} =>
            lock' = o /\ (d.limit # Null => Cardinality(M') < d.limit)
  BY <1>1, <1>2 DEF RequestOK
<1>9. d.op = "createUser" /\ d.step \in Joining => d.who \notin member'
  <2> SUFFICES ASSUME d.op = "createUser", d.step \in Joining PROVE d.who \notin member'
    OBVIOUS
  <2>1. lock = o /\ d.who \in Person /\ d.who \notin member
    BY <1>1 DEF RequestOK
  <2> QED
    BY <1>2, <2>1, SubscriptionAssumption
<1>6. d.step \in {"check", "insert"} /\ d.known /\ ~raced' => d.who \in C'
  BY <1>1 DEF RequestOK
<1>7. d.step \in {"check", "insert"} /\ ~d.known =>
          lock' = o /\ (~raced' /\ d.cashiers # Null => Cardinality(C') < d.cashiers)
  <2> SUFFICES ASSUME d.step \in {"check", "insert"}, ~d.known
               PROVE  lock' = o /\ (~raced' /\ d.cashiers # Null => Cardinality(C') < d.cashiers)
    OBVIOUS
  <2>1. lock = o /\ (~raced /\ d.cashiers # Null => Cardinality(C) < d.cashiers)
    BY <1>1 DEF RequestOK
  <2>2. ~raced' => ~raced /\ C' \subseteq C
    BY <1>2, <2>1
  <2> QED
    BY <1>2, <1>3, <1>4, <2>1, <2>2
<1>8. /\ d.op = "createUser" => d.who \in Person
      /\ d.op \in {"assignRole", "revokeRole"} => d.who \in M'
      /\ d.step = "assign" => d.op = "createUser"
      /\ d.step \in Joining => d.op \in {"assignRole", "createUser"}
      /\ d.step = "lock" => ~d.known
      /\ d.step \in {"pay", "paying"} => d.price \in due'
  BY <1>1 DEF RequestOK
<1> QED
  BY <1>1, <1>5, <1>6, <1>7, <1>8, <1>9 DEF RequestOK

\* Nothing is about to be inserted that was not, unless it is r.
LEMMA InsertingKept ==
  ASSUME SubInv, NEW q \in Request, NEW r \in RequestRow, req' = [req EXCEPT ![q] = r],
         NEW p, NEW s, r.step = "insert" => p # r.who \/ s # r.at
  PROVE  /\ IsFiniteSet(Inserting(p, s)') /\ Cardinality(Inserting(p, s))' \in Nat
         /\ Cardinality(Inserting(p, s))' <= Cardinality(Inserting(p, s))
<1>1. Inserting(p, s)' \subseteq Inserting(p, s)
  BY DEF Inserting, SubInv, Types
<1>2. IsFiniteSet(Inserting(p, s))
  BY RequestsFinite
<1> QED
  BY <1>1, <1>2, FS_Subset, FS_CardinalityType

\* Roles stay; one that is about to be inserted was not there.
LEMMA RolesKept ==
  ASSUME SubInv, NEW q \in Request, NEW r \in RequestRow, req' = [req EXCEPT ![q] = r],
         role' = role, member \subseteq member',
         r.step = "insert" => r.who \in Person /\ role[r.who][r.at] = 0
  PROVE  RolesOK'
<1> SUFFICES ASSUME NEW p \in Person \cup {System}, NEW s \in Scope
             PROVE  /\ role[p][s] > 0 => p \in member' \ {System}
                    /\ s \in Branch => role[p][s] <= 1
                    /\ role[p][s] + Cardinality(Inserting(p, s))' <= Cardinality(Request)
  BY DEF RolesOK
<1>1. /\ role[p][s] > 0 => p \in member \ {System}
      /\ s \in Branch => role[p][s] <= 1
      /\ role[p][s] + Cardinality(Inserting(p, s)) <= Cardinality(Request)
      /\ role[p][s] \in Nat
  BY DEF SubInv, RolesOK, Types
<1>2. CASE r.step = "insert" /\ p = r.who /\ s = r.at
  <2>1. IsFiniteSet(Request) /\ Inserting(p, s)' \subseteq Request
    BY SubscriptionAssumption DEF Inserting
  <2>2. Cardinality(Inserting(p, s))' \in Nat /\ Cardinality(Request) \in Nat
        /\ Cardinality(Inserting(p, s))' <= Cardinality(Request)
    BY <2>1, FS_Subset, FS_CardinalityType
  <2> QED
    BY <1>1, <1>2, <2>2
<1>3. CASE ~(r.step = "insert" /\ p = r.who /\ s = r.at)
  <2>1. /\ Cardinality(Inserting(p, s))' \in Nat
        /\ Cardinality(Inserting(p, s))' <= Cardinality(Inserting(p, s))
    BY <1>3, InsertingKept
  <2>2. Cardinality(Inserting(p, s)) \in Nat /\ Cardinality(Request) \in Nat
    BY RequestsFinite
  <2> QED
    BY <1>1, <2>1, <2>2
<1> QED
  BY <1>2, <1>3

\* A step of q that changes no member, no role and no branch.
LEMMA QuietKeeps ==
  ASSUME SubInv, NEW q \in Request, NEW r \in RequestRow, Go(q, r),
         UNCHANGED <<company, raced>>, lock' = lock \/ lock \in {q, Nobody},
         due \subseteq due', Types', CommissionFromActivation', RequestOK(q)',
         r.step = "insert" => r.who \in Person /\ role[r.who][r.at] = 0
  PROVE  SubInv'
<1>1. req' = [req EXCEPT ![q] = r] /\ UNCHANGED <<member, role, branches, raced>>
  BY DEF Go, company
<1>2. Cashiers' = Cashiers /\ Cashiers' \subseteq Cashiers
  BY <1>1 DEF Cashiers
<1>5. /\ member \subseteq member' /\ member' \ {System} = member \ {System}
      /\ \A o \in Request \ {q} :
            req[o].known /\ req[o].who \in Cashiers => req[o].who \in Cashiers'
  BY <1>1, <1>2
<1>6. /\ member' \ {System} = member \ {System} \/ lock = q
      /\ branches' = branches \/ lock = q
      /\ raced => raced'
      /\ ~raced' => lock = q \/ Cashiers' \subseteq Cashiers
  BY <1>1, <1>2
<1>3. RequestsOK'
  BY <1>1, <1>5, <1>6, OthersKept
<1>4. RolesOK'
  BY <1>1, RolesKept
<1> QED
  BY <1>3, <1>4 DEF SubInv

\* What an administrator changes, and time.
LEMMA AdministeredKeeps ==
  ASSUME SubInv, UNCHANGED <<company, lock, req, due, raced, paid>>, Types'
  PROVE  SubInv'
<1>1. Cashiers' = Cashiers /\ \A p, s : Inserting(p, s)' = Inserting(p, s)
  BY DEF Cashiers, company, Inserting
<1>2. RolesOK'
  BY <1>1 DEF SubInv, RolesOK, company
<1>3. RequestsOK'
  BY <1>1 DEF SubInv, RequestsOK, RequestOK, company
<1> QED
  BY <1>2, <1>3 DEF SubInv, CommissionFromActivation

\* The rows of requests that begin or end.
LEMMA IdleType ==
  /\ Idle \in RequestRow /\ Idle.step = "idle" /\ Idle.op = "none" /\ ~Idle.known
  /\ \A s \in Step : [Idle EXCEPT !.step = s] \in RequestRow
  /\ \A n \in Nat : [Idle EXCEPT !.step = "pay", !.price = n] \in RequestRow
  BY DEF Idle, RequestRow, Step, Scope, Null

\* A request that asks for nothing relies on nothing.
LEMMA NothingAsked ==
  ASSUME NEW q \in Request, req'[q].op = "none",
         req'[q].step \in {"idle", "first", "expire", "ready"}
  PROVE  RequestOK(q)'
  BY DEF RequestOK, Joining

\* What a company asks for.
LEMMA AskedType ==
  ASSUME SubInv, NEW r \in Asked, NEW s \in {"first", "ready"}
  PROVE  LET d == [r EXCEPT !.step = s] IN
         /\ d \in RequestRow /\ d.step = s
         /\ d.op = "createUser" => d.who \in Person
         /\ d.op \in {"assignRole", "revokeRole"} => d.who \in member \ {System}
<1>1. Cashiers \subseteq member \ {System} /\ member \ {System} \subseteq Person
  BY DEF SubInv, RolesOK, Types, Cashiers, Scope
<1>2. PICK op \in {"createUser", "assignRole", "revokeRole", "createBranch", "connect"},
           p \in Person \cup {Nobody}, d \in Scope, c \in {"none", "cashier"} :
         /\ r = Ask(op, p, d, c)
         /\ op = "createUser" => p \in Person
         /\ op \in {"assignRole", "revokeRole"} => p \in member \ {System}
  <2> DEFINE Of(op, p, d, c) ==
               /\ op \in {"createUser", "assignRole", "revokeRole", "createBranch", "connect"}
               /\ p \in Person \cup {Nobody} /\ d \in Scope /\ c \in {"none", "cashier"}
               /\ r = Ask(op, p, d, c)
               /\ op = "createUser" => p \in Person
               /\ op \in {"assignRole", "revokeRole"} => p \in member \ {System}
  <2>1. ASSUME NEW p \in Person, r = Ask("createUser", p, Everywhere, "none")
        PROVE  Of("createUser", p, Everywhere, "none")
    BY <2>1 DEF Scope
  <2>2. ASSUME NEW p \in Person, NEW d \in Scope, r = Ask("createUser", p, d, "cashier")
        PROVE  Of("createUser", p, d, "cashier")
    BY <2>2
  <2>3. ASSUME NEW p \in member \ {System}, NEW d \in Scope, r = Ask("assignRole", p, d, "none")
        PROVE  Of("assignRole", p, d, "none")
    BY <1>1, <2>3
  <2>4. ASSUME NEW p \in Cashiers, NEW d \in Scope, r = Ask("revokeRole", p, d, "none")
        PROVE  Of("revokeRole", p, d, "none")
    BY <1>1, <2>4
  <2>5. ASSUME NEW o \in {"createBranch", "connect"}, r = Ask(o, Nobody, Everywhere, "none")
        PROVE  Of(o, Nobody, Everywhere, "none")
    BY <2>5 DEF Scope
  <2> HIDE DEF Of
  <2>6. \E op, p, d, c : Of(op, p, d, c)
    <3>1. CASE r \in {Ask("createUser", p, Everywhere, "none") : p \in Person}
      BY <2>1, <3>1
    <3>2. CASE r \in {Ask("createUser", p, d, "cashier") : p \in Person, d \in Scope}
      BY <2>2, <3>2
    <3>3. CASE r \in {Ask("assignRole", p, d, "none") : p \in member \ {System}, d \in Scope}
      BY <2>3, <3>3
    <3>4. CASE r \in {Ask("revokeRole", p, d, "none") : p \in Cashiers, d \in Scope}
      BY <2>4, <3>4
    <3>5. CASE r \in {Ask(o, Nobody, Everywhere, "none") : o \in {"createBranch", "connect"}}
      BY <2>5, <3>5
    <3> QED
      BY <3>1, <3>2, <3>3, <3>4, <3>5 DEF Asked
  <2> QED
    BY <2>6 DEF Of
<1>3. /\ [r EXCEPT !.step = s].op = op /\ [r EXCEPT !.step = s].who = p
      /\ [r EXCEPT !.step = s] \in RequestRow /\ [r EXCEPT !.step = s].step = s
  BY <1>2 DEF Ask, Idle, RequestRow, Step, Null
<1> QED
  BY <1>2, <1>3

-----------------------------------------------------------------------------
\* The guard, a first subscription, a trial that expired.
LEMMA GuardKeeps ==
  ASSUME SubInv, NEW q \in Request, Guard(q) \/ CreateFirst(q) \/ Expire(q)
  PROVE  SubInv'
<1> USE DEF SubInv
<1>1. CASE Guard(q)
  <2>1. /\ UNCHANGED <<plan, sub, company, lock, paid, due, admin, lost, raced>>
        /\ asked' = asked + 1 /\ asked + admin < MaxEvents
    BY <1>1 DEF Guard
  <2>2. asked' \in 0..MaxEvents
    BY <2>1, SubscriptionAssumption DEF Types
  <2>3. CASE Go(q, [Idle EXCEPT !.step = "expire"])
    <3> DEFINE r == [Idle EXCEPT !.step = "expire"]
    <3>1. r \in RequestRow /\ r.op = "none" /\ r.step = "expire"
      BY IdleType DEF Idle, Step
    <3> HIDE DEF r
    <3>2. req' = [req EXCEPT ![q] = r] /\ req'[q] = r
      BY <2>3 DEF Go, Types, r
    <3>3. RequestOK(q)'
      BY <3>1, <3>2, NothingAsked
    <3>4. Types' /\ CommissionFromActivation'
      BY <2>1, <2>2, <3>1, <3>2 DEF Types, company, CommissionFromActivation
    <3> QED
      BY <2>1, <3>1, <3>2, <3>3, <3>4, QuietKeeps DEF Go
  <2>4. ASSUME NEW a \in Asked, NEW s \in {"first", "ready"}, Go(q, [a EXCEPT !.step = s])
        PROVE  SubInv'
    <3> DEFINE r == [a EXCEPT !.step = s]
    <3>1. /\ r \in RequestRow /\ r.step = s
          /\ r.op = "createUser" => r.who \in Person
          /\ r.op \in {"assignRole", "revokeRole"} => r.who \in member \ {System}
      BY AskedType
    <3> HIDE DEF r
    <3>2. req' = [req EXCEPT ![q] = r] /\ req'[q] = r
      BY <2>4 DEF Go, Types, r
    <3>3. RequestOK(q)'
      BY <2>1, <3>1, <3>2 DEF RequestOK, Joining, company
    <3>4. Types' /\ CommissionFromActivation'
      BY <2>1, <2>2, <3>1, <3>2 DEF Types, company, CommissionFromActivation
    <3> QED
      BY <2>1, <3>1, <3>2, <3>3, <3>4, QuietKeeps DEF Go
  <2> QED
    BY <1>1, <2>3, <2>4 DEF Guard
<1>2. CASE CreateFirst(q) \/ Expire(q)
  <2>1. PICK r \in {Idle, [req[q] EXCEPT !.step = "ready"]} :
          /\ Go(q, r) /\ req[q].step \in {"first", "expire"}
          /\ r # Idle => req[q].step = "first"
          /\ UNCHANGED <<plan, company, lock, paid, due, asked, admin, lost, raced>>
    BY <1>2 DEF CreateFirst, Expire, At
  <2>2. sub' \in SubscriptionRow
    <3>1. CASE CreateFirst(q)
      BY <3>1, FreshType DEF CreateFirst
    <3>2. CASE Expire(q)
      BY <3>2 DEF Expire, Types, SubscriptionRow, Status
    <3> QED
      BY <1>2, <3>1, <3>2
  <2>3. r \in RequestRow /\ r.step \in {"idle", "ready"}
        /\ r.op \in {"none", req[q].op} /\ (r.op # "none" => r.who = req[q].who)
    <3>1. CASE r = Idle
      BY <3>1, IdleType
    <3>2. CASE r = [req[q] EXCEPT !.step = "ready"]
      <4>1. req[q] \in RequestRow
        BY DEF Types
      <4> QED
        BY <3>2, <4>1 DEF RequestRow, Step
    <3> QED
      BY <2>1, <3>1, <3>2
  <2>4. req' = [req EXCEPT ![q] = r] /\ req'[q] = r
    BY <2>1 DEF Go, Types
  <2>5. RequestOK(q)'
    BY <2>1, <2>3, <2>4 DEF RequestOK, RequestsOK, Joining, company
  <2>6. Types' /\ CommissionFromActivation'
    BY <2>1, <2>2, <2>3, <2>4 DEF Types, company, CommissionFromActivation
  <2> QED
    BY <2>1, <2>3, <2>4, <2>5, <2>6, QuietKeeps
<1> QED
  BY <1>1, <1>2

\* What is used of a resource that is within its limit.
LEMMA WithinMeans ==
  ASSUME Types
  PROVE  /\ Within("users") => Limit("users") = Null \/ Cardinality(member) < Limit("users")
         /\ Within("cashiers") =>
               Limit("cashiers") = Null \/ Cardinality(Cashiers) < Limit("cashiers")
         /\ Within("branches") => Limit("branches") = Null \/ branches < Limit("branches")
  BY DEF Within, Used

\* A request locks the row and counts, or sees that there is nothing to count, that
\* the role is not there, or that the new user, who gets one, is no member.
LEMMA CountKeeps ==
  ASSUME SubInv, NEW q \in Request,
         \/ Lock(q) \/ ReadRole(q) \/ LockRole(q) \/ CheckRole(q)
         \/ createUser(q) /\ req[q].role = "cashier"
  PROVE  SubInv'
<1> USE DEF SubInv
<1>1. /\ UNCHANGED <<plan, sub, company, paid, due, asked, admin, lost, raced>>
      /\ UNCHANGED <<member, role, branches>>
  BY DEF Lock, ReadRole, LockRole, CheckRole, createUser, company
<1>2. req[q] \in RequestRow /\ RequestOK(q) /\ Cashiers' = Cashiers
  BY <1>1 DEF Types, RequestsOK, Cashiers
<1>3. ASSUME NEW r \in RequestRow, Go(q, r), lock' = lock \/ (lock = Nobody /\ lock' = q),
             RequestOK(q)', r.step = "insert" => r.who \in Person /\ role[r.who][r.at] = 0
      PROVE  SubInv'
  <2>1. Types' /\ CommissionFromActivation'
    BY <1>1, <1>3 DEF Types, Go, company, CommissionFromActivation
  <2> QED
    BY <1>1, <1>3, <2>1, QuietKeeps
<1>4. ASSUME NEW res \in {"users", "branches"}, assertWithinLimit(q, res), At(q, "ready"),
             req[q].op = IF res = "users" THEN "createUser" ELSE "createBranch",
             Go(q, [req[q] EXCEPT !.step = "make", !.limit = Limit(res)])
      PROVE  SubInv'
  <2> DEFINE r == [req[q] EXCEPT !.step = "make", !.limit = Limit(res)]
  <2>1. Limit(res) \in Nat \cup {Null}
    BY LimitType DEF Resource
  <2>2. /\ r \in RequestRow /\ r.step = "make" /\ r.limit = Limit(res) /\ r.op = req[q].op
        /\ r.who = req[q].who
    BY <1>2, <2>1 DEF RequestRow, Step
  <2>3. req' = [req EXCEPT ![q] = r] /\ req'[q] = r
    BY <1>4 DEF Go, Types
  <2>4. /\ res = "users" /\ Limit(res) # Null => Cardinality(member \ {System}) < Limit(res)
        /\ res = "branches" /\ Limit(res) # Null => branches < Limit(res)
    BY <1>4, <2>1, WithinMeans, PeopleFinite DEF assertWithinLimit
  <2> HIDE DEF r
  <2>5. RequestOK(q)'
    BY <1>1, <1>2, <1>4, <2>2, <2>3, <2>4 DEF RequestOK, Joining, assertWithinLimit
  <2> QED
    BY <1>3, <1>4, <2>2, <2>3, <2>5 DEF Go, assertWithinLimit, Free
<1>5. CASE ReadRole(q)
  <2>1. PICK at \in {"check", "lock"}, known \in BOOLEAN :
          /\ req[q].who \in Cashiers => at = "check" /\ known = TRUE
          /\ req[q].who \notin Cashiers => at = "lock" /\ known = FALSE
          /\ Go(q, [req[q] EXCEPT !.step = at, !.known = known])
    <3>1. CASE req[q].who \in Cashiers
      <4>1. (req[q].who \in Cashiers) = TRUE
        BY <3>1
      <4>2. Go(q, [req[q] EXCEPT !.step = "check", !.known = TRUE])
        BY <1>5, <3>1, <4>1 DEF ReadRole
      <4> QED
        BY <3>1, <4>2
    <3>2. CASE req[q].who \notin Cashiers
      <4>1. (req[q].who \in Cashiers) = FALSE
        BY <3>2
      <4>2. Go(q, [req[q] EXCEPT !.step = "lock", !.known = FALSE])
        BY <1>5, <3>2, <4>1 DEF ReadRole
      <4> QED
        BY <3>2, <4>2
    <3> QED
      BY <3>1, <3>2
  <2> DEFINE r == [req[q] EXCEPT !.step = at, !.known = known]
  <2>2. /\ r \in RequestRow /\ r.step = at /\ r.op = req[q].op
        /\ r.who = req[q].who /\ r.known = known /\ r.limit = req[q].limit
    BY <1>2 DEF RequestRow, Step
  <2>3. req' = [req EXCEPT ![q] = r] /\ req'[q] = r /\ lock' = lock
        /\ \/ req[q].op = "createUser" /\ req[q].step = "assign"
           \/ req[q].op = "assignRole"
    BY <1>2, <1>5, <2>1 DEF Go, Types, ReadRole, At, RequestOK
  <2> HIDE DEF r
  <2>4. RequestOK(q)'
    <3>1. CASE req[q].who \in Cashiers
      <4>1. req[q].who \in member /\ req[q].op = "assignRole"
        BY <1>2, <2>3, <3>1 DEF RequestOK, Joining, Cashiers
      <4> QED
        BY <1>1, <1>2, <2>1, <2>2, <2>3, <3>1, <4>1 DEF RequestOK, Joining
    <3>2. CASE req[q].who \notin Cashiers
      BY <1>1, <1>2, <2>1, <2>2, <2>3, <3>2 DEF RequestOK, Joining
    <3> QED
      BY <3>1, <3>2
  <2>5. Go(q, r) /\ (lock' = lock \/ (lock = Nobody /\ lock' = q)) /\ r.step # "insert"
    BY <2>1, <2>2, <2>3 DEF Go
  <2> QED
    BY <1>3, <2>2, <2>4, <2>5
<1>6. CASE LockRole(q)
  <2> DEFINE r == [req[q] EXCEPT !.step = "check", !.cashiers = Limit("cashiers")]
  <2>1. Limit("cashiers") \in Nat \cup {Null}
    BY LimitType DEF Resource
  <2>2. /\ r \in RequestRow /\ r.step = "check" /\ r.cashiers = Limit("cashiers")
        /\ r.limit = req[q].limit
        /\ r.op = req[q].op /\ r.who = req[q].who /\ r.known = req[q].known
    BY <1>2, <2>1 DEF RequestRow, Step
  <2>3. req' = [req EXCEPT ![q] = r] /\ req'[q] = r /\ req[q].step = "lock"
    BY <1>6 DEF Go, Types, LockRole, At
  <2>4. Limit("cashiers") # Null => Cardinality(Cashiers) < Limit("cashiers")
    BY <1>6, WithinMeans DEF LockRole, assertWithinLimit
  <2> HIDE DEF r
  <2>5. RequestOK(q)'
    BY <1>1, <1>2, <1>6, <2>2, <2>3, <2>4 DEF RequestOK, Joining, LockRole, assertWithinLimit
  <2> QED
    BY <1>3, <1>6, <2>2, <2>3, <2>5 DEF Go, LockRole, assertWithinLimit, Free
<1>7. CASE CheckRole(q)
  <2> DEFINE r == [req[q] EXCEPT !.step = "insert"]
  <2>1. /\ r \in RequestRow /\ r.step = "insert" /\ r.limit = req[q].limit
        /\ r.cashiers = req[q].cashiers
        /\ r.op = req[q].op /\ r.who = req[q].who /\ r.known = req[q].known /\ r.at = req[q].at
    BY <1>2 DEF RequestRow, Step
  <2>2. /\ req' = [req EXCEPT ![q] = r] /\ req'[q] = r /\ req[q].step = "check" /\ lock' = lock
        /\ role[r.who][r.at] = 0
    BY <1>7, <2>1 DEF Go, Types, CheckRole, At
  <2> HIDE DEF r
  <2>3. RequestOK(q)' /\ r.who \in Person
    BY <1>1, <1>2, <2>1, <2>2 DEF RequestOK, Joining, Types
  <2> QED
    BY <1>3, <2>1, <2>2, <2>3 DEF Go
<1>8. CASE createUser(q) /\ req[q].role = "cashier"
  <2> DEFINE r == [req[q] EXCEPT !.step = "assign"]
  <2>1. /\ r \in RequestRow /\ r.step = "assign" /\ r.limit = req[q].limit
        /\ r.op = req[q].op /\ r.who = req[q].who
    BY <1>2 DEF RequestRow, Step
  <2>2. /\ Go(q, r) /\ lock' = lock /\ req[q].step = "make" /\ req[q].op = "createUser"
        /\ req[q].who \notin member
    BY <1>8 DEF createUser, At
  <2> HIDE DEF r
  <2>3. req' = [req EXCEPT ![q] = r] /\ req'[q] = r
    BY <2>2 DEF Go, Types
  <2>4. RequestOK(q)'
    BY <1>1, <1>2, <2>1, <2>2, <2>3 DEF RequestOK, Joining
  <2> QED
    BY <1>3, <2>1, <2>2, <2>4
<1> QED
  BY <1>4, <1>5, <1>6, <1>7, <1>8 DEF Lock

\* An activation and its commission, and a request that ends without effect.
LEMMA CommissionKeeps ==
  ASSUME SubInv, NEW q \in Request,
         \/ Commission(q) \/ Abort(q) \/ \E s \in Status : setSubscriptionStatus(q, s)
  PROVE  SubInv'
<1> USE DEF SubInv
<1>1. req[q] \in RequestRow /\ RequestOK(q)
  BY DEF Types, RequestsOK
<1>2. ASSUME NEW r \in RequestRow, Go(q, r), r.step \in {"idle", "pay", "paying"},
             r.op = "none" \/ (r.op = req[q].op /\ r.who = req[q].who),
             r.step # "idle" => r.price \in due', Types', CommissionFromActivation',
             UNCHANGED <<company, raced>>, lock' = lock \/ lock = q, due \subseteq due'
      PROVE  SubInv'
  <2>1. req' = [req EXCEPT ![q] = r] /\ req'[q] = r
    BY <1>2 DEF Go, Types
  <2>2. RequestOK(q)'
    BY <1>1, <1>2, <2>1 DEF RequestOK, Joining, company
  <2>3. (lock' = lock \/ lock \in {q, Nobody}) /\ r.step # "insert"
    BY <1>2
  <2> QED
    BY <1>2, <2>2, <2>3, QuietKeeps
<1>3. CASE ReadReferral(q)
  <2>1. PICK r \in {Idle, [req[q] EXCEPT !.step = "paying"]} : Go(q, r)
    BY <1>3 DEF ReadReferral
  <2>2. /\ req[q].step = "pay"
        /\ UNCHANGED <<plan, sub, company, lock, paid, due, asked, admin, lost, raced>>
    BY <1>3 DEF ReadReferral, At
  <2>3. /\ r \in RequestRow /\ r.step \in {"idle", "paying"}
        /\ r.op = "none" \/ (r.op = req[q].op /\ r.who = req[q].who)
        /\ r.step # "idle" => r.price = req[q].price
    <3>1. CASE r = Idle
      BY <3>1, IdleType
    <3>2. CASE r = [req[q] EXCEPT !.step = "paying"]
      BY <1>1, <3>2 DEF RequestRow, Step
    <3> QED
      BY <3>1, <3>2
  <2>4. Types' /\ CommissionFromActivation' /\ (r.step # "idle" => r.price \in due')
    BY <1>1, <2>1, <2>2, <2>3 DEF Types, company, CommissionFromActivation, Go, RequestOK
  <2> QED
    BY <1>2, <2>1, <2>2, <2>3, <2>4 DEF company
<1>4. CASE PayCommission(q)
  <2>1. /\ Go(q, Idle) /\ req[q].step = "paying"
        /\ UNCHANGED <<plan, sub, company, lock, due, asked, admin, lost, raced>>
        /\ paid' = IF paid = Null THEN req[q].price ELSE paid
    BY <1>4 DEF PayCommission, At
  <2>2. req[q].price \in due /\ req[q].price \in Nat
    BY <1>1, <2>1 DEF RequestOK, RequestRow
  <2>3. Types' /\ CommissionFromActivation'
    BY <2>1, <2>2, IdleType DEF Types, company, CommissionFromActivation, Go
  <2> QED
    BY <1>2, <2>1, <2>3, IdleType DEF company
<1>5. CASE Abort(q)
  <2>1. /\ Go(q, Idle) /\ (lock' = lock \/ lock = q) /\ lock' \in {lock, Nobody}
        /\ UNCHANGED <<plan, sub, company, paid, due, asked, admin, raced>>
        /\ lost' = (lost \/ req[q].step \in {"pay", "paying"})
    BY <1>5 DEF Abort, Unlock
  <2>2. lost' \in BOOLEAN /\ lock' \in Request \cup {Nobody}
    BY <2>1 DEF Types
  <2>3. Types' /\ CommissionFromActivation'
    BY <2>1, <2>2, IdleType DEF Types, company, CommissionFromActivation, Go
  <2> QED
    BY <1>2, <2>1, <2>3, IdleType DEF company
<1>6. ASSUME NEW s \in Status, setSubscriptionStatus(q, s) PROVE SubInv'
  <2>1. /\ UNCHANGED <<plan, company, lock, paid, asked, lost, raced>>
        /\ UNCHANGED <<member, role, branches>>
        /\ admin' = admin + 1 /\ admin < MaxAdmin
        /\ sub' = [sub EXCEPT !.status = s]
    BY <1>6 DEF setSubscriptionStatus, Administer, setStatus, company
  <2>2. sub' \in SubscriptionRow /\ admin' \in 0..MaxAdmin
    BY <2>1, SubscriptionAssumption DEF Types, SubscriptionRow
  <2>3. CASE s = "active"
    <3> DEFINE r == [Idle EXCEPT !.step = "pay", !.price = Row.price]
    <3>1. Row.price \in Nat
      <4>1. Row \in Terms
        BY DEF Types, Row, SubscriptionRow
      <4> QED
        BY <4>1, SubscriptionAssumption
    <3>2. r \in RequestRow /\ r.step = "pay" /\ r.op = "none" /\ r.price = Row.price
      BY <3>1, IdleType DEF Idle
    <3>3. Go(q, r) /\ due' = due \cup {Row.price}
      BY <1>6, <2>3 DEF setSubscriptionStatus
    <3> HIDE DEF r
    <3>4. Types' /\ CommissionFromActivation'
      BY <2>1, <2>2, <3>2, <3>3 DEF Types, CommissionFromActivation, Go
    <3> QED
      BY <1>2, <2>1, <3>2, <3>3, <3>4
  <2>4. CASE s # "active"
    <3>1. UNCHANGED <<company, lock, req, due, raced, paid>>
      BY <1>6, <2>1, <2>4 DEF setSubscriptionStatus
    <3>2. Types'
      BY <2>1, <2>2, <3>1 DEF Types
    <3> QED
      BY <3>1, <3>2, AdministeredKeeps
  <2> QED
    BY <2>3, <2>4
<1> QED
  BY <1>3, <1>4, <1>5, <1>6 DEF Commission

-----------------------------------------------------------------------------
\* A request that ends is not about to insert any more.
LEMMA EndsInserting ==
  ASSUME SubInv, NEW q \in Request, req' = [req EXCEPT ![q] = Idle], NEW p, NEW s
  PROVE  /\ Inserting(p, s)' = Inserting(p, s) \ {q}
         /\ Cardinality(Inserting(p, s)) \in Nat /\ Cardinality(Request) \in Nat
         /\ Cardinality(Inserting(p, s))' \in Nat
         /\ Cardinality(Inserting(p, s))' <= Cardinality(Inserting(p, s))
         /\ q \in Inserting(p, s) =>
               Cardinality(Inserting(p, s))' = Cardinality(Inserting(p, s)) - 1
<1>1. /\ req'[q] = Idle /\ Idle.step # "insert"
      /\ \A o \in Request \ {q} : req'[o] = req[o]
  BY IdleType DEF SubInv, Types
<1>2. Inserting(p, s)' = Inserting(p, s) \ {q}
  BY <1>1 DEF Inserting
<1>3. IsFiniteSet(Inserting(p, s)) /\ Cardinality(Inserting(p, s)) \in Nat
  BY RequestsFinite
<1>4. /\ Cardinality(Inserting(p, s) \ {q}) \in Nat
      /\ Cardinality(Inserting(p, s) \ {q}) =
            IF q \in Inserting(p, s) THEN Cardinality(Inserting(p, s)) - 1
            ELSE Cardinality(Inserting(p, s))
  BY <1>3, FS_RemoveElement, FS_CardinalityType
<1>5. Cardinality(Request) \in Nat
  BY SubscriptionAssumption, FS_CardinalityType
<1> QED
  BY <1>2, <1>3, <1>4, <1>5

\* A role more for a member, where there is room for it.
LEMMA RoleGranted ==
  ASSUME SubInv, NEW q \in Request, NEW p \in Person, NEW s \in Scope,
         req' = [req EXCEPT ![q] = Idle],
         role' = [role EXCEPT ![p][s] = @ + 1],
         member \subseteq member', p \in member', member' \subseteq member \cup {p},
         s \in Branch => role[p][s] = 0,
         role[p][s] + 1 + Cardinality(Inserting(p, s))' <= Cardinality(Request)
  PROVE  /\ RolesOK' /\ Cashiers \subseteq Cashiers'
         /\ Cashiers' \subseteq Cashiers \cup {p}
         /\ role' \in [Person \cup {System} -> [Scope -> Nat]]
<1>1. role \in [Person \cup {System} -> [Scope -> Nat]]
  BY DEF SubInv, Types
<1>2. role' \in [Person \cup {System} -> [Scope -> Nat]]
  BY <1>1
<1>3. \A x \in Person \cup {System}, y \in Scope :
         role'[x][y] = IF x = p /\ y = s THEN role[x][y] + 1 ELSE role[x][y]
  BY <1>1
<1>4. ASSUME NEW x \in Person \cup {System}, NEW y \in Scope
      PROVE  /\ role'[x][y] > 0 => x \in member' \ {System}
             /\ y \in Branch => role'[x][y] <= 1
             /\ role'[x][y] + Cardinality(Inserting(x, y))' <= Cardinality(Request)
  <2>1. /\ role[x][y] > 0 => x \in member \ {System}
        /\ y \in Branch => role[x][y] <= 1
        /\ role[x][y] + Cardinality(Inserting(x, y)) <= Cardinality(Request)
        /\ role[x][y] \in Nat /\ p # System
    BY <1>1, SubscriptionAssumption DEF SubInv, RolesOK
  <2>2. Cardinality(Inserting(x, y))' \in Nat /\ Cardinality(Inserting(x, y)) \in Nat
        /\ Cardinality(Inserting(x, y))' <= Cardinality(Inserting(x, y))
        /\ Cardinality(Request) \in Nat
    BY EndsInserting
  <2> QED
    BY <1>3, <2>1, <2>2
<1>5. RolesOK'
  BY <1>4 DEF RolesOK
<1>6. Cashiers \subseteq Cashiers'
  <2> SUFFICES ASSUME NEW x \in Cashiers PROVE x \in Cashiers'
    OBVIOUS
  <2>1. PICK y \in Scope : role[x][y] > 0
    BY DEF Cashiers
  <2>2. x \in member' /\ x \in Person \cup {System} /\ role[x][y] \in Nat
    BY <1>1 DEF Cashiers, SubInv, Types
  <2>3. role'[x][y] > 0
    BY <1>3, <2>1, <2>2
  <2> QED
    BY <2>2, <2>3 DEF Cashiers
<1>7. Cashiers' \subseteq Cashiers \cup {p}
  <2> SUFFICES ASSUME NEW x \in Cashiers', x # p PROVE x \in Cashiers
    OBVIOUS
  <2>1. PICK y \in Scope : role'[x][y] > 0
    BY DEF Cashiers
  <2>2. x \in member /\ x \in Person \cup {System}
    BY DEF Cashiers, SubInv, Types
  <2> QED
    BY <1>3, <2>1, <2>2 DEF Cashiers
<1> QED
  BY <1>2, <1>5, <1>6, <1>7

\* A new member, a new branch, the account of the integration.
LEMMA CreationsKeep ==
  ASSUME SubInv, NEW q \in Request,
         (createUser(q) /\ req[q].role = "none") \/ createBranch(q) \/ connect(q)
  PROVE  SubInv'
<1> USE DEF SubInv
<1>1. /\ req[q] \in RequestRow /\ RequestOK(q) /\ Go(q, Idle)
      /\ UNCHANGED <<plan, sub, paid, due, asked, admin, lost, raced>>
  BY DEF Types, RequestsOK, createUser, createBranch, connect
<1>2. /\ req' = [req EXCEPT ![q] = Idle] /\ req'[q] = Idle
      /\ Idle \in RequestRow /\ Idle.step = "idle" /\ Idle.op = "none"
  BY <1>1, IdleType DEF Go, Types
<1>3. RequestOK(q)'
  BY <1>2, NothingAsked
<1>4. ASSUME member' \subseteq Person \cup {System}, branches' \in Nat \ {0},
             role' \in [Person \cup {System} -> [Scope -> Nat]],
             lock' \in Request \cup {Nobody}
      PROVE  Types' /\ CommissionFromActivation'
  BY <1>1, <1>2, <1>4 DEF Types, CommissionFromActivation
<1>5. CASE createUser(q) /\ req[q].role = "none"
  <2>1. /\ lock = q /\ req[q].who \in Person /\ UNCHANGED <<role, branches>>
        /\ member' = member \cup {req[q].who} /\ lock' = Nobody
    BY <1>1, <1>5 DEF createUser, RequestOK, At, Unlock
  <2>2. member \subseteq member'
    BY <2>1
  <2>3. RolesOK' /\ Cashiers \subseteq Cashiers'
    <3>1. RolesOK'
      BY <1>2, <2>1, <2>2, RolesKept
    <3> QED
      BY <2>1, <2>2, <3>1 DEF Cashiers
  <2>4. member' \subseteq Person \cup {System} /\ branches' \in Nat \ {0}
    BY <2>1 DEF Types
  <2>5. RequestsOK'
    <3>1. \A o \in Request \ {q} :
             req[o].known /\ req[o].who \in Cashiers => req[o].who \in Cashiers'
      BY <2>3
    <3>2. (lock' = lock \/ lock \in {q, Nobody}) /\ (raced => raced') /\ due \subseteq due'
      BY <1>1, <2>1
    <3> QED
      BY <1>2, <1>3, <2>1, <2>2, <3>1, <3>2, OthersKept
  <2> QED
    BY <1>4, <2>1, <2>3, <2>4, <2>5 DEF Types
<1>6. CASE createBranch(q)
  <2>1. /\ lock = q /\ branches' = branches + 1 /\ UNCHANGED <<member, role>>
        /\ lock' = Nobody
    BY <1>1, <1>6 DEF createBranch, RequestOK, At, Unlock
  <2>2. Cashiers' = Cashiers /\ member \subseteq member'
    BY <2>1 DEF Cashiers
  <2>3. RolesOK'
    BY <1>2, <2>1, <2>2, RolesKept
  <2>4. RequestsOK'
    <3>1. \A o \in Request \ {q} :
             req[o].known /\ req[o].who \in Cashiers => req[o].who \in Cashiers'
      BY <2>2
    <3>2. (lock' = lock \/ lock \in {q, Nobody}) /\ (raced => raced') /\ due \subseteq due'
      BY <1>1, <2>1
    <3> QED
      BY <1>2, <1>3, <2>1, <2>2, <3>1, <3>2, OthersKept
  <2>5. branches' \in Nat \ {0}
    BY <2>1 DEF Types
  <2> QED
    BY <1>4, <2>1, <2>3, <2>4, <2>5 DEF Types
<1>7. CASE connect(q)
  <2>1. member' = member \cup {System} /\ UNCHANGED <<role, branches, lock>>
    BY <1>7 DEF connect
  <2>2. /\ member \subseteq member' /\ member' \ {System} = member \ {System}
        /\ member' \subseteq Person \cup {System}
    BY <2>1 DEF Types
  <2>3. Cashiers' = Cashiers
    <3>1. \A s \in Scope : ~(role[System][s] > 0)
      BY DEF RolesOK
    <3> QED
      BY <2>1, <3>1 DEF Cashiers
  <2>4. RolesOK'
    BY <1>2, <2>1, <2>2, RolesKept
  <2>5. RequestsOK'
    <3>1. /\ \A o \in Request \ {q} :
                req[o].known /\ req[o].who \in Cashiers => req[o].who \in Cashiers'
          /\ Cashiers' \subseteq Cashiers
      BY <2>3
    <3>2. (lock' = lock \/ lock \in {q, Nobody}) /\ (raced => raced') /\ due \subseteq due'
      BY <1>1, <2>1
    <3> QED
      BY <1>2, <1>3, <2>1, <2>2, <3>1, <3>2, OthersKept
  <2> QED
    BY <1>4, <2>1, <2>2, <2>4, <2>5 DEF Types
<1> QED
  BY <1>5, <1>6, <1>7

\* Roles that are given and taken away.
LEMMA RolesKeep ==
  ASSUME SubInv, NEW q \in Request, InsertRole(q) \/ revokeRole(q)
  PROVE  SubInv'
<1> USE DEF SubInv
<1>1. /\ req[q] \in RequestRow /\ RequestOK(q) /\ Go(q, Idle)
      /\ UNCHANGED <<plan, sub, branches, paid, due, asked, admin, lost>>
  BY DEF Types, RequestsOK, InsertRole, revokeRole
<1>2. /\ req' = [req EXCEPT ![q] = Idle] /\ req'[q] = Idle
      /\ Idle \in RequestRow /\ Idle.step = "idle" /\ Idle.op = "none"
  BY <1>1, IdleType DEF Go, Types
<1>3. RequestOK(q)'
  BY <1>2, NothingAsked
<1>4. PICK p \in Person, s \in Scope : p = req[q].who /\ s = req[q].at
  <2>1. req[q].op \in {"createUser", "assignRole", "revokeRole"}
    BY <1>1 DEF RequestOK, InsertRole, revokeRole, At, Joining
  <2> QED
    BY <1>1, <2>1 DEF RequestOK, Types, RequestRow
<1>5. ASSUME role' \in [Person \cup {System} -> [Scope -> Nat]], raced' \in BOOLEAN,
             lock' \in Request \cup {Nobody}, member' \subseteq Person \cup {System}
      PROVE  Types' /\ CommissionFromActivation'
  BY <1>1, <1>2, <1>5 DEF Types, CommissionFromActivation
<1>6. CASE InsertRole(q)
  <2>1. /\ req[q].step = "insert" /\ raced' = raced
        /\ s = Everywhere \/ role[p][s] = 0
        /\ role' = [role EXCEPT ![p][s] = @ + 1]
        /\ lock' = lock \/ lock = q
        /\ lock' \in {lock, Nobody}
    BY <1>4, <1>6 DEF InsertRole, At, Unlock
  <2>2. role[p][s] + 1 + Cardinality(Inserting(p, s))' <= Cardinality(Request)
    <3>1. role[p][s] \in Nat
          /\ role[p][s] + Cardinality(Inserting(p, s)) <= Cardinality(Request)
      BY <1>4 DEF RolesOK, Types
    <3>2. q \in Inserting(p, s)
      BY <1>4, <2>1 DEF Inserting
    <3>3. Cardinality(Inserting(p, s)) \in Nat /\ Cardinality(Request) \in Nat
          /\ Cardinality(Inserting(p, s))' = Cardinality(Inserting(p, s)) - 1
      BY <1>2, <3>2, EndsInserting
    <3> QED
      BY <3>1, <3>3
  <2>3. /\ s \in Branch => role[p][s] = 0
        /\ member \subseteq member' /\ p \in member' /\ member' \subseteq member \cup {p}
        /\ member' = member \/ lock = q
        /\ member' \subseteq Person \cup {System}
    <3>1. \/ req[q].op = "createUser" /\ lock = q /\ member' = member \cup {p}
          \/ req[q].op = "assignRole" /\ p \in member /\ member' = member
      BY <1>1, <1>4, <1>6, <2>1 DEF RequestOK, Joining, InsertRole, Joined
    <3> QED
      BY <2>1, <3>1, SubscriptionAssumption DEF Types
  <2>4. /\ RolesOK' /\ Cashiers \subseteq Cashiers'
        /\ Cashiers' \subseteq Cashiers \cup {p}
        /\ role' \in [Person \cup {System} -> [Scope -> Nat]]
    BY <1>2, <1>4, <2>1, <2>2, <2>3, RoleGranted
  <2>5. RequestsOK'
    <3>1. ~raced' => lock = q \/ Cashiers' \subseteq Cashiers
      BY <1>1, <1>4, <2>1, <2>4 DEF RequestOK
    <3>2. /\ \A o \in Request \ {q} :
                req[o].known /\ req[o].who \in Cashiers => req[o].who \in Cashiers'
          /\ member' \ {System} = member \ {System} \/ lock = q
          /\ branches' = branches
      BY <1>1, <2>3, <2>4
    <3>3. (lock' = lock \/ lock \in {q, Nobody}) /\ (raced => raced') /\ due \subseteq due'
      BY <1>1, <2>1
    <3> QED
      BY <1>2, <1>3, <2>3, <3>1, <3>2, <3>3, OthersKept
  <2>6. lock' \in Request \cup {Nobody} /\ raced' \in BOOLEAN
    BY <2>1 DEF Types
  <2> QED
    BY <1>5, <2>3, <2>4, <2>5, <2>6
<1>7. CASE revokeRole(q)
  <2>1. /\ lock' = lock /\ member' = member /\ role[p][s] > 0
        /\ role' = [role EXCEPT ![p][s] = @ - 1]
        /\ raced' = (raced \/ \E o \in Request : req[o].who = p /\ req[o].known)
    BY <1>4, <1>7 DEF revokeRole
  <2>2. role \in [Person \cup {System} -> [Scope -> Nat]] /\ member' = member
    BY <2>1 DEF Types
  <2>3. role' \in [Person \cup {System} -> [Scope -> Nat]]
        /\ \A x \in Person \cup {System}, y \in Scope :
              role'[x][y] = IF x = p /\ y = s THEN role[x][y] - 1 ELSE role[x][y]
    BY <1>4, <2>1, <2>2
  <2>4. RolesOK'
    <3> SUFFICES ASSUME NEW x \in Person \cup {System}, NEW y \in Scope
                 PROVE  /\ role'[x][y] > 0 => x \in member' \ {System}
                        /\ y \in Branch => role'[x][y] <= 1
                        /\ role'[x][y] + Cardinality(Inserting(x, y))' <= Cardinality(Request)
      BY DEF RolesOK
    <3>1. /\ role[x][y] > 0 => x \in member \ {System}
          /\ y \in Branch => role[x][y] <= 1
          /\ role[x][y] + Cardinality(Inserting(x, y)) <= Cardinality(Request)
          /\ role[x][y] \in Nat
      BY <2>2 DEF RolesOK
    <3>2. Cardinality(Inserting(x, y))' \in Nat /\ Cardinality(Inserting(x, y)) \in Nat
          /\ Cardinality(Inserting(x, y))' <= Cardinality(Inserting(x, y))
          /\ Cardinality(Request) \in Nat
      BY <1>2, EndsInserting
    <3> QED
      BY <2>1, <2>2, <2>3, <3>1, <3>2
  <2>5. Cashiers' \subseteq Cashiers /\ \A x \in Cashiers : x # p => x \in Cashiers'
    <3>1. \A x \in member : x \in Person \cup {System}
      BY DEF Types
    <3>2. \A x \in member, y \in Scope : x # p => role'[x][y] = role[x][y]
      BY <2>3, <3>1
    <3>3. \A x \in member, y \in Scope : role'[x][y] > 0 => role[x][y] > 0
      BY <2>1, <2>2, <2>3, <3>1
    <3> QED
      BY <2>2, <3>2, <3>3 DEF Cashiers
  <2>6. RequestsOK'
    <3>1. ~raced' => \A o \in Request \ {q} :
             req[o].known /\ req[o].who \in Cashiers => req[o].who \in Cashiers'
      BY <2>1, <2>5
    <3>2. /\ lock' = lock \/ lock \in {q, Nobody}
          /\ raced => raced'
          /\ due \subseteq due' /\ member \subseteq member'
          /\ member' \ {System} = member \ {System} /\ branches' = branches
      BY <1>1, <2>1
    <3> QED
      BY <1>2, <1>3, <2>5, <3>1, <3>2, OthersKept
  <2>7. lock' \in Request \cup {Nobody} /\ raced' \in BOOLEAN
    BY <2>1 DEF Types
  <2> QED
    BY <1>5, <2>2, <2>3, <2>4, <2>6, <2>7 DEF Types
<1> QED
  BY <1>6, <1>7

-----------------------------------------------------------------------------
\* A company begins with one member, no request and no commission.
LEMMA InitSubInv ==
  ASSUME Init
  PROVE  SubInv
<1>1. member \subseteq Person /\ plan = Catalogue
  BY SubscriptionAssumption DEF Init
<1>2. \A p \in Person \cup {System}, s \in Scope : role[p][s] = 0
  BY DEF Init
<1>3. role \in [Person \cup {System} -> [Scope -> Nat]]
  BY DEF Init
<1>4. \A q \in Request : req[q] = Idle
  BY DEF Init
<1>5. 0 \in 0..MaxEvents /\ 0 \in 0..MaxAdmin
  BY SubscriptionAssumption
<1>6. req \in [Request -> RequestRow]
  BY IdleType DEF Init
<1>7. Types
  <2>1. /\ sub \in {NoSubscription, Fresh} /\ branches = 1 /\ lock = Nobody /\ paid = Null
        /\ asked = 0 /\ admin = 0 /\ lost = FALSE /\ raced = FALSE
    BY DEF Init
  <2>2. sub \in SubscriptionRow /\ plan \in [Plan -> Terms]
    BY <1>1, <2>1, FreshType, SubscriptionAssumption
  <2>3. /\ member \subseteq Person \cup {System} /\ branches \in Nat \ {0}
        /\ lock \in Request \cup {Nobody} /\ paid \in Nat \cup {Null}
        /\ asked \in 0..MaxEvents /\ admin \in 0..MaxAdmin
    BY <1>1, <1>5, <2>1
  <2>4. lost \in BOOLEAN /\ raced \in BOOLEAN
    BY <2>1
  <2> QED
    BY <1>3, <1>6, <2>2, <2>3, <2>4 DEF Types
<1>8. RequestsOK
  BY <1>4, IdleType DEF RequestsOK, RequestOK, Joining
<1>9. RolesOK
  <2>1. \A p, s : Inserting(p, s) = {}
    BY <1>4, IdleType DEF Inserting
  <2>2. Cardinality(Request) \in Nat /\ Cardinality({}) = 0
    BY SubscriptionAssumption, FS_CardinalityType, FS_EmptySet
  <2>3. ASSUME NEW p \in Person \cup {System}, NEW s \in Scope
        PROVE  role[p][s] = 0 /\ Cardinality(Inserting(p, s)) = 0
    BY <1>2, <2>1, <2>2
  <2>4. Cardinality(Request) >= 0
    BY <2>2
  <2> QED
    BY <2>2, <2>3, <2>4 DEF RolesOK
<1>10. CommissionFromActivation
  BY DEF Init, CommissionFromActivation
<1> QED
  BY <1>7, <1>8, <1>9, <1>10 DEF SubInv

\* Every step keeps the invariant.
LEMMA StepSubInv ==
  ASSUME SubInv, [Next]_vars
  PROVE  SubInv'
<1>1. ASSUME NEW q \in Request, Guard(q) \/ Continue(q) \/ Commission(q) PROVE SubInv'
  <2>1. createUser(q) => req[q].role \in {"none", "cashier"}
    BY DEF createUser
  <2> QED
    BY <1>1, <2>1, GuardKeeps, CountKeeps, CreationsKeep, RolesKeep, CommissionKeeps
       DEF Continue
<1>2. ASSUME NEW q \in Request, NEW s \in Status, setSubscriptionStatus(q, s) PROVE SubInv'
  BY <1>2, CommissionKeeps
<1>3. ASSUME Administer, UNCHANGED <<req, due>>, plan' \in [Plan -> Terms],
             sub' \in SubscriptionRow
      PROVE  SubInv'
  <2>1. /\ UNCHANGED <<company, lock, req, due, raced, paid, asked, lost>>
        /\ UNCHANGED <<member, role, branches>>
        /\ admin' = admin + 1 /\ admin < MaxAdmin
    BY <1>3 DEF Administer, company
  <2>2. admin' \in 0..MaxAdmin
    BY <2>1, SubscriptionAssumption DEF SubInv, Types
  <2>3. Types'
    BY <1>3, <2>1, <2>2 DEF SubInv, Types
  <2> QED
    BY <2>1, <2>3, AdministeredKeeps
<1>4. ASSUME NEW p \in Plan, changeSubscriptionPlan(p) PROVE SubInv'
  <2>1. sub' \in SubscriptionRow /\ plan' \in [Plan -> Terms]
    BY <1>4 DEF changeSubscriptionPlan, changePlan, SubInv, Types, SubscriptionRow
  <2> QED
    BY <1>3, <1>4, <2>1 DEF changeSubscriptionPlan
<1>5. ASSUME NEW p \in Plan, updatePlan(p) PROVE SubInv'
  <2>1. sub' \in SubscriptionRow /\ plan' \in [Plan -> Terms]
    BY <1>5 DEF updatePlan, SubInv, Types
  <2> QED
    BY <1>3, <1>5, <2>1 DEF updatePlan
<1>6. CASE extendSubscriptionTrial
  <2>1. sub' \in SubscriptionRow /\ plan' \in [Plan -> Terms]
    BY <1>6 DEF extendSubscriptionTrial, extendTrial, SubInv, Types, SubscriptionRow, Status
  <2> QED
    BY <1>3, <1>6, <2>1 DEF extendSubscriptionTrial
<1>7. CASE setSubscriptionOverrides
  <2>1. sub' \in SubscriptionRow
    <3>1. CASE \E r \in Resource, v \in Override \cup {Null} :
                  sub' = [sub EXCEPT !.override[r] = v]
      BY <3>1 DEF SubInv, Types, SubscriptionRow
    <3>2. CASE \E v \in {"unset", "no"} : sub' = [sub EXCEPT !.sells = v]
      BY <3>2 DEF SubInv, Types, SubscriptionRow
    <3> QED
      BY <1>7, <3>1, <3>2 DEF setSubscriptionOverrides
  <2>2. plan' \in [Plan -> Terms]
    BY <1>7 DEF setSubscriptionOverrides, SubInv, Types
  <2> QED
    BY <1>3, <1>7, <2>1, <2>2 DEF setSubscriptionOverrides
<1>8. CASE TrialEnds
  <2>1. UNCHANGED <<company, lock, req, due, raced, paid>> /\ Types'
    BY <1>8 DEF TrialEnds, SubInv, Types, SubscriptionRow, company
  <2> QED
    BY <2>1, AdministeredKeeps
<1>9. CASE UNCHANGED vars
  <2>1. UNCHANGED <<company, lock, req, due, raced, paid>> /\ Types'
    BY <1>9 DEF vars, SubInv, Types, company
  <2> QED
    BY <2>1, AdministeredKeeps
<1> QED
  BY <1>1, <1>2, <1>4, <1>5, <1>6, <1>7, <1>8, <1>9 DEF Next

\* SubInv is an invariant of the specification.
LEMMA SubInvariant == Spec => []SubInv
  BY InitSubInv, StepSubInv, PTL DEF Spec

-----------------------------------------------------------------------------
\* The books of the platform are in order in every reachable state: types, no role
\* in a branch twice, no more roles than requests were open at once, and a
\* commission that is what the plan cost at an activation
\* (affiliates.service.ts, computeCommissionForCompanyActivation).
THEOREM CommissionDue == Spec => []CommissionIsDue
<1>1. ASSUME SubInv PROVE CommissionIsDue
  <2>1. Types /\ RolesOK /\ CommissionFromActivation
    BY <1>1 DEF SubInv
  <2>2. ASSUME NEW p \in Person \cup {System}, NEW s \in Scope
        PROVE  role[p][s] \in 0..Cardinality(Request)
    <3>1. role[p][s] \in Nat /\ IsFiniteSet(Inserting(p, s))
      BY <2>1, SubscriptionAssumption, FS_Subset DEF Types, Inserting
    <3>2. Cardinality(Inserting(p, s)) \in Nat /\ Cardinality(Request) \in Nat
      BY <3>1, SubscriptionAssumption, FS_CardinalityType
    <3>3. role[p][s] + Cardinality(Inserting(p, s)) <= Cardinality(Request)
      BY <2>1 DEF RolesOK
    <3> QED
      BY <3>1, <3>2, <3>3
  <2>3. role \in [Person \cup {System} -> [Scope -> 0..Cardinality(Request)]]
    <3>1. role \in [Person \cup {System} -> [Scope -> Nat]]
      BY <2>1 DEF Types
    <3>2. \A p \in Person \cup {System} : role[p] \in [Scope -> 0..Cardinality(Request)]
      BY <2>2, <3>1
    <3> QED
      BY <3>1, <3>2
  <2>4. \A p \in Person \cup {System} : \A b \in Branch : role[p][b] <= 1
    BY <2>1 DEF RolesOK, Scope
  <2>5. \A q \in Request : req[q].step \in Step
    BY <2>1 DEF Types, RequestRow
  <2> QED
    BY <2>1, <2>3, <2>4, <2>5 DEF CommissionIsDue, TypeOK, Types, SubscriptionRow
<1> QED
  BY <1>1, SubInvariant, PTL

\* A user more is a member within what the request was checked against.
LEMMA JoinedWithin ==
  ASSUME SubInv, NEW q \in Request, req[q].limit \in Nat,
         Cardinality(member \ {System}) < req[q].limit, member' = member \cup {req[q].who}
  PROVE  Cardinality(member' \ {System}) <= req[q].limit
<1> DEFINE M == member \ {System}
           N == M \cup {req[q].who}
<1>1. IsFiniteSet(M)
  BY PeopleFinite DEF SubInv
<1>2. /\ Cardinality(N) \in Nat /\ Cardinality(M) \in Nat /\ IsFiniteSet(N)
      /\ Cardinality(N) <= Cardinality(M) + 1
  BY <1>1, OneMore, FS_AddElement
<1>3. member' \ {System} \subseteq N
  OBVIOUS
<1>4. Cardinality(member' \ {System}) <= Cardinality(N) /\ Cardinality(member' \ {System}) \in Nat
  BY <1>2, <1>3, FS_Subset, FS_CardinalityType
<1> HIDE DEF N
<1> QED
  BY <1>2, <1>4

\* A step of q that adds a person or a branch does so within the limit q was checked
\* against.
LEMMA MadeWithinLimit ==
  ASSUME SubInv, [Next]_vars, NEW q \in Request, req'[q] # req[q], req[q].limit # Null
  PROVE  /\ member' \ {System} # member \ {System} =>
               Cardinality(member' \ {System}) <= req[q].limit
         /\ branches' # branches => branches' <= req[q].limit
<1>1. /\ RequestOK(q) /\ req[q].limit \in Nat /\ branches \in Nat
      /\ req \in [Request -> RequestRow]
  BY DEF SubInv, RequestsOK, Types, RequestRow
<1>2. CASE member' \ {System} = member \ {System} /\ branches' = branches
  BY <1>2
<1>3. ASSUME NEW o \in Request, createUser(o) \/ createBranch(o) \/ InsertRole(o)
      PROVE  o = q
  <2>1. PICK r : req' = [req EXCEPT ![o] = r]
    BY <1>3 DEF createUser, createBranch, InsertRole, Go
  <2> QED
    BY <1>1, <2>1
<1>4. CASE createUser(q)
  <2>1. /\ req[q].op = "createUser" /\ req[q].step = "make" /\ branches' = branches
        /\ member' = member \/ member' = member \cup {req[q].who}
    BY <1>4 DEF createUser, At
  <2>2. Cardinality(member \ {System}) < req[q].limit
    BY <1>1, <2>1 DEF RequestOK
  <2> QED
    BY <1>1, <2>1, <2>2, JoinedWithin
<1>5. CASE InsertRole(q)
  <2>1. /\ req[q].step = "insert" /\ branches' = branches
        /\ member' = IF req[q].op = "createUser" THEN member \cup {req[q].who} ELSE member
    BY <1>5 DEF InsertRole, Joined, At
  <2>2. req[q].op = "createUser" => Cardinality(member \ {System}) < req[q].limit
    BY <1>1, <2>1 DEF RequestOK, Joining
  <2> QED
    BY <1>1, <2>1, <2>2, JoinedWithin
<1>6. CASE createBranch(q)
  <2>1. /\ req[q].op = "createBranch" /\ req[q].step = "make"
        /\ branches' = branches + 1 /\ member' = member
    BY <1>6 DEF createBranch, At
  <2>2. branches < req[q].limit
    BY <1>1, <2>1 DEF RequestOK
  <2> QED
    BY <1>1, <2>1, <2>2
<1>7. ASSUME NEW o \in Request, connect(o)
      PROVE  member' \ {System} = member \ {System} /\ branches' = branches
  BY <1>7 DEF connect
<1> QED
  BY <1>2, <1>3, <1>4, <1>5, <1>6, <1>7
     DEF Next, vars, company, Guard, Continue, CreateFirst, Expire, Lock, ReadRole, LockRole,
         CheckRole, revokeRole, Abort, Commission, ReadReferral, PayCommission,
         setSubscriptionStatus, changeSubscriptionPlan, updatePlan, extendSubscriptionTrial,
         setSubscriptionOverrides, TrialEnds, Administer

\* A new role makes at most its owner a cashier.
LEMMA OneCashierMore ==
  ASSUME SubInv, NEW q \in Request, InsertRole(q)
  PROVE  /\ Cashiers' \subseteq Cashiers \cup {req[q].who}
         /\ Cardinality(Cashiers) \in Nat /\ Cardinality(Cashiers') \in Nat
         /\ Cardinality(Cashiers') <= Cardinality(Cashiers) + 1
<1> USE DEF SubInv
<1>1. PICK p \in Person, s \in Scope : p = req[q].who /\ s = req[q].at
  <2>1. RequestOK(q) /\ req[q].step = "insert" /\ req[q] \in RequestRow
    BY DEF RequestsOK, InsertRole, At, Types
  <2> QED
    BY <2>1 DEF RequestOK, Joining, Types, RequestRow
<1>2. member' \subseteq member \cup {p} /\ role' = [role EXCEPT ![p][s] = @ + 1]
  BY <1>1 DEF InsertRole, Joined
<1>3. Cashiers' \subseteq Cashiers \cup {p}
  <2> SUFFICES ASSUME NEW x \in Cashiers', x # p PROVE x \in Cashiers
    OBVIOUS
  <2>1. x \in member /\ x \in Person \cup {System}
    BY <1>2 DEF Cashiers, Types
  <2>2. PICK y \in Scope : role'[x][y] > 0
    BY DEF Cashiers
  <2>3. role'[x][y] = role[x][y]
    BY <1>2, <2>1 DEF Types
  <2> QED
    BY <2>1, <2>2, <2>3 DEF Cashiers
<1>4. IsFiniteSet(Cashiers) /\ Cardinality(Cashiers) \in Nat
  BY PeopleFinite
<1>5. /\ Cardinality(Cashiers \cup {p}) \in Nat /\ IsFiniteSet(Cashiers \cup {p})
      /\ Cardinality(Cashiers \cup {p}) <= Cardinality(Cashiers) + 1
  BY <1>4, OneMore, FS_AddElement
<1>6. /\ Cardinality(Cashiers') \in Nat
      /\ Cardinality(Cashiers') <= Cardinality(Cashiers \cup {p})
  BY <1>3, <1>5, FS_Subset, FS_CardinalityType
<1> QED
  BY <1>1, <1>3, <1>4, <1>5, <1>6

\* A step that makes somebody a cashier does so within the limit it was checked
\* against, unless a role was revoked that an open request had seen.
LEMMA CashiersMadeWithinLimit ==
  ASSUME SubInv, SubInv', [Next]_vars, NEW q \in Request, req'[q] # req[q],
         Cardinality(Cashiers') > Cardinality(Cashiers)
  PROVE  \/ raced
         \/ req[q].cashiers = Null
         \/ Cardinality(Cashiers') <= req[q].cashiers
<1> USE DEF SubInv
<1>1. /\ RequestOK(q) /\ req[q].cashiers \in Nat \cup {Null}
      /\ req \in [Request -> RequestRow]
  BY DEF RequestsOK, Types, RequestRow
<1>2. ASSUME Cashiers' \subseteq Cashiers PROVE FALSE
  <2>1. /\ IsFiniteSet(Cashiers) /\ Cardinality(Cashiers) \in Nat
        /\ Cardinality(Cashiers') \in Nat /\ Cardinality(Cashiers') <= Cardinality(Cashiers)
    BY <1>2, PeopleFinite, FS_Subset, FS_CardinalityType
  <2> QED
    BY <2>1
<1>3. ASSUME role' = role PROVE FALSE
  <2>1. \A x \in Person \cup {System}, y \in Scope : role[x][y] > 0 => x \in member
    BY DEF RolesOK
  <2>2. member' \subseteq Person \cup {System}
    BY DEF Types
  <2>3. Cashiers' \subseteq Cashiers
    BY <1>3, <2>1, <2>2 DEF Cashiers
  <2> QED
    BY <1>2, <2>3
<1>4. ASSUME NEW o \in Request, revokeRole(o) PROVE FALSE
  <2>1. PICK p, s : role' = [role EXCEPT ![p][s] = @ - 1] /\ role[p][s] > 0
    BY <1>4 DEF revokeRole
  <2>2. role \in [Person \cup {System} -> [Scope -> Nat]] /\ member' = member
        /\ member \subseteq Person \cup {System}
    BY <1>4 DEF revokeRole, Types
  <2>3. \A x \in Person \cup {System}, y \in Scope : role'[x][y] > 0 => role[x][y] > 0
    <3> SUFFICES ASSUME NEW x \in Person \cup {System}, NEW y \in Scope, role'[x][y] > 0
                 PROVE  role[x][y] > 0
      OBVIOUS
    <3>1. CASE x = p /\ y = s
      BY <2>1, <3>1
    <3>2. CASE ~(x = p /\ y = s)
      BY <2>1, <2>2, <3>2
    <3> QED
      BY <3>1, <3>2
  <2>4. Cashiers' \subseteq Cashiers
    BY <2>2, <2>3 DEF Cashiers
  <2> QED
    BY <1>2, <2>4
<1>5. ASSUME NEW o \in Request, InsertRole(o) PROVE o = q
  BY <1>1, <1>5 DEF InsertRole, Go
<1>6. CASE InsertRole(q)
  <2>1. /\ Cashiers' \subseteq Cashiers \cup {req[q].who}
        /\ Cardinality(Cashiers) \in Nat /\ Cardinality(Cashiers') \in Nat
        /\ Cardinality(Cashiers') <= Cardinality(Cashiers) + 1
    BY <1>6, OneCashierMore
  <2>2. req[q].step = "insert"
    BY <1>6 DEF InsertRole, At
  <2>3. CASE req[q].known /\ ~raced
    <3>1. req[q].who \in Cashiers
      BY <1>1, <2>2, <2>3 DEF RequestOK
    <3> QED
      BY <1>2, <2>1, <3>1
  <2>4. CASE ~req[q].known /\ ~raced /\ req[q].cashiers # Null
    <3>1. Cardinality(Cashiers) < req[q].cashiers /\ req[q].cashiers \in Nat
      BY <1>1, <2>2, <2>4 DEF RequestOK
    <3> QED
      BY <2>1, <3>1
  <2> QED
    BY <1>1, <2>3, <2>4 DEF RequestRow
<1> QED
  BY <1>3, <1>4, <1>5, <1>6
     DEF Next, vars, company, Guard, Continue, CreateFirst, Expire, Lock, createUser,
         createBranch, connect, ReadRole, LockRole, CheckRole, Abort, Commission,
         ReadReferral, PayCommission, setSubscriptionStatus, changeSubscriptionPlan,
         updatePlan, extendSubscriptionTrial, setSubscriptionOverrides, TrialEnds, Administer

\* Nobody becomes a member, no branch is opened and nobody becomes a cashier, as a
\* new user or as a member who is given the role, beyond the limit the request was
\* checked against, whatever requests and administrators do in between
\* (iam.service.ts, tenancy.service.ts: assertWithinLimit).
THEOREM LimitsAlwaysHold == Spec => LimitsHold
<1> DEFINE Made ==
             \A q \in Request : req'[q] # req[q] /\ req[q].limit # Null =>
                /\ member' \ {System} # member \ {System} =>
                      Cardinality(member' \ {System}) <= req[q].limit
                /\ branches' # branches => branches' <= req[q].limit
           Sells ==
             \A q \in Request :
                req'[q] # req[q] /\ Cardinality(Cashiers') > Cardinality(Cashiers) =>
                   \/ raced
                   \/ req[q].cashiers = Null
                   \/ Cardinality(Cashiers') <= req[q].cashiers
<1>1. ASSUME SubInv, [Next]_vars PROVE Made
  BY <1>1, MadeWithinLimit
<1>2. ASSUME SubInv, SubInv', [Next]_vars PROVE Sells
  BY <1>2, CashiersMadeWithinLimit
<1>3. Spec => [][Made]_vars
  BY <1>1, SubInvariant, PTL DEF Spec
<1>4. Spec => [][Sells]_vars
  BY <1>2, SubInvariant, PTL DEF Spec
<1> QED
  BY <1>3, <1>4 DEF LimitsHold, CreationsWithinLimit, CashiersWithinLimit

\* A trial that ended is reopened by an administrator only: not by the guard, not by
\* a request that finds no subscription, not by another change to the row
\* (subscription.service.ts, loadContext and createInitialSubscription).
THEOREM TrialsGivenOnce == Spec => TrialGivenOnce
<1> DEFINE Once == sub.exists /\ sub.over /\ ~sub'.over => admin' # admin
<1>1. ASSUME SubInv, [Next]_vars PROVE Once
  <2>1. sub \in SubscriptionRow /\ admin \in Nat
    BY <1>1, SubscriptionAssumption DEF SubInv, Types
  <2>2. CASE sub' = sub
    BY <2>2
  <2>3. CASE admin' = admin + 1
    BY <2>1, <2>3
  <2>4. ASSUME NEW q \in Request, CreateFirst(q) \/ Expire(q) PROVE Once
    BY <2>1, <2>4 DEF CreateFirst, Expire, SubscriptionRow
  <2>5. CASE TrialEnds
    BY <2>1, <2>5 DEF TrialEnds, SubscriptionRow
  <2> QED
    BY <1>1, <2>2, <2>3, <2>4, <2>5
       DEF Next, vars, Guard, Continue, Lock, createUser, createBranch, connect, ReadRole,
           LockRole, CheckRole, InsertRole, revokeRole, Abort, Commission, ReadReferral,
           PayCommission, setSubscriptionStatus, changeSubscriptionPlan, updatePlan,
           extendSubscriptionTrial, setSubscriptionOverrides, Administer
<1>2. Spec => [][Once]_vars
  BY <1>1, SubInvariant, PTL DEF Spec
<1> QED
  BY <1>2 DEF TrialGivenOnce

=============================================================================
