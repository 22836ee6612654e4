---------------------------- MODULE Subscription ----------------------------
(***************************************************************************)
(* The subscription of one company: the guard every request passes         *)
(* (subscription.guard.ts, subscription.service.ts), the creations its     *)
(* limits hold back (iam.service.ts, tenancy.service.ts), and the platform *)
(* administrators who change it and pay a commission for an activation     *)
(* (platform-admin.service.ts, affiliates.service.ts).                     *)
(*                                                                         *)
(* The guard is a transaction of its own, before the one of the request.   *)
(* Transactions are READ COMMITTED: a step is a statement, or several that *)
(* the lock of the subscription row keeps together.                        *)
(***************************************************************************)
EXTENDS Integers, FiniteSets, FiniteSetsExt

CONSTANTS
    Person,         \* accounts that can become members
    System,         \* the account of the Qeedha integration
    Branch,         \* branches a role can be limited to
    Everywhere,     \* a role that is not limited to a branch
    Plan,           \* the plans on offer
    Professional,   \* the plan of a company that never chose one
    Terms,          \* rows a plan can have: price, users, cashiers, branches, sells
    Catalogue,      \* the rows the plans have at first
    Override,       \* values an administrator overrides a limit with
    Request,        \* requests that can be open at the same time
    Nobody,
    MaxEvents,      \* bound: requests of the company and changes by administrators
    MaxAdmin        \* bound: the changes by administrators among them

\* An override that is not set; a plan without a limit.
Null == -1

ASSUME SubscriptionAssumption ==
    /\ IsFiniteSet(Person) /\ Person # {} /\ System \notin Person
    /\ IsFiniteSet(Request) /\ Nobody \notin Request
    /\ Everywhere \notin Branch
    /\ Professional \in Plan
    /\ Terms \subseteq [price : Nat, users : Nat \cup {Null}, cashiers : Nat \cup {Null},
                        branches : Nat \cup {Null}, sells : BOOLEAN]
    /\ Catalogue \in [Plan -> Terms]
    /\ Override \subseteq Nat
    /\ {MaxEvents, MaxAdmin} \subseteq Nat

VARIABLES
    plan,       \* plan[p]: the row of plans
    sub,        \* the row of subscriptions
    member,     \* accounts with an active membership
    role,       \* role[p][s]: rows that make p a cashier in scope s
    branches,   \* number of branches
    lock,       \* the request that locked the row of subscriptions
    req,        \* the requests
    paid,       \* amount of the affiliate's commission, or Null
    due,        \* prices of the plan at the activations so far
    asked,      \* requests made by the company
    admin,      \* changes made by administrators
    lost,       \* an activation was cut off before its commission
    raced       \* somebody lost a role that an open request had seen

company == <<member, role, branches>>
vars == <<plan, sub, company, lock, req, paid, due, asked, admin, lost, raced>>

-----------------------------------------------------------------------------
Status == {"trialing", "active", "expired", "suspended", "cancelled"}

Restricted == {"expired", "suspended", "cancelled"}

Scope == Branch \cup {Everywhere}

Resource == {"users", "cashiers", "branches"}

\* over: trialEndsAt has passed.  sells: productsOverride,
\* when it is set to a list without this product.
NoSubscription == [exists |-> FALSE, status |-> "trialing", over |-> FALSE,
                   plan |-> Professional, override |-> [r \in Resource |-> Null],
                   sells |-> "unset"]

Fresh == [NoSubscription EXCEPT !.exists = TRUE]

\* step: what the request does next.  limit, cashiers: the limits it was checked
\* against, 0 before a check.  known: it saw that who is a cashier already.
\* price: the price at an activation.
Idle == [step |-> "idle", op |-> "none", who |-> Nobody, at |-> Everywhere,
         role |-> "none", limit |-> 0, cashiers |-> 0, known |-> FALSE, price |-> 0]

Step == {"idle", "first", "expire", "ready", "make", "assign", "lock", "check",
         "insert", "pay", "paying"}

-----------------------------------------------------------------------------
\* computeEffectiveStatus
EffectiveStatus(s) == IF s.status = "trialing" /\ s.over THEN "expired" ELSE s.status

Row == plan[sub.plan]

\* resourceUsage: an override wins, zero included.
Limit(r) == IF sub.override[r] # Null THEN sub.override[r] ELSE Row[r]

\* countActiveMembershipsWithRole: people, not rows.
Cashiers == {p \in member : \E s \in Scope : role[p][s] > 0}

Used(r) ==
    CASE r = "users" -> Cardinality(member)
      [] r = "cashiers" -> Cardinality(Cashiers)
      [] r = "branches" -> branches

Within(r) == Limit(r) = Null \/ Used(r) < Limit(r)

\* What the company has bought, for the merchant's view and for the guard.
effectiveProducts == sub.sells = "unset" /\ Row.sells

hasProduct == Row.sells

-----------------------------------------------------------------------------
Init ==
    /\ plan = Catalogue
    /\ sub \in {NoSubscription, Fresh}
    /\ member = {CHOOSE p \in Person : TRUE}
    /\ role = [p \in Person \cup {System} |-> [s \in Scope |-> 0]]
    /\ branches = 1
    /\ lock = Nobody
    /\ req = [q \in Request |-> Idle]
    /\ paid = Null /\ due = {}
    /\ asked = 0 /\ admin = 0
    /\ lost = FALSE /\ raced = FALSE

At(q, s) == req[q].step = s

Go(q, r) == req' = [req EXCEPT ![q] = r]

Free == lock = Nobody

-----------------------------------------------------------------------------
\* What a request of the company asks for.
Ask(op, p, s, as) ==
    [Idle EXCEPT !.op = op, !.who = p, !.at = s, !.role = as]

Asked ==
    {Ask("createUser", p, Everywhere, "none") : p \in Person}
    \cup {Ask("createUser", p, s, "cashier") : p \in Person, s \in Scope}
    \cup {Ask("assignRole", p, s, "none") : p \in member \ {System}, s \in Scope}
    \cup {Ask("revokeRole", p, s, "none") : p \in Cashiers, s \in Scope}
    \cup {Ask(o, Nobody, Everywhere, "none") : o \in {"createBranch", "connect"}}

\* The guard reads the row.  A request it turns away changes nothing.
Guard(q) ==
    /\ At(q, "idle")
    /\ asked + admin < MaxEvents /\ asked' = asked + 1
    /\ \E r \in Asked :
          \/ ~sub.exists /\ Go(q, [r EXCEPT !.step = "first"])
          \/ /\ sub.exists /\ EffectiveStatus(sub) # sub.status
             /\ Go(q, [Idle EXCEPT !.step = "expire"])
          \/ /\ sub.exists /\ EffectiveStatus(sub) = sub.status
             /\ hasProduct /\ sub.status \notin Restricted
             /\ Go(q, [r EXCEPT !.step = "ready"])
    /\ UNCHANGED <<plan, sub, company, lock, paid, due, admin, lost, raced>>

\* Faulty variant: a row that is there by now is replaced.
CreateFirstAnyway(q) ==
    /\ At(q, "first") /\ Free
    /\ sub' = Fresh
    /\ Go(q, [req[q] EXCEPT !.step = IF plan[Professional].sells THEN "ready" ELSE "idle"])
    /\ UNCHANGED <<plan, company, lock, paid, due, asked, admin, lost, raced>>

\* createInitialSubscription for a company without a row: the unique index refuses
\* the second of two.
CreateFirst(q) ==
    /\ At(q, "first")
    /\ ~sub.exists
    /\ sub' = Fresh
    /\ Go(q, IF plan[Professional].sells THEN [req[q] EXCEPT !.step = "ready"] ELSE Idle)
    /\ UNCHANGED <<plan, company, lock, paid, due, asked, admin, lost, raced>>

\* loadContext writes what it computed from the row it read, and the guard then
\* turns the request away.
Expire(q) ==
    /\ At(q, "expire") /\ Free
    /\ sub' = [sub EXCEPT !.status = "expired"]
    /\ Go(q, Idle)
    /\ UNCHANGED <<plan, company, lock, paid, due, asked, admin, lost, raced>>

-----------------------------------------------------------------------------
\* Faulty variant: what is used is counted, but the row is not locked.
assertWithinLimitUnlocked(q, r) == Within(r) /\ UNCHANGED lock

\* SELECT ... FOR UPDATE of the row, which the transaction may have locked already.
assertWithinLimit(q, r) == lock \in {Nobody, q} /\ Within(r) /\ lock' = q

Unlock(q) == lock' = IF lock = q THEN Nobody ELSE lock

\* createUser and createBranch lock and count first.
Lock(q) ==
    /\ At(q, "ready")
    /\ \/ req[q].op = "createUser" /\ assertWithinLimit(q, "users")
          /\ Go(q, [req[q] EXCEPT !.step = "make", !.limit = Limit("users")])
       \/ req[q].op = "createBranch" /\ assertWithinLimit(q, "branches")
          /\ Go(q, [req[q] EXCEPT !.step = "make", !.limit = Limit("branches")])
    /\ UNCHANGED <<plan, sub, company, paid, due, asked, admin, lost, raced>>

\* Under the lock: one who is a member is refused.  The new membership is committed
\* at once, or with the role that assignRole goes on to give it; until then nobody
\* else sees it.
createUser(q) ==
    /\ At(q, "make") /\ req[q].op = "createUser"
    /\ req[q].who \notin member
    /\ \/ /\ req[q].role = "none"
          /\ member' = member \cup {req[q].who}
          /\ Unlock(q)
          /\ Go(q, Idle)
       \/ /\ req[q].role = "cashier"
          /\ Go(q, [req[q] EXCEPT !.step = "assign"])
          /\ UNCHANGED <<member, lock>>
    /\ UNCHANGED <<plan, sub, role, branches, paid, due, asked, admin, lost, raced>>

createBranch(q) ==
    /\ At(q, "make") /\ req[q].op = "createBranch"
    /\ branches' = branches + 1
    /\ Unlock(q)
    /\ Go(q, Idle)
    /\ UNCHANGED <<plan, sub, member, role, paid, due, asked, admin, lost, raced>>

\* The connection to Qeedha makes its account a member: no limit is asked.
connect(q) ==
    /\ At(q, "ready") /\ req[q].op = "connect"
    /\ System \notin member
    /\ member' = member \cup {System}
    /\ Go(q, Idle)
    /\ UNCHANGED <<plan, sub, role, branches, lock, paid, due, asked, admin, lost, raced>>

\* assignRole: one who is a cashier somewhere already is not counted again.
ReadRole(q) ==
    /\ At(q, "assign") \/ (At(q, "ready") /\ req[q].op = "assignRole")
    /\ LET known == req[q].who \in Cashiers
       IN  Go(q, [req[q] EXCEPT !.step = IF known THEN "check" ELSE "lock",
                                !.known = known])
    /\ UNCHANGED <<plan, sub, company, lock, paid, due, asked, admin, lost, raced>>

LockRole(q) ==
    /\ At(q, "lock")
    /\ assertWithinLimit(q, "cashiers")
    /\ Go(q, [req[q] EXCEPT !.step = "check", !.cashiers = Limit("cashiers")])
    /\ UNCHANGED <<plan, sub, company, paid, due, asked, admin, lost, raced>>

CheckRole(q) ==
    /\ At(q, "check")
    /\ role[req[q].who][req[q].at] = 0
    /\ Go(q, [req[q] EXCEPT !.step = "insert"])
    /\ UNCHANGED <<plan, sub, company, lock, paid, due, asked, admin, lost, raced>>

\* The members once the request has committed.
Joined(q) == IF req[q].op = "createUser" THEN member \cup {req[q].who} ELSE member

\* The unique index refuses a second row for a branch, but not one for everywhere.
InsertRole(q) ==
    /\ At(q, "insert")
    /\ req[q].at = Everywhere \/ role[req[q].who][req[q].at] = 0
    /\ role' = [role EXCEPT ![req[q].who][req[q].at] = @ + 1]
    /\ member' = Joined(q)
    /\ Unlock(q)
    /\ Go(q, Idle)
    /\ UNCHANGED <<plan, sub, branches, paid, due, asked, admin, lost, raced>>

revokeRole(q) ==
    /\ At(q, "ready") /\ req[q].op = "revokeRole"
    /\ role[req[q].who][req[q].at] > 0
    /\ role' = [role EXCEPT ![req[q].who][req[q].at] = @ - 1]
    /\ raced' = (raced \/ \E o \in Request : req[o].who = req[q].who /\ req[o].known)
    /\ Go(q, Idle)
    /\ UNCHANGED <<plan, sub, member, branches, lock, paid, due, asked, admin, lost>>

\* A request is refused, or its connection is lost: everything it did is undone.
Abort(q) ==
    /\ ~At(q, "idle")
    /\ lost' = (lost \/ req[q].step \in {"pay", "paying"})
    /\ Unlock(q)
    /\ Go(q, Idle)
    /\ UNCHANGED <<plan, sub, company, paid, due, asked, admin, raced>>

-----------------------------------------------------------------------------
\* Time passes the end of the trial.
TrialEnds ==
    /\ sub.exists /\ ~sub.over
    /\ sub' = [sub EXCEPT !.over = TRUE]
    /\ UNCHANGED <<plan, company, lock, req, paid, due, asked, admin, lost, raced>>

Administer ==
    /\ admin < MaxAdmin /\ asked + admin < MaxEvents
    /\ admin' = admin + 1
    /\ UNCHANGED <<company, lock, paid, asked, lost, raced>>

setStatus(s) == sub' = [sub EXCEPT !.status = s]

changePlan(p) == sub' = [sub EXCEPT !.plan = p]

extendTrial == sub' = [sub EXCEPT !.status = "trialing", !.over = FALSE]

\* setSubscriptionStatus; an activation goes on to the commission, with the price
\* it read, when its transaction has committed.
setSubscriptionStatus(q, s) ==
    /\ Administer
    /\ At(q, "idle") /\ Free /\ sub.exists
    /\ setStatus(s)
    /\ IF s = "active"
       THEN /\ due' = due \cup {Row.price}
            /\ Go(q, [Idle EXCEPT !.step = "pay", !.price = Row.price])
       ELSE UNCHANGED <<due, req>>
    /\ UNCHANGED plan

changeSubscriptionPlan(p) ==
    /\ Administer
    /\ Free /\ sub.exists
    /\ p # sub.plan
    /\ changePlan(p)
    /\ UNCHANGED <<plan, req, due>>

extendSubscriptionTrial ==
    /\ Administer
    /\ Free /\ sub.exists
    /\ extendTrial
    /\ UNCHANGED <<plan, req, due>>

setSubscriptionOverrides ==
    /\ Administer
    /\ Free /\ sub.exists
    /\ \/ \E r \in Resource, v \in Override \cup {Null} : sub' = [sub EXCEPT !.override[r] = v]
       \/ \E v \in {"unset", "no"} : sub' = [sub EXCEPT !.sells = v]
    /\ sub' # sub
    /\ UNCHANGED <<plan, req, due>>

\* updatePlan locks the plan, not the subscriptions that have it.
updatePlan(p) ==
    /\ Administer
    /\ \E t \in Terms \ {plan[p]} : plan' = [plan EXCEPT ![p] = t]
    /\ UNCHANGED <<sub, req, due>>

\* Faulty variant: the commission is taken from the plan as it is now.
ReadReferralAgain(q) ==
    /\ At(q, "pay")
    /\ Go(q, IF paid = Null /\ Row.price > 0
             THEN [req[q] EXCEPT !.step = "paying", !.price = Row.price] ELSE Idle)
    /\ UNCHANGED <<plan, sub, company, lock, paid, due, asked, admin, lost, raced>>

\* Faulty variant: a subscription that is no longer active pays nothing.
ReadReferralOfActive(q) ==
    /\ At(q, "pay")
    /\ Go(q, IF paid = Null /\ req[q].price > 0 /\ sub.status = "active"
             THEN [req[q] EXCEPT !.step = "paying"] ELSE Idle)
    /\ UNCHANGED <<plan, sub, company, lock, paid, due, asked, admin, lost, raced>>

\* computeCommissionForCompanyActivation looks for a commission, then inserts one;
\* the unique index refuses the second of two.
ReadReferral(q) ==
    /\ At(q, "pay")
    /\ Go(q, IF paid = Null /\ req[q].price > 0
             THEN [req[q] EXCEPT !.step = "paying"] ELSE Idle)
    /\ UNCHANGED <<plan, sub, company, lock, paid, due, asked, admin, lost, raced>>

PayCommission(q) ==
    /\ At(q, "paying")
    /\ paid' = IF paid = Null THEN req[q].price ELSE paid
    /\ Go(q, Idle)
    /\ UNCHANGED <<plan, sub, company, lock, due, asked, admin, lost, raced>>

-----------------------------------------------------------------------------
Continue(q) ==
    \/ CreateFirst(q) \/ Expire(q) \/ Lock(q) \/ createUser(q) \/ createBranch(q)
    \/ connect(q) \/ ReadRole(q) \/ LockRole(q) \/ CheckRole(q) \/ InsertRole(q)
    \/ revokeRole(q) \/ Abort(q)

Commission(q) == ReadReferral(q) \/ PayCommission(q)

Next ==
    \/ \E q \in Request :
          \/ Guard(q) \/ Continue(q) \/ Commission(q)
          \/ \E s \in Status : setSubscriptionStatus(q, s)
    \/ \E p \in Plan : changeSubscriptionPlan(p) \/ updatePlan(p)
    \/ extendSubscriptionTrial
    \/ setSubscriptionOverrides
    \/ TrialEnds

\* An activation goes on to its commission in the same handler.
Fairness == \A q \in Request : WF_vars(Commission(q))

Spec == Init /\ [][Next]_vars /\ Fairness

-----------------------------------------------------------------------------
TypeOK ==
    /\ plan \in [Plan -> Terms]
    /\ sub \in [exists : BOOLEAN, status : Status, over : BOOLEAN, plan : Plan,
                override : [Resource -> Override \cup {Null}],
                sells : {"unset", "no"}]
    /\ member \subseteq Person \cup {System}
    /\ role \in [Person \cup {System} -> [Scope -> 0..Cardinality(Request)]]
    /\ \A p \in Person \cup {System} : \A b \in Branch : role[p][b] <= 1
    /\ branches \in Nat \ {0}
    /\ lock \in Request \cup {Nobody}
    /\ \A q \in Request : req[q].step \in Step
    /\ paid \in Nat \cup {Null}
    /\ asked \in 0..MaxEvents /\ admin \in 0..MaxAdmin
    /\ lost \in BOOLEAN /\ raced \in BOOLEAN

\* Limits hold however many requests are open and whatever administrators change
\* meanwhile: no step of a request adds a person or a branch beyond the limit that
\* request was checked against, and none adds one without a check.  (The account of
\* the integration is added without a check.)
CreationsWithinLimit ==
    [][\A q \in Request : req'[q] # req[q] /\ req[q].limit # Null =>
          /\ member' \ {System} # member \ {System} =>
                Cardinality(member' \ {System}) <= req[q].limit
          /\ branches' # branches => branches' <= req[q].limit]_vars

\* The limit on cashiers likewise, for a new user with that role as for a member who
\* is given it, unless a role was taken away from somebody whom an open request had
\* seen with it and did not count again.
CashiersWithinLimit ==
    [][\A q \in Request :
          req'[q] # req[q] /\ Cardinality(Cashiers') > Cardinality(Cashiers) =>
             \/ raced
             \/ req[q].cashiers = Null
             \/ Cardinality(Cashiers') <= req[q].cashiers]_vars

\* Limits hold, on people and branches and on those who may sell.
LimitsHold == CreationsWithinLimit /\ CashiersWithinLimit

\* A trial that ended is reopened by an administrator and by nobody else, also when
\* several requests find a company without a subscription.
TrialGivenOnce == [][sub.exists /\ sub.over /\ ~sub'.over => admin' # admin]_vars

\* The commission is what the plan cost at an activation.
CommissionFromActivation == paid # Null => paid \in due

\* The books of the platform: types, and a commission that is due.
CommissionIsDue == TypeOK /\ CommissionFromActivation

\* An activation at a price is followed by a commission, whatever happens to the
\* subscription meanwhile, unless the process is lost in between.
CommissionPaid == (\E n \in due : n > 0) ~> (paid # Null \/ lost)

-----------------------------------------------------------------------------
\* Only a trial that ended expires by itself (subscription.service.ts:40-45).
OnlyTrialsExpire ==
    [][sub'.status = "expired" /\ sub'.status # sub.status /\ admin' = admin =>
          sub.status = "trialing" /\ sub.over]_vars

\* effectiveProducts is the only reading of the products (docs/DOMAIN_MODEL.md).
GuardReadsEffectiveProducts == sub.exists => hasProduct = effectiveProducts

\* A role is assigned once in a scope (iam.service.ts:264).
RoleAssignedOnce == \A p \in member, s \in Scope : role[p][s] <= 1

\* Whoever becomes a cashier was counted (docs/DOMAIN_MODEL.md).
NewCashiersAreCounted ==
    [][\A q \in Request :
          At(q, "insert") /\ Cardinality(Cashiers') > Cardinality(Cashiers)
          /\ req'[q].step = "idle" => ~req[q].known]_vars

\* Every activation at a price pays, also when the process is lost.
CommissionAlwaysPaid == (\E n \in due : n > 0) ~> (paid # Null)
=============================================================================
