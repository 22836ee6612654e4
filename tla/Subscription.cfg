\* Two requests, two people, two changes by administrators.
CONSTANTS
    Person = {owner, p}
    System = System
    Branch = {b}
    Everywhere = Everywhere
    starter = starter
    professional = professional
    Plan = {starter, professional}
    Professional = professional
    Terms <- MCTerms
    Catalogue <- MCCatalogue
    Override = {0}
    Request = {q1, q2}
    Nobody = Nobody
    MaxEvents = 4
    MaxAdmin = 2
SPECIFICATION Spec
\* A company that is restricted for good has nothing to do.
CHECK_DEADLOCK FALSE
INVARIANTS
    CommissionIsDue
PROPERTIES
    LimitsHold
    TrialGivenOnce
    CommissionPaid
