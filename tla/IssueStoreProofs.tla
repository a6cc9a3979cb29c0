-------------------------- MODULE IssueStoreProofs --------------------------
(***************************************************************************)
(* The issue counters are exact and the limits hold, for any number of     *)
(* requests, checks and issues.  The counters bound the stored issues only *)
(* because they equal their number, so that equality, the finiteness of    *)
(* what is stored and the limits are one inductive invariant.              *)
(***************************************************************************)
EXTENDS IssueStore, FiniteSetTheorems, TLAPS

Finite ==
  /\ \A t \in Type : IsFiniteSet(StoredOfType(t))
  /\ \A s \in Severity : IsFiniteSet(StoredOfSeverity(s))
  /\ \A id \in Id : /\ IsFiniteSet(issue_per_id[id])
                    /\ IsFiniteSet(Types(issue_per_id[id]))

IInv ==
  /\ TypeOK
  /\ Finite
  /\ CountersMatchIssues
  /\ ReportedIssuesAreStored
  /\ IssueLimitsHold

-----------------------------------------------------------------------------
(* What storing one issue changes.                                         *)

\* The issues of one type of a finite set are finite.
LEMMA FiniteOfType ==
  ASSUME NEW S, IsFiniteSet(S), NEW t
  PROVE  IsFiniteSet(OfType(S, t))
<1>1. OfType(S, t) \subseteq S
  BY DEF OfType
<1> QED
  BY <1>1, FS_Subset

\* AddIssueDetails stores an accepted issue once, and nothing else.
LEMMA StoredAfterAccepting ==
  ASSUME TypeOK, NEW id \in Id, NEW i \in Issue, Accepted(id, i),
         AddIssueDetails(id, i)
  PROVE  /\ issue_per_id' = [issue_per_id EXCEPT ![id] = @ \cup {i}]
         /\ issue_per_id'[id] = issue_per_id[id] \cup {i}
         /\ \A d \in Id : d # id => issue_per_id'[d] = issue_per_id[d]
         /\ \A t \in Type : StoredOfType(t)' =
              IF t = i.type THEN StoredOfType(t) \cup {<<id, i>>}
              ELSE StoredOfType(t)
         /\ \A s \in Severity : StoredOfSeverity(s)' =
              IF s = i.severity THEN StoredOfSeverity(s) \cup {<<id, i>>}
              ELSE StoredOfSeverity(s)
         /\ \A t \in Type : <<id, i>> \notin StoredOfType(t)
         /\ \A s \in Severity : <<id, i>> \notin StoredOfSeverity(s)
<1>1. issue_per_id' = [issue_per_id EXCEPT ![id] = @ \cup {i}]
  BY DEF AddIssueDetails
<1>2. issue_per_id \in [Id -> SUBSET Issue]
  BY DEF TypeOK
<1>3. /\ issue_per_id'[id] = issue_per_id[id] \cup {i}
      /\ \A d \in Id : d # id => issue_per_id'[d] = issue_per_id[d]
  BY <1>1, <1>2
<1>4. i \notin issue_per_id[id]
  BY DEF Accepted
<1>5. ASSUME NEW p \in Id \X Issue
      PROVE  p[2] \in issue_per_id'[p[1]] <=>
               p[2] \in issue_per_id[p[1]] \/ p = <<id, i>>
  BY <1>3
<1>6. ASSUME NEW t \in Type
      PROVE  /\ StoredOfType(t)' =
                  IF t = i.type THEN StoredOfType(t) \cup {<<id, i>>}
                  ELSE StoredOfType(t)
             /\ <<id, i>> \notin StoredOfType(t)
  <2>1. StoredOfType(t)' =
          {p \in Id \X Issue : p[2] \in issue_per_id'[p[1]] /\ p[2].type = t}
    BY DEF StoredOfType
  <2>2. <<id, i>> \in Id \X Issue /\ <<id, i>>[1] = id /\ <<id, i>>[2] = i
    OBVIOUS
  <2>3. <<id, i>> \notin StoredOfType(t)
    BY <1>4, <2>2 DEF StoredOfType
  <2>4. ASSUME NEW p \in Id \X Issue
        PROVE  p \in StoredOfType(t)' <=>
                 p \in StoredOfType(t) \/ (p = <<id, i>> /\ i.type = t)
    BY <1>5, <2>1, <2>2 DEF StoredOfType
  <2>5. StoredOfType(t)' \subseteq Id \X Issue /\ StoredOfType(t) \subseteq Id \X Issue
    BY <2>1 DEF StoredOfType
  <2>6. CASE t = i.type
    BY <2>2, <2>3, <2>4, <2>5, <2>6
  <2>7. CASE t # i.type
    BY <2>3, <2>4, <2>5, <2>7
  <2> QED
    BY <2>6, <2>7
<1>7. ASSUME NEW s \in Severity
      PROVE  /\ StoredOfSeverity(s)' =
                  IF s = i.severity THEN StoredOfSeverity(s) \cup {<<id, i>>}
                  ELSE StoredOfSeverity(s)
             /\ <<id, i>> \notin StoredOfSeverity(s)
  <2>1. StoredOfSeverity(s)' =
          {p \in Id \X Issue :
             p[2] \in issue_per_id'[p[1]] /\ p[2].severity = s}
    BY DEF StoredOfSeverity
  <2>2. <<id, i>> \in Id \X Issue /\ <<id, i>>[1] = id /\ <<id, i>>[2] = i
    OBVIOUS
  <2>3. <<id, i>> \notin StoredOfSeverity(s)
    BY <1>4, <2>2 DEF StoredOfSeverity
  <2>4. ASSUME NEW p \in Id \X Issue
        PROVE  p \in StoredOfSeverity(s)' <=>
                 p \in StoredOfSeverity(s) \/ (p = <<id, i>> /\ i.severity = s)
    BY <1>5, <2>1, <2>2 DEF StoredOfSeverity
  <2>5. StoredOfSeverity(s)' \subseteq Id \X Issue /\ StoredOfSeverity(s) \subseteq Id \X Issue
    BY <2>1 DEF StoredOfSeverity
  <2>6. CASE s = i.severity
    BY <2>2, <2>3, <2>4, <2>5, <2>6
  <2>7. CASE s # i.severity
    BY <2>3, <2>4, <2>5, <2>7
  <2> QED
    BY <2>6, <2>7
<1> QED
  BY <1>1, <1>3, <1>6, <1>7

-----------------------------------------------------------------------------
\* The store starts empty.
LEMMA InitHolds == Init => IInv
<1> SUFFICES ASSUME Init PROVE IInv
  OBVIOUS
<1>1. \A id \in Id : issue_per_id[id] = {} /\ request_issues[id] = {}
  BY DEF Init
<1>2. /\ \A t \in Type : StoredOfType(t) = {}
      /\ \A s \in Severity : StoredOfSeverity(s) = {}
  BY <1>1 DEF StoredOfType, StoredOfSeverity
<1>3. Types({}) = {} /\ \A t : OfType({}, t) = {}
  BY DEF Types, OfType
<1>4. TypeOK
  BY IssueStoreAssumption DEF Init, TypeOK
<1>5. Finite
  BY <1>1, <1>2, <1>3, FS_EmptySet DEF Finite
<1>6. CountersMatchIssues
  BY <1>2, FS_EmptySet DEF CountersMatchIssues, Init
<1>7. ReportedIssuesAreStored
  BY <1>1 DEF ReportedIssuesAreStored
<1>8. IssueLimitsHold
  <2>1. CheckUrlLimitHolds
    BY <1>1, <1>3, FS_EmptySet, IssueStoreAssumption DEF CheckUrlLimitHolds
  <2>2. CheckLimitHolds
    BY <1>2, FS_EmptySet, IssueStoreAssumption DEF CheckLimitHolds
  <2>3. UrlTypeLimitHolds
    BY <1>1, <1>3, FS_EmptySet, IssueStoreAssumption DEF UrlTypeLimitHolds
  <2> QED
    BY <2>1, <2>2, <2>3 DEF IssueLimitsHold
<1> QED
  BY <1>4, <1>5, <1>6, <1>7, <1>8 DEF IInv

\* A step that leaves the issues and the counters alone keeps the invariant.
LEMMA NothingStored ==
  ASSUME IInv, request_id' \in 0..MaxRequests, request_id <= request_id',
         UNCHANGED <<issue_per_id, request_issues, check_issue_counters,
                     issue_count_per_severity>>
  PROVE  IInv'
<1>1. TypeOK'
  BY DEF IInv, TypeOK
<1>2. /\ \A t \in Type : StoredOfType(t)' = StoredOfType(t)
      /\ \A s \in Severity : StoredOfSeverity(s)' = StoredOfSeverity(s)
  BY DEF StoredOfType, StoredOfSeverity
<1>3. Finite'
  BY <1>2 DEF IInv, Finite
<1>4. CountersMatchIssues'
  BY <1>2 DEF IInv, CountersMatchIssues
<1>5. ReportedIssuesAreStored'
  BY <1>1 DEF IInv, TypeOK, ReportedIssuesAreStored, Id
<1>6. IssueLimitsHold'
  BY <1>2 DEF IInv, IssueLimitsHold, CheckUrlLimitHolds, CheckLimitHolds,
              UrlTypeLimitHolds
<1> QED
  BY <1>1, <1>3, <1>4, <1>5, <1>6 DEF IInv

\* An issue that passes the limits is stored, counted and reported together.
LEMMA AcceptedKeepsInvariant ==
  ASSUME IInv, NEW id \in Id, NEW i \in Issue, Accepted(id, i),
         AddIssueDetails(id, i)
  PROVE  IInv'
<1> USE DEF IInv
<1>0. i.type \in Type /\ i.severity \in Severity
  BY DEF Issue
<1>1. /\ issue_per_id'[id] = issue_per_id[id] \cup {i}
      /\ \A d \in Id : d # id => issue_per_id'[d] = issue_per_id[d]
      /\ \A t \in Type : StoredOfType(t)' =
           IF t = i.type THEN StoredOfType(t) \cup {<<id, i>>}
           ELSE StoredOfType(t)
      /\ \A s \in Severity : StoredOfSeverity(s)' =
           IF s = i.severity THEN StoredOfSeverity(s) \cup {<<id, i>>}
           ELSE StoredOfSeverity(s)
      /\ \A t \in Type : <<id, i>> \notin StoredOfType(t)
      /\ \A s \in Severity : <<id, i>> \notin StoredOfSeverity(s)
  BY StoredAfterAccepting
<1>2. /\ check_issue_counters' = [check_issue_counters EXCEPT ![i.type] = @ + 1]
      /\ issue_count_per_severity' =
           [issue_count_per_severity EXCEPT ![i.severity] = @ + 1]
      /\ request_issues' = [request_issues EXCEPT ![id] = @ \cup {i}]
      /\ issue_per_id' = [issue_per_id EXCEPT ![id] = @ \cup {i}]
      /\ request_id' = request_id
  BY DEF AddIssueDetails
<1>3. TypeOK'
  BY <1>0, <1>2 DEF TypeOK
<1>4. Types(issue_per_id'[id]) = Types(issue_per_id[id]) \cup {i.type}
  BY <1>1 DEF Types
<1>5. Finite'
  <2>1. \A t \in Type : IsFiniteSet(StoredOfType(t)')
    BY <1>1, FS_AddElement DEF Finite
  <2>2. \A s \in Severity : IsFiniteSet(StoredOfSeverity(s)')
    BY <1>1, FS_AddElement DEF Finite
  <2>3. IsFiniteSet(issue_per_id'[id]) /\ IsFiniteSet(Types(issue_per_id'[id]))
    <3>1. IsFiniteSet(issue_per_id[id]) /\ IsFiniteSet(Types(issue_per_id[id]))
      BY DEF Finite
    <3>2. /\ IsFiniteSet(issue_per_id[id] \cup {i})
          /\ IsFiniteSet(Types(issue_per_id[id]) \cup {i.type})
      BY <3>1, FS_AddElement
    <3> QED
      BY <1>1, <1>4, <3>2
  <2>4. \A d \in Id : /\ IsFiniteSet(issue_per_id'[d])
                      /\ IsFiniteSet(Types(issue_per_id'[d]))
    BY <1>1, <2>3 DEF Finite
  <2> QED
    BY <2>1, <2>2, <2>4 DEF Finite
<1>6. \A t \in Type : Cardinality(StoredOfType(t)') =
        IF t = i.type THEN Cardinality(StoredOfType(t)) + 1
        ELSE Cardinality(StoredOfType(t))
  <2> SUFFICES ASSUME NEW t \in Type
               PROVE  Cardinality(StoredOfType(t)') =
                        IF t = i.type THEN Cardinality(StoredOfType(t)) + 1
                        ELSE Cardinality(StoredOfType(t))
    OBVIOUS
  <2>1. IsFiniteSet(StoredOfType(t)) /\ <<id, i>> \notin StoredOfType(t)
    BY <1>1 DEF Finite
  <2>2. Cardinality(StoredOfType(t) \cup {<<id, i>>}) = Cardinality(StoredOfType(t)) + 1
    BY <2>1, FS_AddElement
  <2> QED
    BY <1>1, <2>2
<1>7. \A s \in Severity : Cardinality(StoredOfSeverity(s)') =
        IF s = i.severity THEN Cardinality(StoredOfSeverity(s)) + 1
        ELSE Cardinality(StoredOfSeverity(s))
  <2> SUFFICES ASSUME NEW s \in Severity
               PROVE  Cardinality(StoredOfSeverity(s)') =
                        IF s = i.severity THEN Cardinality(StoredOfSeverity(s)) + 1
                        ELSE Cardinality(StoredOfSeverity(s))
    OBVIOUS
  <2>1. IsFiniteSet(StoredOfSeverity(s)) /\ <<id, i>> \notin StoredOfSeverity(s)
    BY <1>1 DEF Finite
  <2>2. Cardinality(StoredOfSeverity(s) \cup {<<id, i>>}) = Cardinality(StoredOfSeverity(s)) + 1
    BY <2>1, FS_AddElement
  <2> QED
    BY <1>1, <2>2
<1>8. CountersMatchIssues'
  BY <1>0, <1>2, <1>6, <1>7 DEF CountersMatchIssues, TypeOK
<1>9. ReportedIssuesAreStored'
  <2>1. id <= request_id
    BY DEF Accepted
  <2> QED
    BY <1>2, <2>1 DEF ReportedIssuesAreStored, TypeOK
<1>10. ASSUME MaxIssuesPerCheckPerUrl > 0
       PROVE  CheckUrlLimitHolds'
  <2> SUFFICES ASSUME NEW d \in Id, NEW t \in Type
               PROVE  Cardinality(OfType(issue_per_id'[d], t))
                        <= MaxIssuesPerCheckPerUrl
    BY DEF CheckUrlLimitHolds
  <2>1. Cardinality(OfType(issue_per_id[d], t)) <= MaxIssuesPerCheckPerUrl
    BY <1>10 DEF IssueLimitsHold, CheckUrlLimitHolds
  <2>2. CASE d # id
    BY <1>1, <2>1, <2>2
  <2>3. CASE d = id /\ t # i.type
    <3>1. OfType(issue_per_id'[d], t) = OfType(issue_per_id[d], t)
      BY <1>1, <2>3 DEF OfType
    <3> QED
      BY <2>1, <3>1
  <2>4. CASE d = id /\ t = i.type
    <3>1. OfType(issue_per_id'[d], t) = OfType(issue_per_id[d], t) \cup {i}
      BY <1>1, <2>4 DEF OfType
    <3>2. IsFiniteSet(OfType(issue_per_id[d], t))
      BY FiniteOfType DEF Finite
    <3>3. i \notin OfType(issue_per_id[d], t)
      BY <2>4 DEF OfType, Accepted
    <3>4. /\ Cardinality(OfType(issue_per_id'[d], t)) =
               Cardinality(OfType(issue_per_id[d], t)) + 1
          /\ Cardinality(OfType(issue_per_id[d], t)) \in Nat
      BY <3>1, <3>2, <3>3, FS_AddElement, FS_CardinalityType
    <3>5. CASE issue_per_id[d] = {}
      <4>1. OfType(issue_per_id[d], t) = {}
        BY <3>5 DEF OfType
      <4> QED
        BY <3>4, <4>1, <1>10, FS_EmptySet, IssueStoreAssumption
    <3>6. CASE issue_per_id[d] # {}
      <4>1. Cardinality(OfType(issue_per_id[d], t)) # MaxIssuesPerCheckPerUrl
        BY <2>4, <3>6 DEF Accepted, CheckUrlLimitReached
      <4> QED
        BY <2>1, <3>4, <4>1, IssueStoreAssumption
    <3> QED
      BY <3>5, <3>6
  <2> QED
    BY <2>2, <2>3, <2>4
<1>11. ASSUME MaxIssuesPerCheck > 0
       PROVE  CheckLimitHolds'
  <2> SUFFICES ASSUME NEW t \in Type
               PROVE  Cardinality(StoredOfType(t)') <= MaxIssuesPerCheck
    BY DEF CheckLimitHolds
  <2>1. /\ Cardinality(StoredOfType(t)) <= MaxIssuesPerCheck
        /\ Cardinality(StoredOfType(t)) \in Nat
    BY <1>11, FS_CardinalityType DEF IssueLimitsHold, CheckLimitHolds, Finite
  <2>2. CASE t # i.type
    BY <1>6, <2>1, <2>2
  <2>3. CASE t = i.type
    <3>1. \/ Cardinality(StoredOfType(t)) = 0
          \/ Cardinality(StoredOfType(t)) # MaxIssuesPerCheck
      BY <1>0, <2>3 DEF Accepted, CheckLimitReached, CountersMatchIssues
    <3> QED
      BY <1>6, <1>11, <2>1, <2>3, <3>1, IssueStoreAssumption
  <2> QED
    BY <2>2, <2>3
<1>12. UrlTypeLimitHolds'
  <2> SUFFICES ASSUME NEW d \in Id
               PROVE  Cardinality(Types(issue_per_id'[d])) <= MaxIssuesPerUrl
    BY DEF UrlTypeLimitHolds
  <2>1. Cardinality(Types(issue_per_id[d])) <= MaxIssuesPerUrl
    BY DEF IssueLimitsHold, UrlTypeLimitHolds
  <2>2. CASE d # id
    BY <1>1, <2>1, <2>2
  <2>3. CASE d = id
    <3>1. Cardinality(Types(issue_per_id[d])) # MaxIssuesPerUrl
      BY <2>3 DEF Accepted, UrlLimitReached, ReportedIssuesAreStored
    <3>2. /\ Cardinality(Types(issue_per_id[d])) \in Nat
          /\ Cardinality(Types(issue_per_id'[d]))
               <= Cardinality(Types(issue_per_id[d])) + 1
      <4>1. IsFiniteSet(Types(issue_per_id[d]))
        BY DEF Finite
      <4>2. /\ Cardinality(Types(issue_per_id[d])) \in Nat
            /\ Cardinality(Types(issue_per_id[d]) \cup {i.type})
                 <= Cardinality(Types(issue_per_id[d])) + 1
        BY <4>1, FS_AddElement, FS_CardinalityType
      <4> QED
        BY <1>4, <2>3, <4>2
    <3>3. Cardinality(Types(issue_per_id'[d])) \in Nat
      BY <1>5, FS_CardinalityType DEF Finite
    <3> QED
      BY <2>1, <3>1, <3>2, <3>3, IssueStoreAssumption
  <2> QED
    BY <2>2, <2>3
<1>13. IssueLimitsHold'
  BY <1>10, <1>11, <1>12 DEF IssueLimitsHold
<1> QED
  BY <1>3, <1>5, <1>8, <1>9, <1>13

-----------------------------------------------------------------------------
\* The inductive invariant holds in every reachable state.
THEOREM IssueStoreInvariant == Spec => []IInv
<1>1. IInv /\ [Next]_vars => IInv'
  <2> SUFFICES ASSUME IInv, [Next]_vars PROVE IInv'
    OBVIOUS
  <2>1. CASE AddRequestToIdMap
    BY <2>1, NothingStored, IssueStoreAssumption
       DEF AddRequestToIdMap, IInv, TypeOK
  <2>2. ASSUME NEW id \in Id, NEW i \in Issue, AddIssueDetails(id, i)
        PROVE  IInv'
    <3>1. CASE Accepted(id, i)
      BY <2>2, <3>1, AcceptedKeepsInvariant
    <3>2. CASE ~Accepted(id, i)
      BY <2>2, <3>2, NothingStored DEF AddIssueDetails, IInv, TypeOK
    <3> QED
      BY <3>1, <3>2
  <2>3. CASE UNCHANGED vars
    BY <2>3, NothingStored DEF vars, IInv, TypeOK
  <2> QED
    BY <2>1, <2>2, <2>3 DEF Next
<1> QED
  BY <1>1, InitHolds, PTL DEF Spec

\* The state of the issue store always has its type.
THEOREM IssueStoreTypeCorrect == Spec => []TypeOK
<1>1. IInv => TypeOK
  BY DEF IInv
<1> QED
  BY <1>1, IssueStoreInvariant, PTL

\* The counters of the checks and of the severities are exact, whatever was
\* discarded by AddIssueDetails.
THEOREM IssueCountersAreExact == Spec => []CountersMatchIssues
<1>1. IInv => CountersMatchIssues
  BY DEF IInv
<1> QED
  BY <1>1, IssueStoreInvariant, PTL

\* What the reporters print is what the store owns.
THEOREM ReportsShowStoredIssues == Spec => []ReportedIssuesAreStored
<1>1. IInv => ReportedIssuesAreStored
  BY DEF IInv
<1> QED
  BY <1>1, IssueStoreInvariant, PTL

\* The three limits of AddIssueDetails hold, for every value of the flags (the
\* two limits per check if they are not 0).
THEOREM IssueLimitsAreRespected == Spec => []IssueLimitsHold
<1>1. IInv => IssueLimitsHold
  BY DEF IInv
<1> QED
  BY <1>1, IssueStoreInvariant, PTL

=============================================================================
