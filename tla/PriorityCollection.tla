------------------------- MODULE PriorityCollection -------------------------
(***************************************************************************)
(* Priority Policy v1 for the threads of a mailbox: admission of the newest     *)
(* candidates, their evaluation, the final order, and the envelope that a       *)
(* delivery returns.  Each stage throws a TypeError (Invalid) unless its         *)
(* input is well formed, whatever the stage before it has checked.             *)
(***************************************************************************)
EXTENDS PriorityPolicy, SequencesExt

CONSTANTS
  CandidateLimit,      \* 100
  EvaluationValidity,  \* 5 minutes
  StaleRetention,      \* 24 hours
  Invalid              \* TypeError

Coverages == {"READY", "PARTIAL"}
CandidateScope == [required |-> {"INBOX"}, absent |-> {"SPAM", "TRASH"}]
EvidenceKinds == <<"CANDIDATE_TIMESTAMP", "POLICY_LABELS", "USER_CORRECTIONS">>

BoundCandidates == [candidate: Candidates, evaluation: Evaluations]

Collections ==
  [evaluatedAt: Times, validThrough: Times, staleRetentionThrough: Times,
   candidateScope: {CandidateScope}, coverage: Coverages,
   completeness: {"COMPLETE", "INCOMPLETE"},
   incompleteEvidence: Seq([kind: Range(EvidenceKinds), count: Nat]),
   delivery: [state: {"COMPLETE", "PARTIAL"}, evaluated: Nat, returned: Nat,
              continuation: BOOLEAN],
   candidates: Seq(Evaluations)]

ASSUME CollectionAssumption ==
  /\ CandidateLimit \in Nat
  /\ EvaluationValidity \in Nat
  /\ StaleRetention \in Nat
  /\ Invalid \notin Int
  /\ Invalid \notin Seq(Candidates) \cup Seq(Evaluations) \cup Seq(BoundCandidates)
  /\ Invalid \notin Collections

UpTo(seq, n) == SubSeq(seq, 1, IF Len(seq) < n THEN Len(seq) ELSE n)

DistinctThreads(seq) == \A i, j \in DOMAIN seq : seq[i].thread = seq[j].thread => i = j

WellScoped(candidates, scope) ==
  /\ \A i \in DOMAIN candidates :
       /\ candidates[i].scope = scope
       /\ IsPriorityPolicyCandidateEligible(candidates[i].location)
  /\ DistinctThreads(candidates)

\* Array.prototype.sort, which is stable: "less" holds the pairs of positions that the
\* comparison tells apart.
Ahead(seq, less, i) ==
  {j \in DOMAIN seq : <<j, i>> \in less \/ (<<i, j>> \notin less /\ j < i)}

Sorted(seq, less) ==
  [k \in DOMAIN seq |-> seq[CHOOSE i \in DOMAIN seq : Cardinality(Ahead(seq, less, i)) = k - 1]]

AdmissionOrder(candidates, evaluatedAt) ==
  {p \in (DOMAIN candidates) \X (DOMAIN candidates) :
     CompareCandidates(candidates[p[1]], candidates[p[2]], evaluatedAt) < 0}

AdmitPriorityPolicyCandidates(scope, candidates, evaluatedAt) ==
  IF ~WellScoped(candidates, scope) THEN Invalid
  ELSE UpTo(Sorted(candidates, AdmissionOrder(candidates, evaluatedAt)), CandidateLimit)

EvaluateAll(admitted, evaluatedAt) ==
  IF \E i \in DOMAIN admitted : ~IsPriorityPolicyCandidateEligible(admitted[i].location)
  THEN Invalid
  ELSE [i \in DOMAIN admitted |-> EvaluatePriorityPolicy(admitted[i], evaluatedAt)]
-----------------------------------------------------------------------------
ValidReasons(codes, roles) ==
  /\ Len(codes) = Len(roles)
  /\ Range(codes) \subseteq ReasonCodes
  /\ Range(roles) \subseteq ReasonRoles
  /\ IsInjective(codes)

ValidEvaluation(evaluation, evaluatedAt) ==
  /\ evaluation.evaluatedAt = evaluatedAt
  /\ evaluation.tier \in Tiers
  /\ ValidReasons(evaluation.reasonCodes, evaluation.reasonRoles)

\* Mutant: one candidate fewer than the admission passes on.
ValidOrderingInputBelowLimit(scope, admitted, evaluations, evaluatedAt) ==
  /\ Len(admitted) < CandidateLimit
  /\ WellScoped(admitted, scope)
  /\ \A i \in DOMAIN evaluations : ValidEvaluation(evaluations[i], evaluatedAt)
  /\ Len(admitted) = Len(evaluations)

ValidOrderingInput(scope, admitted, evaluations, evaluatedAt) ==
  /\ Len(admitted) <= CandidateLimit
  /\ Len(evaluations) <= CandidateLimit
  /\ WellScoped(admitted, scope)
  /\ \A i \in DOMAIN evaluations : ValidEvaluation(evaluations[i], evaluatedAt)
  /\ DistinctThreads(evaluations)
  /\ Len(admitted) = Len(evaluations)
  /\ \A i \in DOMAIN admitted : \E j \in DOMAIN evaluations :
       evaluations[j].thread = admitted[i].thread

\* The evaluations are found by thread, not by position.
Bind(admitted, evaluations) ==
  [i \in DOMAIN admitted |->
     [candidate |-> admitted[i],
      evaluation |-> CHOOSE e \in Range(evaluations) : e.thread = admitted[i].thread]]

FinalOrder(bound, evaluatedAt) ==
  {p \in (DOMAIN bound) \X (DOMAIN bound) :
     CompareBoundCandidates(bound[p[1]], bound[p[2]], evaluatedAt) < 0}

OrderPriorityPolicyCandidates(scope, admitted, evaluations, evaluatedAt) ==
  LET bound == Bind(admitted, evaluations) IN
  IF ~ValidOrderingInput(scope, admitted, evaluations, evaluatedAt) THEN Invalid
  ELSE Sorted(bound, FinalOrder(bound, evaluatedAt))
-----------------------------------------------------------------------------
CanonicalBoundary(evaluatedAt, duration) ==
  IF evaluatedAt + duration > MaxTimestamp THEN Invalid ELSE evaluatedAt + duration

\* The collection sorts again what it is given and accepts only its own order.
VerifyCanonicalOrder(scope, ordered, evaluatedAt) ==
  LET canonical == OrderPriorityPolicyCandidates(scope,
                     [i \in DOMAIN ordered |-> ordered[i].candidate],
                     [i \in DOMAIN ordered |-> ordered[i].evaluation], evaluatedAt)
  IN /\ canonical # Invalid
     /\ \A i \in DOMAIN canonical :
          canonical[i].candidate.thread = ordered[i].candidate.thread

ValidDelivery(delivery, evaluatedCount) ==
  /\ delivery.returned \in 0..evaluatedCount
  /\ delivery.returned = evaluatedCount => ~delivery.continuation

\* Mutant: only a missing timestamp counts, not one too far in the future.
AffectedByMissing(kind, candidate, evaluatedAt) ==
  CASE kind = "CANDIDATE_TIMESTAMP" -> candidate.timestamp = UnknownTime
    [] kind = "POLICY_LABELS" -> candidate.star = "UNKNOWN"
    [] kind = "USER_CORRECTIONS" -> candidate.correction = "UNKNOWN"

Affected(kind, candidate, evaluatedAt) ==
  CASE kind = "CANDIDATE_TIMESTAMP" ->
         EffectiveTimestamp(candidate.timestamp, evaluatedAt) = UnknownTime
    [] kind = "POLICY_LABELS" -> candidate.star = "UNKNOWN"
    [] kind = "USER_CORRECTIONS" -> candidate.correction = "UNKNOWN"

\* Counted over all evaluated candidates, also those that are not returned.
IncompleteEvidence(ordered, evaluatedAt) ==
  LET count(kind) == Cardinality({i \in DOMAIN ordered :
                                    Affected(kind, ordered[i].candidate, evaluatedAt)})
      entry(kind) == IF count(kind) > 0 THEN <<[kind |-> kind, count |-> count(kind)]>> ELSE <<>>
  IN entry("CANDIDATE_TIMESTAMP") \o entry("POLICY_LABELS") \o entry("USER_CORRECTIONS")

DeliveryState(evaluatedCount, returned) ==
  IF evaluatedCount = returned THEN "COMPLETE" ELSE "PARTIAL"

CreatePriorityPolicyCollectionEvaluation(scope, ordered, evaluatedAt, coverage, delivery) ==
  IF \/ ~VerifyCanonicalOrder(scope, ordered, evaluatedAt)
     \/ ~ValidDelivery(delivery, Len(ordered))
     \/ CanonicalBoundary(evaluatedAt, EvaluationValidity) = Invalid
     \/ CanonicalBoundary(evaluatedAt, StaleRetention) = Invalid
  THEN Invalid
  ELSE LET incomplete == IncompleteEvidence(ordered, evaluatedAt) IN
    [evaluatedAt |-> evaluatedAt,
     validThrough |-> CanonicalBoundary(evaluatedAt, EvaluationValidity),
     staleRetentionThrough |-> CanonicalBoundary(evaluatedAt, StaleRetention),
     candidateScope |-> CandidateScope,
     coverage |-> coverage,
     completeness |-> IF incomplete = <<>> THEN "COMPLETE" ELSE "INCOMPLETE",
     incompleteEvidence |-> incomplete,
     delivery |-> [state |-> DeliveryState(Len(ordered), delivery.returned),
                   evaluated |-> Len(ordered),
                   returned |-> delivery.returned,
                   continuation |-> delivery.continuation],
     candidates |-> [i \in 1..delivery.returned |-> ordered[i].evaluation]]
=============================================================================
