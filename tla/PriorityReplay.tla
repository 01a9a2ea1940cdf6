--------------------------- MODULE PriorityReplay ---------------------------
(***************************************************************************)
(* An evaluation of Priority Policy v1 stage by stage, its recording, and the  *)
(* replay that verifies the recording: between the two the recording may be     *)
(* altered and the snapshot of its input may list the candidates differently.   *)
(* A serialization is the record it denotes and whether its text is the          *)
(* canonical one.                                                             *)
(***************************************************************************)
EXTENDS PriorityCollection

CONSTANTS
  Snapshots,   \* the sequences of candidates that are evaluated
  Instants,    \* the values of evaluatedAt
  Deliveries   \* requested deliveries: returned count, continuation available

ASSUME ReplayAssumption ==
  /\ Snapshots \subseteq Seq(Candidates)
  /\ Instants \subseteq Times
  /\ Deliveries \subseteq [returned: Nat, continuation: BOOLEAN]

VARIABLES
  input,        \* scope, candidates, evaluatedAt, coverage, delivery
  phase,        \* the stage reached
  admitted,
  evaluations,
  ordered,
  collection,   \* the envelope of the evaluation
  recorded,     \* its serialization, expectedSerializedOutput of a fixture
  verdict

vars == <<input, phase, admitted, evaluations, ordered, collection, recorded, verdict>>

Init ==
  /\ input \in [scope: Scopes, candidates: Snapshots, evaluatedAt: Instants,
                coverage: Coverages, delivery: Deliveries]
  /\ phase = "given"
  /\ admitted = <<>> /\ evaluations = <<>> /\ ordered = <<>>
  /\ collection = Invalid /\ recorded = Invalid /\ verdict = Invalid

\* A stage's result, or the TypeError that ends the evaluation.
Reach(stage, result) == phase' = IF result = Invalid THEN "rejected" ELSE stage

Admit ==
  /\ phase = "given"
  /\ admitted' = AdmitPriorityPolicyCandidates(input.scope, input.candidates, input.evaluatedAt)
  /\ Reach("admitted", admitted')
  /\ UNCHANGED <<input, evaluations, ordered, collection, recorded, verdict>>

Evaluate ==
  /\ phase = "admitted"
  /\ evaluations' = EvaluateAll(admitted, input.evaluatedAt)
  /\ Reach("evaluated", evaluations')
  /\ UNCHANGED <<input, admitted, ordered, collection, recorded, verdict>>

Order ==
  /\ phase = "evaluated"
  /\ ordered' = OrderPriorityPolicyCandidates(input.scope, admitted, evaluations, input.evaluatedAt)
  /\ Reach("ordered", ordered')
  /\ UNCHANGED <<input, admitted, evaluations, collection, recorded, verdict>>

Collect ==
  /\ phase = "ordered"
  /\ collection' = CreatePriorityPolicyCollectionEvaluation(
                     input.scope, ordered, input.evaluatedAt, input.coverage, input.delivery)
  /\ Reach("collected", collection')
  /\ UNCHANGED <<input, admitted, evaluations, ordered, recorded, verdict>>

Record ==
  /\ phase = "collected"
  /\ recorded' = [canonicalText |-> TRUE, value |-> collection]
  /\ phase' = "recorded"
  /\ UNCHANGED <<input, admitted, evaluations, ordered, collection, verdict>>
-----------------------------------------------------------------------------
(* What may happen to a fixture between its recording and its replay.           *)
Reworded == [recorded EXCEPT !.canonicalText = FALSE]

AlteredEnvelopes(e) ==
  {[e EXCEPT !.validThrough = @ + 1],
   [e EXCEPT !.delivery.state = IF @ = "COMPLETE" THEN "PARTIAL" ELSE "COMPLETE"],
   [e EXCEPT !.delivery.continuation = ~@],
   [e EXCEPT !.completeness = IF @ = "COMPLETE" THEN "INCOMPLETE" ELSE "COMPLETE"],
   [e EXCEPT !.incompleteEvidence = Reverse(@)],
   [e EXCEPT !.candidates = Reverse(@)],
   [e EXCEPT !.candidates = UpTo(@, Len(@) - 1)],
   [e EXCEPT !.candidates = [i \in DOMAIN @ |-> [@[i] EXCEPT !.reasonRoles = Reverse(@)]]]}

AlterRecording ==
  /\ phase = "recorded"
  /\ recorded' \in {Reworded} \cup
                   {[canonicalText |-> TRUE, value |-> e] : e \in AlteredEnvelopes(collection)}
  /\ phase' = "stored"
  /\ UNCHANGED <<input, admitted, evaluations, ordered, collection, verdict>>

ReorderSnapshot ==
  /\ phase = "recorded"
  /\ input' = [input EXCEPT !.candidates = Reverse(@)]
  /\ phase' = "stored"
  /\ UNCHANGED <<admitted, evaluations, ordered, collection, recorded, verdict>>
-----------------------------------------------------------------------------
ValidReplayFixture(snapshot) ==
  /\ \A i \in DOMAIN snapshot.candidates : snapshot.candidates[i].scope = snapshot.scope
  /\ DistinctThreads(snapshot.candidates)

CanonicalCandidate(candidate, evaluatedAt) ==
  /\ candidate.tier \in Tiers
  /\ candidate.evaluatedAt = evaluatedAt
  /\ ValidReasons(candidate.reasonCodes, candidate.reasonRoles)

CanonicalCompleteness(state, entries, evaluatedCount) ==
  \/ state = "COMPLETE" /\ entries = <<>>
  \/ /\ state = "INCOMPLETE" /\ entries # <<>>
     /\ \A i \in DOMAIN entries : entries[i].count \in 1..evaluatedCount
     /\ \E at \in [DOMAIN entries -> DOMAIN EvidenceKinds] :
          \A i, j \in DOMAIN entries :
            /\ entries[i].kind = EvidenceKinds[at[i]]
            /\ i < j => at[i] < at[j]

CanonicalDelivery(delivery, candidates) ==
  /\ delivery.returned \in 0..delivery.evaluated
  /\ Len(candidates) = delivery.returned
  /\ delivery.state = DeliveryState(delivery.evaluated, delivery.returned)
  /\ ~(delivery.state = "COMPLETE" /\ delivery.continuation)

\* The boundaries need only be instants: that they follow from evaluatedAt is
\* left to the comparison.
CanonicalReplaySerialization(serialized) ==
  LET e == serialized.value IN
  /\ serialized.canonicalText
  /\ {e.evaluatedAt, e.validThrough, e.staleRetentionThrough} \subseteq Times
  /\ e.coverage \in Coverages
  /\ e.candidateScope = CandidateScope
  /\ CanonicalDelivery(e.delivery, e.candidates)
  /\ CanonicalCompleteness(e.completeness, e.incompleteEvidence, e.delivery.evaluated)
  /\ \A i \in DOMAIN e.candidates : CanonicalCandidate(e.candidates[i], e.evaluatedAt)

\* The stages in a row; Invalid as soon as one throws.
Recompute(s) ==
  LET adm == AdmitPriorityPolicyCandidates(s.scope, s.candidates, s.evaluatedAt)
      evs == IF adm = Invalid THEN Invalid ELSE EvaluateAll(adm, s.evaluatedAt)
      ord == IF evs = Invalid THEN Invalid
             ELSE OrderPriorityPolicyCandidates(s.scope, adm, evs, s.evaluatedAt)
  IN IF ord = Invalid THEN Invalid
     ELSE CreatePriorityPolicyCollectionEvaluation(s.scope, ord, s.evaluatedAt,
                                                   s.coverage, s.delivery)

VerifyPriorityPolicyReplay ==
  /\ phase \in {"recorded", "stored"}
  /\ verdict' =
       IF ~ValidReplayFixture(input) THEN "FIXTURE_ERROR"
       ELSE IF \/ ~CanonicalReplaySerialization(recorded)
               \/ recorded.value.evaluatedAt # input.evaluatedAt THEN "SERIALIZATION_ERROR"
       ELSE LET actual == Recompute(input) IN
         IF actual = Invalid THEN "FIXTURE_ERROR"
         ELSE IF actual = recorded.value THEN "MATCH" ELSE "MISMATCH"
  /\ phase' = "verified"
  /\ UNCHANGED <<input, admitted, evaluations, ordered, collection, recorded>>

Next ==
  \/ Admit \/ Evaluate \/ Order \/ Collect \/ Record
  \/ AlterRecording \/ ReorderSnapshot
  \/ VerifyPriorityPolicyReplay

Spec == Init /\ [][Next]_vars
-----------------------------------------------------------------------------
(* The product's words for the same rules, independent of the operators above: *)
(* age and chronology as in docs/product/priority-policy-v1.md, sections 8, 9.   *)
Timely(c) == c.timestamp # UnknownTime /\ c.timestamp - FutureSkewTolerance <= input.evaluatedAt

Age(c) == IF c.timestamp >= input.evaluatedAt THEN 0 ELSE input.evaluatedAt - c.timestamp

Newer(c, d) == Timely(c) /\ (Timely(d) => Age(c) < Age(d))

SameTime(c, d) == ~Newer(c, d) /\ ~Newer(d, c)

IdPrecedes(s, t) ==
  \E i \in 1..UuidLength : /\ Uuid[s][i] < Uuid[t][i]
                           /\ \A j \in 1..(i - 1) : Uuid[s][j] = Uuid[t][j]

Given == Range(input.candidates)
Starred(c) == c.star = "VERIFIED_PRESENT"

\* What the user asked for, the star, and nothing else group the threads.
Group(c) == CASE c.correction = "PRIORITIZE" -> 1
              [] c.correction \notin {"PRIORITIZE", "NOT_IMPORTANT"} /\ Starred(c) -> 2
              [] OTHER -> 3

Precedes(c, d) ==
  \/ Group(c) < Group(d)
  \/ Group(c) = Group(d) /\ (Newer(c, d) \/ (SameTime(c, d) /\ IdPrecedes(c.thread, d.thread)))

\* The cap keeps the newest: no thread is left out for an older one or one whose
\* time is unknown or too far in the future, and none without need
\* (admit-priority-policy-candidates.ts:184-189).
AdmissionKeepsNewest ==
  phase = "admitted" =>
    /\ Range(admitted) \subseteq Given
    /\ Len(admitted) = Min({CandidateLimit, Len(input.candidates)})
    /\ \A a \in Range(admitted), x \in Given \ Range(admitted) : ~Newer(x, a)

\* Whatever order the candidates came in, the result is the one order of tiers,
\* chronology and identifiers, with every admitted thread in it once
\* (order-priority-policy-candidates.ts:350-378).
OrderIsCanonical ==
  phase = "ordered" =>
    /\ Range(admitted) = {ordered[i].candidate : i \in DOMAIN ordered}
    /\ \A i, j \in DOMAIN ordered :
         i < j => Precedes(ordered[i].candidate, ordered[j].candidate)

\* No stage refuses what the stage before it made: an evaluation fails only for a
\* candidate out of scope, a repeated one, a delivery of more than there is, or an
\* instant whose retention the format cannot write.
StagesCompose ==
  phase = "rejected" =>
    LET evaluated == Min({CandidateLimit, Len(input.candidates)}) IN
    \/ \E c \in Given : \/ c.scope # input.scope
                        \/ ~IsPriorityPolicyCandidateEligible(c.location)
    \/ Cardinality({c.thread : c \in Given}) < Len(input.candidates)
    \/ input.delivery.returned > evaluated
    \/ input.delivery.returned = evaluated /\ input.delivery.continuation
    \/ input.evaluatedAt + Max({EvaluationValidity, StaleRetention}) > MaxTimestamp

\* The envelope tells the truth about what is under it: every thread has been seen
\* in the inbox and outside spam and trash, nothing evaluated with a gap in its
\* evidence goes undisclosed, and a delivery is complete only when nothing is left
\* (create-priority-policy-collection-evaluation.ts:182-283).
TruthfulEnvelope ==
  phase = "collected" =>
    LET represented == Range(admitted)
        gap(kind) == Cardinality(
          {c \in represented : CASE kind = "CANDIDATE_TIMESTAMP" -> ~Timely(c)
                                 [] kind = "POLICY_LABELS" -> c.star = "UNKNOWN"
                                 [] OTHER -> c.correction = "UNKNOWN"})
        disclosed == {<<entry.kind, entry.count>> : entry \in Range(collection.incompleteEvidence)}
    IN
    /\ \A c \in represented :
         /\ \A l \in collection.candidateScope.required : c.location[l] = "VERIFIED_PRESENT"
         /\ \A l \in collection.candidateScope.absent : c.location[l] = "VERIFIED_ABSENT"
    /\ disclosed = {<<k, gap(k)>> : k \in {k \in Range(EvidenceKinds) : gap(k) > 0}}
    /\ collection.completeness = "COMPLETE" <=> disclosed = {}
    /\ Len(collection.candidates) < Cardinality(represented) =>
         collection.delivery.state = "PARTIAL"
    /\ collection.delivery.continuation => Len(collection.candidates) < Cardinality(represented)

\* A replay confirms exactly the recording that the evaluation made, whatever order
\* the snapshot lists the candidates in; it never refuses an input that was
\* evaluated before, and no altered recording passes
\* (verify-priority-policy-replay.ts:573-659).
ReplayIsExact ==
  phase = "verified" =>
    /\ verdict # "FIXTURE_ERROR"
    /\ verdict = "MATCH" <=> recorded = [canonicalText |-> TRUE, value |-> collection]
=============================================================================
