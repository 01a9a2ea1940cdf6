--------------------------- MODULE PriorityPolicy ---------------------------
(***************************************************************************)
(* The rules of Priority Policy v1 for one thread and for two: which threads  *)
(* are eligible, which tier and reasons a thread gets, and the comparisons    *)
(* that admission and ordering sort by.  Timestamps are numbers; identifiers   *)
(* other than the thread's, and the wording of reasons, are left out.           *)
(***************************************************************************)
EXTENDS Integers, Sequences, FiniteSets, FiniteSetsExt

CONSTANTS
  Threads,
  UuidLength,           \* bytes of a thread identifier (16)
  Uuid,                 \* thread -> its bytes
  Scopes,               \* pairs of owner and mailbox
  MaxTimestamp,         \* the last instant the canonical format can write
  FutureSkewTolerance,  \* PT5M
  UnknownTime           \* evidence of state UNKNOWN, an undefined effective timestamp

ASSUME PolicyAssumption ==
  /\ UuidLength \in Nat
  /\ Uuid \in [Threads -> [1..UuidLength -> 0..255]]
  /\ \A s, t \in Threads : Uuid[s] = Uuid[t] => s = t
  /\ MaxTimestamp \in Nat
  /\ FutureSkewTolerance \in Nat
  /\ UnknownTime \notin Int

Times == 0..MaxTimestamp
Membership == {"VERIFIED_PRESENT", "VERIFIED_ABSENT", "UNKNOWN"}
Locations == {"INBOX", "SPAM", "TRASH"}
Corrections == {"VERIFIED_ABSENT", "UNKNOWN", "PRIORITIZE", "NOT_IMPORTANT"}
Tiers == {"NEEDS_ATTENTION", "REVIEW_LATER", "NO_IMMEDIATE_SIGNALS"}
ReasonCodes == {"USER_PRIORITIZE", "USER_NOT_IMPORTANT", "PROVIDER_STAR", "RECENCY"}
ReasonRoles == {"DETERMINING", "SUPPORTING"}

Candidates ==
  [scope: Scopes, thread: Threads, location: [Locations -> Membership],
   timestamp: Times \cup {UnknownTime}, star: Membership, correction: Corrections]

Evaluations ==
  [thread: Threads, tier: Tiers, reasonCodes: Seq(ReasonCodes), reasonRoles: Seq(ReasonRoles),
   evaluatedAt: Times]
-----------------------------------------------------------------------------
\* Mutant: a timestamp within the tolerance keeps its lead.
EffectiveTimestampUnclamped(timestamp, evaluatedAt) ==
  IF timestamp = UnknownTime \/ timestamp > evaluatedAt + FutureSkewTolerance
  THEN UnknownTime ELSE timestamp

\* Mutant: the tolerance excludes its own boundary.
EffectiveTimestampStrict(timestamp, evaluatedAt) ==
  IF timestamp = UnknownTime \/ timestamp >= evaluatedAt + FutureSkewTolerance
  THEN UnknownTime
  ELSE IF timestamp < evaluatedAt THEN timestamp ELSE evaluatedAt

(* A verified timestamp is cut off at the evaluation; one too far in the       *)
(* future is no evidence.                                                    *)
EffectiveTimestamp(timestamp, evaluatedAt) ==
  IF timestamp = UnknownTime \/ timestamp > evaluatedAt + FutureSkewTolerance
  THEN UnknownTime
  ELSE IF timestamp < evaluatedAt THEN timestamp ELSE evaluatedAt

\* Mutant: the last byte is not compared.
CompareThreadIdPrefixes(left, right) ==
  LET differing == {i \in 1..(UuidLength - 1) : Uuid[left][i] # Uuid[right][i]} IN
  IF differing = {} THEN 0
  ELSE Uuid[left][Min(differing)] - Uuid[right][Min(differing)]

\* Negative: left comes first.  Bytewise, the first difference decides.
CompareThreadIds(left, right) ==
  LET differing == {i \in 1..UuidLength : Uuid[left][i] # Uuid[right][i]} IN
  IF differing = {} THEN 0
  ELSE Uuid[left][Min(differing)] - Uuid[right][Min(differing)]

TierRank == [NEEDS_ATTENTION |-> 0, REVIEW_LATER |-> 1, NO_IMMEDIATE_SIGNALS |-> 2]

ComparePriorityTiers(left, right) == TierRank[left] - TierRank[right]

\* Newest first, unknown last.
CompareTimes(left, right) ==
  CASE left # UnknownTime /\ right = UnknownTime -> -1
    [] left = UnknownTime /\ right # UnknownTime -> 1
    [] left # UnknownTime /\ right # UnknownTime -> right - left
    [] OTHER -> 0

CompareCandidates(left, right, evaluatedAt) ==
  LET times == CompareTimes(EffectiveTimestamp(left.timestamp, evaluatedAt),
                            EffectiveTimestamp(right.timestamp, evaluatedAt))
  IN IF times # 0 THEN times ELSE CompareThreadIds(left.thread, right.thread)

CompareBoundCandidates(left, right, evaluatedAt) ==
  LET tiers == ComparePriorityTiers(left.evaluation.tier, right.evaluation.tier)
  IN IF tiers # 0 THEN tiers
     ELSE CompareCandidates(left.candidate, right.candidate, evaluatedAt)
-----------------------------------------------------------------------------
IsPriorityPolicyCandidateEligible(location) ==
  /\ location["INBOX"] = "VERIFIED_PRESENT"
  /\ location["SPAM"] = "VERIFIED_ABSENT"
  /\ location["TRASH"] = "VERIFIED_ABSENT"

\* A correction decides alone and a star supports it; without one the star decides.
Reasons(star, correction) ==
  LET starred == star = "VERIFIED_PRESENT"
      user == CASE correction = "PRIORITIZE" -> <<"USER_PRIORITIZE">>
                [] correction = "NOT_IMPORTANT" -> <<"USER_NOT_IMPORTANT">>
                [] OTHER -> <<>>
  IN user \o (IF starred THEN <<"PROVIDER_STAR">> ELSE <<>>)

EvaluateCorrection(star, correction) ==
  CASE correction = "PRIORITIZE" -> "NEEDS_ATTENTION"
    [] correction = "NOT_IMPORTANT" -> "NO_IMMEDIATE_SIGNALS"
    [] OTHER -> IF star = "VERIFIED_PRESENT" THEN "REVIEW_LATER" ELSE "NO_IMMEDIATE_SIGNALS"

\* Throws for a candidate that is not eligible (see EvaluateAll of PriorityCollection).
EvaluatePriorityPolicy(candidate, evaluatedAt) ==
  LET codes == Reasons(candidate.star, candidate.correction) IN
  [thread |-> candidate.thread,
   tier |-> EvaluateCorrection(candidate.star, candidate.correction),
   reasonCodes |-> codes,
   reasonRoles |-> [i \in DOMAIN codes |-> IF i = 1 THEN "DETERMINING" ELSE "SUPPORTING"],
   evaluatedAt |-> evaluatedAt]
=============================================================================
