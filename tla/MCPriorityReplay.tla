-------------------------- MODULE MCPriorityReplay --------------------------
(* Instances of PriorityReplay. *)
EXTENDS PriorityReplay, TLC

CONSTANTS t1, t2, t3, mine, other

ThreeThreads == {t1, t2, t3}
TwoScopes == {mine, other}

\* The first bytes tie twice, and one byte is larger where another is smaller.
TwoByteIds == t1 :> <<1, 9>> @@ t2 :> <<1, 10>> @@ t3 :> <<2, 0>>

Inbox == [INBOX |-> "VERIFIED_PRESENT", SPAM |-> "VERIFIED_ABSENT", TRASH |-> "VERIFIED_ABSENT"]
OddLocations == {[Inbox EXCEPT !["TRASH"] = "UNKNOWN"], [Inbox EXCEPT !["SPAM"] = "VERIFIED_PRESENT"]}

Candidate(t, time, star, correction) ==
  [scope |-> mine, thread |-> t, location |-> Inbox,
   timestamp |-> time, star |-> star, correction |-> correction]

Signals == {<<"VERIFIED_ABSENT", "VERIFIED_ABSENT">>, <<"VERIFIED_PRESENT", "UNKNOWN">>,
            <<"UNKNOWN", "PRIORITIZE">>, <<"VERIFIED_PRESENT", "NOT_IMPORTANT">>}

\* Evaluated at 4 with a tolerance of 1: older, now, ahead, too far ahead, unknown.
Moments == {3, 4, 5, 6, UnknownTime}

CandidatesOf(t) ==
  {Candidate(t, time, s[1], s[2]) : time \in Moments, s \in Signals}

WellFormed ==
  CandidatesOf(t1) \X CandidatesOf(t2) \X CandidatesOf(t3)

\* One, two and three candidates; listed in a rotated order; repeated, misplaced and
\* foreign ones.
SmallSnapshots ==
  LET plain == Candidate(t1, 4, "VERIFIED_ABSENT", "VERIFIED_ABSENT") IN
  {<<>>} \cup {<<c>> : c \in CandidatesOf(t1)}
  \cup {<<c, d>> : c \in CandidatesOf(t2), d \in CandidatesOf(t1)}
  \cup {<<w[2], w[3], w[1]>> : w \in {w \in WellFormed : w[1].correction = "VERIFIED_ABSENT"}}
  \cup {<<plain, plain>>, <<[plain EXCEPT !.scope = other]>>}
  \cup {<<[plain EXCEPT !.location = l]>> : l \in OddLocations}

TwoInstants == {4, 7}
SomeDeliveries == {[returned |-> n, continuation |-> FALSE] : n \in 0..2}
                  \cup {[returned |-> n, continuation |-> TRUE] : n \in {0, 2}}
                  \cup {[returned |-> 3, continuation |-> FALSE]}
OneScope == {mine}
=============================================================================
