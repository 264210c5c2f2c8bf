-------------------------- MODULE MCDeliveryProjector --------------------------
(* Event histories for DeliveryProjector.                                  *)
EXTENDS DeliveryProjector, FiniteSets

CONSTANTS primary, fallback, r1, r2, MaxSeen

Observed(i, k, s, t, r) == [id |-> i, attempt |-> k, status |-> s, at |-> t, ref |-> r]

(* A message that is delivered and read while a poll reports an early      *)
(* failure, and a fallback by SMS that is queued and delivered; a provider *)
(* has used the id of that fallback's first report on the primary too.     *)
Campaign ==
    {Observed(1, primary, "accepted", 1, r1), Observed(2, primary, "sent", 2, r1),
     Observed(3, primary, "delivered", 3, r2), Observed(4, primary, "read", 4, None),
     Observed(5, primary, "failed", 1, None),
     Observed(6, fallback, "queued", 4, r2), Observed(6, primary, "sent", 2, r1),
     Observed(7, fallback, "delivered", 5, None)}

(* Every status at two times: all pairs of the table, and all triples.     *)
NumberOf(s) == CASE s = "draft" -> 1 [] s = "validated" -> 2 [] s = "approved" -> 3
                 [] s = "submitted" -> 4 [] s = "accepted" -> 5 [] s = "queued" -> 6
                 [] s = "sent" -> 7 [] s = "delivered" -> 8 [] s = "read" -> 9
                 [] s = "failed" -> 10 [] s = "cancelled" -> 11 [] s = "expired" -> 12
                 [] s = "unknown" -> 13
EveryStatus ==
    {Observed(7 + 2 * NumberOf(s) + t, primary, s, t, None) : s \in Status, t \in {1, 2}}

(* In every order: the whole campaign, or any MaxSeen events.              *)
EveryStatusAndCampaign == Campaign \union EveryStatus

Ids == 1..35
CampaignIds == {e.id : e \in Campaign}

FewSeen == seen \subseteq CampaignIds \/ Cardinality(seen) <= MaxSeen
=============================================================================
