----------------------------- MODULE Campaigns -----------------------------
(***************************************************************************)
(* Credit granted under one campaign.  A grant reads the campaign and      *)
(* checks it, asks the finance service for the credit under a key made of  *)
(* campaign, user and nonce, and then increments the campaign's count: two *)
(* systems, no transaction, and the check is not repeated.  The finance    *)
(* service is external; it answers a key that it knows with the first      *)
(* grant.                                                                  *)
(***************************************************************************)
EXTENDS Naturals, FiniteSets

CONSTANTS
  Admins,           \* requests under way at once
  GrantKeys,        \* <<user, nonce>> pairs
  Caps,             \* values of maxGrants in use
  MaxGrantRequests  \* bound on the requests

ASSUME CampaignsAssumption == Caps \subseteq Nat \ {0} /\ MaxGrantRequests \in Nat

VARIABLES
  campaign,         \* active, expired, maxGrants and grantCount
  credit,           \* credits at the finance service: how many each key has
  grant,            \* grant[a]: the request that a serves
  grantRequests,
  uncounted,        \* requests that credited and did not increment
  recounted,        \* requests that incremented for a credit given before
  overlapped        \* two requests were under way at once, or the cap was lowered

campaignVars == <<campaign, credit, grant, grantRequests, uncounted, recounted, overlapped>>

NoGrant == [at |-> "idle", keys |-> {}, new |-> FALSE]
Granting == {a \in Admins : grant[a].at # "idle"}
Credits == Cardinality({k \in GrantKeys : credit[k] > 0})

CampaignsTypeOK ==
  /\ campaign \in [active: BOOLEAN, expired: BOOLEAN, maxGrants: Caps,
                   grantCount: 0..MaxGrantRequests]
  /\ credit \in [GrantKeys -> 0..1]
  /\ grant \in [Admins -> [at: {"idle", "checked", "granted"}, keys: SUBSET GrantKeys,
                           new: BOOLEAN]]
  /\ \A a \in Admins : Cardinality(grant[a].keys) <= 1
  /\ {grantRequests, uncounted, recounted} \subseteq 0..MaxGrantRequests
  /\ overlapped \in BOOLEAN

CampaignsInit ==
  /\ campaign \in [active: {TRUE}, expired: {FALSE}, maxGrants: Caps, grantCount: {0}]
  /\ credit = [k \in GrantKeys |-> 0]
  /\ grant = [a \in Admins |-> NoGrant]
  /\ grantRequests = 0 /\ uncounted = 0 /\ recounted = 0 /\ overlapped = FALSE

\* UpdateCampaign writes what it is given, the cap also below the count.
UpdateCampaign ==
  /\ \/ campaign' = [campaign EXCEPT !.active = ~@]
     \/ \E c \in Caps : c # campaign.maxGrants /\ campaign' = [campaign EXCEPT !.maxGrants = c]
     \/ campaign.expired /\ campaign' = [campaign EXCEPT !.expired = FALSE]
  /\ overlapped' = (overlapped \/ campaign'.maxGrants < campaign.maxGrants)
  /\ UNCHANGED <<credit, grant, grantRequests, uncounted, recounted>>

ExpireCampaign ==
  /\ campaign' = [campaign EXCEPT !.expired = TRUE]
  /\ UNCHANGED <<credit, grant, grantRequests, uncounted, recounted, overlapped>>

\* Mutant of Grantable.
GrantableOnceMore ==
  campaign.active /\ ~campaign.expired /\ campaign.grantCount <= campaign.maxGrants
\* assertCampaignGrantable
Grantable == campaign.active /\ ~campaign.expired /\ campaign.grantCount < campaign.maxGrants

CheckGrant(a, k) ==
  /\ grant[a].at = "idle" /\ grantRequests < MaxGrantRequests
  /\ Grantable
  /\ grant' = [grant EXCEPT ![a] = [at |-> "checked", keys |-> {k}, new |-> FALSE]]
  /\ grantRequests' = grantRequests + 1
  /\ overlapped' = (overlapped \/ Granting # {})
  /\ UNCHANGED <<campaign, credit, uncounted, recounted>>

CreditAfter(k) == 1

\* grantCredit succeeds: a new credit, or the answer to a key used before.
GrantCredit(a) ==
  /\ grant[a].at = "checked"
  /\ \E k \in grant[a].keys :
       /\ credit' = [credit EXCEPT ![k] = CreditAfter(k)]
       /\ grant' = [grant EXCEPT ![a].at = "granted", ![a].new = credit[k] = 0]
  /\ UNCHANGED <<campaign, grantRequests, uncounted, recounted, overlapped>>

\* The call fails, with or without effect: the request fails.
GrantCallFails(a) ==
  /\ grant[a].at = "checked"
  /\ \/ UNCHANGED <<credit, uncounted>>
     \/ \E k \in grant[a].keys :
          /\ credit' = [credit EXCEPT ![k] = CreditAfter(k)]
          /\ uncounted' = IF credit[k] = 0 THEN uncounted + 1 ELSE uncounted
  /\ grant' = [grant EXCEPT ![a] = NoGrant]
  /\ UNCHANGED <<campaign, grantRequests, recounted, overlapped>>

CountAfter(a) == campaign.grantCount + 1

IncrementCount(a) ==
  /\ grant[a].at = "granted"
  /\ campaign' = [campaign EXCEPT !.grantCount = CountAfter(a)]
  /\ recounted' = IF grant[a].new THEN recounted ELSE recounted + 1
  /\ grant' = [grant EXCEPT ![a] = NoGrant]
  /\ UNCHANGED <<credit, grantRequests, uncounted, overlapped>>

\* The process stops, or the update fails, after the credit.
IncrementLost(a) ==
  /\ grant[a].at = "granted"
  /\ uncounted' = IF grant[a].new THEN uncounted + 1 ELSE uncounted
  /\ grant' = [grant EXCEPT ![a] = NoGrant]
  /\ UNCHANGED <<campaign, credit, grantRequests, recounted, overlapped>>

CampaignsNext ==
  \/ UpdateCampaign \/ ExpireCampaign
  \/ \E a \in Admins, k \in GrantKeys : CheckGrant(a, k)
  \/ \E a \in Admins : GrantCredit(a) \/ GrantCallFails(a) \/ IncrementCount(a) \/ IncrementLost(a)

CampaignsSpec == CampaignsInit /\ [][CampaignsNext]_campaignVars

----------------------------------------------------------------------------
(* Properties *)

\* More credits than the cap allows take requests that overlap, a lowered cap or an
\* increment that was lost after its credit.
CapExceededOnlyByRaces == ~overlapped /\ uncounted = 0 => Credits <= campaign.maxGrants

\* The count is off exactly by what was credited and not counted, and by the
\* repetitions of a key, which are counted again though they credit nothing.
CountFollowsCredits ==
  campaign.grantCount + uncounted + Cardinality({a \in Granting : grant[a].new})
    = Credits + recounted

\* The budget of a campaign holds and its count tells what was spent.
CreditsAccounted == CapExceededOnlyByRaces /\ CountFollowsCredits
=============================================================================
