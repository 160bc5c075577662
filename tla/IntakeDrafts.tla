---------------------------- MODULE IntakeDrafts ----------------------------
(***************************************************************************)
(* A draft that the Telegram intake created, and the users who claim it.   *)
(* A claim reserves the draft, creates the trip or the shipment through    *)
(* the marketplace's own use case, and links it; every await is a step.    *)
(* A database call can fail before or after it took effect, and a process  *)
(* can stop between two calls.                                             *)
(***************************************************************************)
EXTENDS Naturals, FiniteSets

CONSTANTS
  Claimers,
  MaxListings,      \* bound on the trips and shipments created
  MaxCallFailures,  \* bound on the database calls that fail
  MaxClaimCrashes   \* bound on the claims that stop halfway

NoUserYet == "nobody"

ASSUME DraftsAssumption ==
  /\ MaxListings \in Nat /\ MaxCallFailures \in Nat /\ MaxClaimCrashes \in Nat
  /\ NoUserYet \notin Claimers

VARIABLES
  draft,      \* the row of draft_requests
  due,        \* expiresAt has passed
  listing,    \* listing[n]: the user who owns the n-th listing, or NoUserYet
  claim,      \* claim[u]: the claim in progress of user u
  callFailures, claimCrashes

draftsVars == <<draft, due, listing, claim, callFailures, claimCrashes>>

Listings == 1..MaxListings
NoDraft == [status |-> "none", claimedBy |-> NoUserYet, link |-> 0]
NoClaim == [pc |-> "idle", listing |-> 0]
Made == {n \in Listings : listing[n] # NoUserYet}

DraftsTypeOK ==
  /\ draft \in [status: {"none", "NEW", "PROCESSING", "CLAIMED", "EXPIRED"},
                claimedBy: Claimers \cup {NoUserYet}, link: Listings \cup {0}]
  /\ due \in BOOLEAN
  /\ listing \in [Listings -> Claimers \cup {NoUserYet}]
  /\ claim \in [Claimers -> [pc: {"idle", "expire", "reserve", "create", "count", "link",
                                  "release"},
                             listing: Listings \cup {0}]]
  /\ callFailures \in 0..MaxCallFailures
  /\ claimCrashes \in 0..MaxClaimCrashes
  /\ draft.status \in {"none", "NEW"} => draft.claimedBy = NoUserYet

DraftsInit ==
  /\ draft = NoDraft /\ due = FALSE
  /\ listing = [n \in Listings |-> NoUserYet]
  /\ claim = [u \in Claimers |-> NoClaim]
  /\ callFailures = 0 /\ claimCrashes = 0

AdvanceClaim(u, pc) == claim' = [claim EXCEPT ![u].pc = pc]
End(u) == claim' = [claim EXCEPT ![u] = NoClaim]
In(u, pc) == claim[u].pc = pc

CreateDraft ==
  /\ draft.status = "none"
  /\ draft' = [NoDraft EXCEPT !.status = "NEW"]
  /\ UNCHANGED <<due, listing, claim, callFailures, claimCrashes>>

TimePasses ==
  /\ draft.status # "none" /\ ~due
  /\ due' = TRUE
  /\ UNCHANGED <<draft, listing, claim, callFailures, claimCrashes>>

\* A draft that is claimed, being claimed or expired answers at once.
FindDraft(u) ==
  /\ In(u, "idle")
  /\ draft.status = "NEW"
  /\ AdvanceClaim(u, IF due THEN "expire" ELSE "reserve")
  /\ UNCHANGED <<draft, due, listing, callFailures, claimCrashes>>

\* By id: also over a reservation made since the draft was read.
ExpireDraft(u) ==
  /\ In(u, "expire")
  /\ draft' = [draft EXCEPT !.status = "EXPIRED"]
  /\ End(u)
  /\ UNCHANGED <<due, listing, callFailures, claimCrashes>>

\* Mutant of Reservable.
ReservableUnlessClaimed == draft.status \in {"NEW", "PROCESSING"}
Reservable == draft.status = "NEW"
Reserved(u) == [draft EXCEPT !.status = "PROCESSING", !.claimedBy = u]

Reserve(u) ==
  /\ In(u, "reserve")
  /\ \/ /\ Reservable
        /\ draft' = Reserved(u)
        /\ AdvanceClaim(u, "create")
     \/ ~Reservable /\ End(u) /\ UNCHANGED draft
  /\ UNCHANGED <<due, listing, callFailures, claimCrashes>>

\* CreateTripUseCase or CreateShipmentUseCase, by the type of the draft: both
\* create a row and then count it on the user; what follows the count of a
\* shipment (statistics, matching) does not throw.
CreateListing(u) ==
  /\ In(u, "create")
  /\ \E n \in Listings \ Made :
       /\ 1..(n - 1) \subseteq Made
       /\ listing' = [listing EXCEPT ![n] = u]
       /\ claim' = [claim EXCEPT ![u] = [pc |-> "count", listing |-> n]]
  /\ UNCHANGED <<draft, due, callFailures, claimCrashes>>

\* The payload, the KYC level or the departure date is refused.
CreateRefused(u) ==
  /\ In(u, "create")
  /\ AdvanceClaim(u, "release")
  /\ UNCHANGED <<draft, due, listing, callFailures, claimCrashes>>

CountListing(u) ==
  /\ In(u, "count")
  /\ AdvanceClaim(u, "link")
  /\ UNCHANGED <<draft, due, listing, callFailures, claimCrashes>>

Linked(u) == [draft EXCEPT !.status = "CLAIMED", !.link = claim[u].listing]

LinkListing(u) ==
  /\ In(u, "link")
  /\ draft' = Linked(u)
  /\ End(u)
  /\ UNCHANGED <<due, listing, callFailures, claimCrashes>>

Released == [draft EXCEPT !.status = "NEW", !.claimedBy = NoUserYet]

Release(u) ==
  /\ In(u, "release")
  /\ draft' = IF draft.status = "PROCESSING" THEN Released ELSE draft
  /\ End(u)
  /\ UNCHANGED <<due, listing, callFailures, claimCrashes>>

\* The call throws, but the reservation, the listing or the link may be written
\* all the same (an expiry or a release that is written ends the claim anyway).
CallFails(u) ==
  /\ callFailures < MaxCallFailures
  /\ callFailures' = callFailures + 1
  /\ \/ /\ claim[u].pc \in {"create", "count", "link"}
        /\ AdvanceClaim(u, "release")
     \/ claim[u].pc \in {"expire", "reserve", "release"} /\ End(u)
  /\ \/ UNCHANGED <<draft, listing>>
     \/ /\ In(u, "reserve") /\ Reservable
        /\ draft' = Reserved(u)
        /\ UNCHANGED listing
     \/ /\ In(u, "link") /\ draft' = Linked(u)
        /\ UNCHANGED listing
     \/ /\ In(u, "create") /\ UNCHANGED draft
        /\ \E n \in Listings \ Made :
             /\ 1..(n - 1) \subseteq Made
             /\ listing' = [listing EXCEPT ![n] = u]
  /\ UNCHANGED <<due, claimCrashes>>

CrashClaim(u) ==
  /\ claimCrashes < MaxClaimCrashes
  /\ ~In(u, "idle")
  /\ claimCrashes' = claimCrashes + 1
  /\ End(u)
  /\ UNCHANGED <<draft, due, listing, callFailures>>

DraftsNext ==
  \/ CreateDraft
  \/ TimePasses
  \/ \E u \in Claimers :
       \/ FindDraft(u) \/ ExpireDraft(u) \/ Reserve(u) \/ CreateListing(u) \/ CreateRefused(u)
       \/ CountListing(u) \/ LinkListing(u) \/ Release(u) \/ CallFails(u) \/ CrashClaim(u)

DraftsSpec == DraftsInit /\ [][DraftsNext]_draftsVars

----------------------------------------------------------------------------
(* Properties *)

\* However many users claim a draft at once, and whenever it expires meanwhile,
\* it becomes one trip or shipment.  Each failed call can add one more, because
\* the release does not know that the listing was created.
OneListingPerDraft == Cardinality(Made) <= 1 + callFailures

\* A claimed draft names the user who owns the listing it links to, although
\* the link, the expiry and the release write without looking who reserved it.
ClaimedByOwner ==
  draft.status = "CLAIMED" => draft.link \in Made /\ listing[draft.link] = draft.claimedBy

\* A reservation is held by a claim that is still under way: only a claim that
\* stopped halfway, or whose release failed, leaves the draft reserved for good.
ReservationHeld ==
  draft.status = "PROCESSING" =>
    \/ claim[draft.claimedBy].pc \in {"create", "count", "link", "release"}
    \/ claimCrashes + callFailures > 0

\* A draft becomes one listing, of the user who claimed it, and is not left reserved
\* by a claim that ended in the usual way.
DraftsAccounted == OneListingPerDraft /\ ClaimedByOwner /\ ReservationHeld
=============================================================================
