----------------------------- MODULE MCAccounts -----------------------------
(* The components of an account for TLC: codes, sessions, KYC, cards, the  *)
(* gates of payments, credit and withdrawals.  They share no state (the    *)
(* gates look at a smaller account of their own), so a behaviour of the    *)
(* run stays in one of them.                                               *)
EXTENDS OneTimeCodes, Sessions, FinanceGates, Campaigns, Withdrawals, TLC

CONSTANTS f1, f2, f3, q1, n1, k1, x1

VARIABLES
  area,
  byIranianPhone, levelNow, identityNow, heldElsewhere, documentsNow, review, everApproved,
  cardNow, verifiedInOrder, passesFinancial, payoutCard, removing, diedHalfway, crossedBy

TypesOfDocuments ==
  (f1 :> "national_id") @@ (f2 :> "selfie") @@ (f3 :> "address_proof")

LimitsOfActions ==
  [CREATE_PAYMENT |-> [identity |-> 1, document |-> 2, full |-> 3],
   REQUEST_PAYOUT |-> [identity |-> 1, document |-> 1, full |-> 2]]

\* One request of each kind, one card, and a document for each of two levels.
Gates == INSTANCE FinanceGates WITH
  Callers <- {q1}, NationalIds <- {n1}, DocumentIds <- {f1, f2},
  TypeOf <- (f1 :> "national_id") @@ (f2 :> "selfie"),
  Cards <- {k1}, Removers <- {x1}, MaxCrashes <- 1,
  iranian <- byIranianPhone, level <- levelNow, identity <- identityNow,
  elsewhere <- heldElsewhere, docs <- documentsNow, kycCall <- review,
  approvedEver <- everApproved,
  card <- cardNow, verifiedOrder <- verifiedInOrder, financial <- passesFinancial,
  payout <- payoutCard, removal <- removing, crashes <- diedHalfway, overtaken <- crossedBy

payVars == <<byIranianPhone, levelNow, identityNow, heldElsewhere, documentsNow, review,
             everApproved, cardNow, verifiedInOrder, passesFinancial, payoutCard, removing,
             diedHalfway, crossedBy, moneyCall, weakened>>
accountsVars == <<area, codesVars, sessionsVars, kycVars, cardsVars, campaignVars,
                  withdrawalVars, payVars>>

AccountsInit ==
  /\ area \in {"codes", "sessions", "kyc", "cards", "campaign", "withdrawal", "gates"}
  /\ CodesInit /\ SessionsInit /\ CardsInit /\ KycInit /\ CampaignsInit /\ WithdrawalsInit
  /\ Gates!GatesInit
  \* A component that is not looked at starts in one way.
  /\ area # "kyc" => iranian
  /\ area # "campaign" => campaign.maxGrants = 1
  /\ area # "gates" => byIranianPhone

AccountsNext ==
  /\ UNCHANGED area
  /\ \/ /\ area = "codes" /\ CodesNext
        /\ UNCHANGED <<sessionsVars, kycVars, cardsVars, campaignVars, withdrawalVars, payVars>>
     \/ /\ area = "sessions" /\ SessionsNext
        /\ UNCHANGED <<codesVars, kycVars, cardsVars, campaignVars, withdrawalVars, payVars>>
     \/ /\ area = "kyc" /\ KycNext
        /\ UNCHANGED <<codesVars, sessionsVars, cardsVars, campaignVars, withdrawalVars, payVars>>
     \/ /\ area = "cards" /\ CardsNext
        /\ UNCHANGED <<codesVars, sessionsVars, kycVars, campaignVars, withdrawalVars, payVars>>
     \/ /\ area = "campaign" /\ CampaignsNext
        /\ UNCHANGED <<codesVars, sessionsVars, kycVars, cardsVars, withdrawalVars, payVars>>
     \/ /\ area = "withdrawal" /\ WithdrawalsNext
        /\ UNCHANGED <<codesVars, sessionsVars, kycVars, cardsVars, campaignVars, payVars>>
     \/ /\ area = "gates" /\ Gates!GatesNext
        /\ UNCHANGED <<codesVars, sessionsVars, kycVars, cardsVars, campaignVars, withdrawalVars>>

AccountsSpec == AccountsInit /\ [][AccountsNext]_accountsVars

\* The type invariant of the component that the behaviour is in.
AccountsTypeOK ==
  /\ area = "codes" => CodesTypeOK
  /\ area = "sessions" => SessionsTypeOK
  /\ area = "kyc" => KycTypeOK
  /\ area = "cards" => CardsTypeOK
  /\ area = "campaign" => CampaignsTypeOK
  /\ area = "withdrawal" => WithdrawalsTypeOK
  /\ area = "gates" => Gates!GatesTypeOK

\* Money moves within what the account is entitled to at that moment.
PaymentsWithinLimits == Gates!MoneyWithinLimits

\* The actors of all components are one set, and so are the values they carry.
AccountsSymmetry == Permutations(Clients) \union Permutations(References)
=============================================================================
