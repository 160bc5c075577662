---------------------------- MODULE FinanceGates ----------------------------
(***************************************************************************)
(* Payments and payouts of one account.  Each looks at the account twice,  *)
(* for what the gate requires and for the limit of the amount, and reaches *)
(* finance one or two awaits later, while documents are reviewed, the      *)
(* level changes and bank cards are added and removed.                     *)
(***************************************************************************)
EXTENDS KycLevels, BankCards

CONSTANTS
  Payers,         \* requests that move money, under way at once
  Amounts,
  LimitOf         \* LimitOf[action][grade]: FINANCE_*_LIMIT_RIALS

MoneyActions == {"CREATE_PAYMENT", "REQUEST_PAYOUT"}
Grades == {"identity", "document", "full"}

ASSUME GatesAssumption ==
  /\ LimitOf \in [MoneyActions -> [Grades -> Nat]]
  /\ \A a \in MoneyActions :
       LimitOf[a].identity <= LimitOf[a].document /\ LimitOf[a].document <= LimitOf[a].full
  /\ Amounts \subseteq Nat

VARIABLES
  moneyCall,      \* moneyCall[p]: the request in progress of p
  weakened        \* requests during which the account lost something the gates ask for

gatesVars == <<kycVars, cardsVars, moneyCall, weakened>>

NoMoneyCall == [pc |-> "idle", action |-> "CREATE_PAYMENT", amount |-> 0]

\* The variables of the account have the types of KycTypeOK and CardsTypeOK.
GatesTypeOK ==
  /\ moneyCall \in [Payers -> [pc: {"idle", "amount", "limits", "profile", "finance"},
                               action: MoneyActions, amount: Amounts \cup {0}]]
  /\ weakened \subseteq Payers

GatesInit ==
  /\ KycInit /\ CardsInit
  /\ moneyCall = [p \in Payers |-> NoMoneyCall] /\ weakened = {}

PayerGoes(p, pc) == moneyCall' = [moneyCall EXCEPT ![p].pc = pc]
PayerStops(p) == moneyCall' = [moneyCall EXCEPT ![p] = NoMoneyCall]
SameAccount == UNCHANGED <<kycVars, cardsVars, weakened>>

----------------------------------------------------------------------------
(* The gates *)

ApprovedNationalId == "national_id" \in ApprovedTypes

\* assertKycMinLevel with what payments and payouts require
Required == level >= IDENTITY_VERIFIED /\ (iranian => identity # NoId) /\ financial

\* Mutant of DocumentTrust.
DocumentTrustByLevel == level >= DOCUMENT_VERIFIED
DocumentTrust == level >= DOCUMENT_VERIFIED /\ (iranian => ApprovedNationalId)

\* FinanceLimitsService.assertAllowed
WithinLimit(action, amount) ==
  LET limit == LimitOf[action] IN
  /\ DocumentTrust \/ amount <= limit.identity
  /\ amount <= IF level >= FACE_VERIFIED THEN limit.full
               ELSE IF DocumentTrust THEN limit.document ELSE limit.identity

----------------------------------------------------------------------------
(* CreateShipmentPaymentUseCase and RequestWithdrawalUseCase *)

\* A payout is asked for with its amount; a refusal changes nothing.
CheckRequirement(p, action, amount) ==
  /\ moneyCall[p].pc = "idle"
  /\ Required
  /\ moneyCall' = [moneyCall EXCEPT ![p] =
       IF action = "REQUEST_PAYOUT"
       THEN [pc |-> "limits", action |-> action, amount |-> amount]
       ELSE [pc |-> "amount", action |-> action, amount |-> 0]]
  /\ weakened' = weakened \ {p}
  /\ UNCHANGED <<kycVars, cardsVars>>

\* A payment is for the price that was agreed, if the shipment waits for one.
ReadAgreedPrice(p, amount) ==
  /\ moneyCall[p].pc = "amount"
  /\ \/ PayerStops(p)
     \/ moneyCall' = [moneyCall EXCEPT ![p].pc = "limits", ![p].amount = amount]
  /\ SameAccount

CheckLimits(p) ==
  /\ moneyCall[p].pc = "limits"
  /\ IF ~WithinLimit(moneyCall[p].action, moneyCall[p].amount) THEN PayerStops(p)
     ELSE PayerGoes(p, IF moneyCall[p].action = "REQUEST_PAYOUT" THEN "profile" ELSE "finance")
  /\ SameAccount

\* The profile holds the IBAN of the card that was verified last.
ReadPayoutProfile(p) ==
  /\ moneyCall[p].pc = "profile"
  /\ IF payout = NoCard THEN PayerStops(p) ELSE PayerGoes(p, "finance")
  /\ SameAccount

\* tryPayFromWallet, tryCreatePaymentOrder or tryCreateWithdrawal
CallFinance(p) ==
  /\ moneyCall[p].pc = "finance"
  /\ PayerStops(p)
  /\ SameAccount

----------------------------------------------------------------------------
(* The account under them *)

Lost ==
  \/ level' < level
  \/ ApprovedTypes \ ApprovedTypes' # {}
  \/ financial /\ ~financial'

AccountMoves ==
  /\ \/ KycNext /\ UNCHANGED cardsVars
     \/ CardsNext /\ UNCHANGED kycVars
  /\ weakened' = IF Lost THEN {p \in Payers : moneyCall[p].pc # "idle"} \cup weakened ELSE weakened
  /\ UNCHANGED moneyCall

GatesNext ==
  \/ \E p \in Payers, action \in MoneyActions, amount \in Amounts :
       CheckRequirement(p, action, amount)
  \/ \E p \in Payers, amount \in Amounts : ReadAgreedPrice(p, amount)
  \/ \E p \in Payers : CheckLimits(p) \/ ReadPayoutProfile(p) \/ CallFinance(p)
  \/ AccountMoves

GatesSpec == GatesInit /\ [][GatesNext]_gatesVars

----------------------------------------------------------------------------
(* Properties *)

Reaches(p) == moneyCall[p].pc = "finance" /\ moneyCall'[p].pc = "idle"
ReviewApproved(type) == \E i \in DocumentIds : TypeOf[i] = type /\ docs[i] = "APPROVED"

\* Both looks at the account are old when finance is called, and they were not taken
\* at the same time.  Still, unless the account lost something in between, the money
\* that moves is within what it is entitled to at that moment: a verified national
\* id and an active card, an approved document above the first limit (for a payout
\* as for a payment), a verified face above the second one, and nothing above the third.
MoneyWithinLimits ==
  [][\A p \in Payers : Reaches(p) /\ p \notin weakened =>
       LET limit == LimitOf[moneyCall[p].action]
           amount == moneyCall[p].amount
       IN  /\ identity # NoId /\ financial
           /\ FinancialMeansCard
           /\ amount > limit.identity
                => level >= DOCUMENT_VERIFIED /\ (iranian => ReviewApproved("national_id"))
           /\ amount > limit.document => level >= FACE_VERIFIED
           /\ amount <= limit.full]_gatesVars
=============================================================================
