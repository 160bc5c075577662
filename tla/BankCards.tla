----------------------------- MODULE BankCards -----------------------------
(***************************************************************************)
(* The bank cards of an account whose national id is verified, the flag    *)
(* users.financialVerifiedAt that the payment and payout gates read, and   *)
(* the payout profile that withdrawals are sent to.  A card is added in    *)
(* one transaction; it is removed in up to four awaits.                    *)
(***************************************************************************)
EXTENDS Naturals, Sequences, FiniteSets

CONSTANTS
  Cards,
  Removers,      \* requests that remove a card
  MaxCrashes     \* bound on the removals that end halfway

ASSUME CardsAssumption == MaxCrashes \in Nat

VARIABLES
  card,          \* card[k]: the row of user_bank_accounts for card k
  verifiedOrder, \* cards by card_match_verified_at, the latest last
  financial,     \* financialVerifiedAt # null
  payout,        \* the card whose IBAN is in the payout profile, or NoCard
  removal,       \* removal[r]: the removal in progress of request r
  crashes,       \* removals that ended halfway
  overtaken      \* some write fell between the first and the last step of a removal

cardsVars == <<card, verifiedOrder, financial, payout, removal, crashes, overtaken>>

NoCard == "none"
NoRemoval == [pc |-> "idle", card |-> NoCard, wasDefault |-> FALSE, next |-> NoCard]
ActiveCards == {k \in Cards : card[k].active}
Defaults == {k \in Cards : card[k].default}
Positions == 1..Len(verifiedOrder)

CardsTypeOK ==
  /\ card \in [Cards -> [active: BOOLEAN, default: BOOLEAN]]
  /\ verifiedOrder \in Seq(Cards)
  /\ \A k \in ActiveCards : \E i \in Positions : verifiedOrder[i] = k
  /\ \A i, j \in Positions : verifiedOrder[i] = verifiedOrder[j] => i = j
  /\ financial \in BOOLEAN
  /\ payout \in Cards \cup {NoCard}
  /\ removal \in [Removers -> [pc: {"idle", "deactivate", "list", "unverify", "promote"},
                               card: Cards \cup {NoCard}, wasDefault: BOOLEAN,
                               next: Cards \cup {NoCard}]]
  /\ crashes \in 0..MaxCrashes
  /\ overtaken \in BOOLEAN

CardsInit ==
  /\ card = [k \in Cards |-> [active |-> FALSE, default |-> FALSE]]
  /\ verifiedOrder = <<>>
  /\ financial = FALSE /\ payout = NoCard
  /\ removal = [r \in Removers |-> NoRemoval]
  /\ crashes = 0 /\ overtaken = FALSE

NoteWrite(S) == overtaken' = (overtaken \/ \E r \in S : removal[r].pc # "idle")

----------------------------------------------------------------------------
(* VerifyBankCardUseCase; the two answers of api.ir come before            *)

\* A card is in the order at most once.
WithoutCard(k) ==
  IF \A i \in Positions : verifiedOrder[i] # k THEN verifiedOrder
  ELSE LET i == CHOOSE j \in Positions : verifiedOrder[j] = k
       IN  SubSeq(verifiedOrder, 1, i - 1) \o SubSeq(verifiedOrder, i + 1, Len(verifiedOrder))

\* Mutant of VerifiedLast.
VerifiedLastAppended(k) == Append(verifiedOrder, k)
VerifiedLast(k) == Append(WithoutCard(k), k)

\* The transaction clears the other defaults and puts this card in their place.
Added(k) ==
  [other \in Cards |-> IF other = k THEN [active |-> TRUE, default |-> TRUE]
                       ELSE [card[other] EXCEPT !.default = FALSE]]

UpsertBankAccount(k) ==
  /\ card' = Added(k)
  /\ verifiedOrder' = VerifiedLast(k)
  /\ payout' = k
  /\ financial' = TRUE
  /\ NoteWrite(Removers)
  /\ UNCHANGED <<removal, crashes>>

----------------------------------------------------------------------------
(* DeleteBankAccountUseCase: PrismaKycRepository.deactivateBankAccount      *)

FindAccount(r, k) ==
  /\ removal[r].pc = "idle"
  /\ k \in ActiveCards
  /\ removal' = [removal EXCEPT ![r] = [pc |-> "deactivate", card |-> k,
                                        wasDefault |-> card[k].default, next |-> NoCard]]
  /\ UNCHANGED <<card, verifiedOrder, financial, payout, crashes, overtaken>>

Deactivate(r) ==
  /\ removal[r].pc = "deactivate"
  /\ card' = [card EXCEPT ![removal[r].card] = [active |-> FALSE, default |-> FALSE]]
  /\ removal' = [removal EXCEPT ![r].pc = "list"]
  /\ NoteWrite(Removers \ {r})
  /\ UNCHANGED <<verifiedOrder, financial, payout, crashes>>

LatestActive ==
  CHOOSE k \in ActiveCards : \E i \in Positions :
    verifiedOrder[i] = k /\ \A j \in Positions : j > i => verifiedOrder[j] \notin ActiveCards

\* Mutant of AfterList.
AfterListDefaultOnly(wasDefault) ==
  IF ~wasDefault THEN "idle" ELSE IF ActiveCards = {} THEN "unverify" ELSE "promote"
\* What the removal still has to write, from the default flag it found first.
AfterList(wasDefault) ==
  IF ActiveCards = {} THEN "unverify" ELSE IF wasDefault THEN "promote" ELSE "idle"

ListRemaining(r) ==
  /\ removal[r].pc = "list"
  /\ LET pc == AfterList(removal[r].wasDefault)
     IN removal' = [removal EXCEPT ![r] =
          CASE pc = "idle" -> NoRemoval
            [] pc = "unverify" -> [@ EXCEPT !.pc = pc]
            [] pc = "promote" -> [@ EXCEPT !.pc = pc, !.next = LatestActive]]
  /\ UNCHANGED <<card, verifiedOrder, financial, payout, crashes, overtaken>>

SetFinancialVerified(r) ==
  /\ removal[r].pc = "unverify"
  /\ financial' = FALSE
  /\ removal' = [removal EXCEPT ![r] = NoRemoval]
  /\ NoteWrite(Removers \ {r})
  /\ UNCHANGED <<card, verifiedOrder, payout, crashes>>

\* By id: the card may have been removed since it was listed.
PromoteNext(r) ==
  /\ removal[r].pc = "promote"
  /\ card' = [card EXCEPT ![removal[r].next].default = TRUE]
  /\ removal' = [removal EXCEPT ![r] = NoRemoval]
  /\ NoteWrite(Removers \ {r})
  /\ UNCHANGED <<verifiedOrder, financial, payout, crashes>>

CrashRemoval(r) ==
  /\ crashes < MaxCrashes
  /\ removal[r].pc # "idle"
  /\ crashes' = crashes + 1
  /\ removal' = [removal EXCEPT ![r] = NoRemoval]
  /\ UNCHANGED <<card, verifiedOrder, financial, payout, overtaken>>

RemovalStep(r) ==
  Deactivate(r) \/ ListRemaining(r) \/ SetFinancialVerified(r) \/ PromoteNext(r)

CardsNext ==
  \/ \E k \in Cards : UpsertBankAccount(k)
  \/ \E r \in Removers, k \in Cards : FindAccount(r, k)
  \/ \E r \in Removers : RemovalStep(r) \/ CrashRemoval(r)

CardsSpec == CardsInit /\ [][CardsNext]_cardsVars

----------------------------------------------------------------------------
(* Properties *)

\* The gates of payment and payout let an account through only while it has an
\* active card: whatever removals overlap, the one that deactivates last lists
\* none and withdraws the flag.  Only a crash in between leaves it set.
FinancialMeansCard ==
  financial =>
    \/ ActiveCards # {}
    \/ \E r \in Removers : removal[r].pc \in {"list", "unverify"}
    \/ crashes > 0

\* Unless some write fell into a removal (which keeps the default flag it read
\* first and the list it read later), or a removal crashed, an account at rest
\* with active cards passes the gates and has one default card, an active one.
SettledCards ==
  ~overtaken /\ crashes = 0 /\ (\A r \in Removers : removal[r].pc = "idle") =>
    IF ActiveCards = {} THEN ~financial /\ Defaults = {}
    ELSE financial /\ \E k \in ActiveCards : Defaults = {k}

\* The flag that the gates read, the cards and the default agree, as far as the
\* removals allow.
CardsConsistent == FinancialMeansCard /\ SettledCards
=============================================================================
