------------------------- MODULE FinanceGatesProofs --------------------------
(***************************************************************************)
(* Theorems about KycLevels, BankCards and FinanceGates for any number of  *)
(* requests, national ids, documents, cards, removals, crashes and limits: *)
(* a level rests on what the ladder asks below it, a national id belongs   *)
(* to one account, neither is taken back by a request that was not         *)
(* overtaken; the cards of an account agree with its payout card and its   *)
(* financial identity; and money moves only within what the level allows.  *)
(*                                                                         *)
(* A request acts on what it read, so each invariant says of the requests  *)
(* under way what is still true of that.  A payment looks at the level,    *)
(* the financial identity and the limit before it asks Finance, so its     *)
(* part rests on those of the levels and of the cards.                     *)
(***************************************************************************)
EXTENDS FinanceGates, SequenceTheorems, WellFoundedInduction, TLAPS

(***************************************************************************)
(* Levels                                                                  *)
(***************************************************************************)

\* What an account must have for a level.
Supports(l) ==
  /\ l >= IDENTITY_VERIFIED => identity # NoId
  /\ l >= DOCUMENT_VERIFIED => {"national_id", "passport"} \cap approvedEver # {}
  /\ l >= FACE_VERIFIED => "selfie" \in approvedEver
  /\ l >= FULLY_VERIFIED => "address_proof" \in approvedEver

\* What a request has read was true once, and approvals and the identity stay.
CallSound(c) ==
  /\ kycCall[c].types \subseteq approvedEver
  /\ kycCall[c].pc = "raise" => Supports(kycCall[c].new)
  /\ kycCall[c].pc \in {"findOwn", "registries", "upsertIdentity"} =>
       kycCall[c].id \in NationalIds

\* Until another request writes the level, what it read is still so.
CallCurrent(c) ==
  ~kycCall[c].late =>
    /\ kycCall[c].pc \in {"registries", "upsertIdentity"} => identity = NoId
    /\ kycCall[c].pc = "raise" => kycCall[c].new > level

KycInv ==
  /\ KycTypeOK
  /\ Supports(level)
  /\ identity \notin elsewhere
  /\ \A c \in Callers : CallSound(c)
  /\ \A c \in Callers : CallCurrent(c)

USE DEF Levels, MOBILE_VERIFIED, IDENTITY_VERIFIED, DOCUMENT_VERIFIED, FACE_VERIFIED,
        FULLY_VERIFIED

LEMMA NoCallTyped == NoKycCall \in KycCalls
BY DEF NoKycCall, KycCalls

LEMMA KycStarts == KycInit => KycInv
<1>1. KycInit => KycTypeOK
  BY NoCallTyped DEF KycInit, KycTypeOK
<1>2. ASSUME KycInit, NEW c \in Callers PROVE CallSound(c) /\ CallCurrent(c)
  <2>1. kycCall[c] = NoKycCall
    BY <1>2 DEF KycInit
  <2>2. QED
    BY <2>1 DEF CallSound, CallCurrent, NoKycCall
<1>3. QED
  BY <1>1, <1>2 DEF KycInit, KycInv, Supports

\* The level that approved types and a national id give is a level they support.
LEMMA EarnedSupported ==
  ASSUME NEW types \in SUBSET approvedEver
  PROVE  /\ Earned(types, identity # NoId) \in Levels
         /\ Supports(Earned(types, identity # NoId))
BY DEF Earned, Supports

\* A request that only changes where it stands, or starts or ends, keeps the
\* invariant when what it now carries is sound.
LEMMA OneCall ==
  ASSUME KycInv, NEW c \in Callers, NEW r \in KycCalls,
         kycCall' = [kycCall EXCEPT ![c] = r],
         UNCHANGED <<iranian, level, identity>>,
         elsewhere' = elsewhere,
         docs' \in [DocumentIds -> {"none", "PENDING", "APPROVED", "REJECTED"}],
         approvedEver \subseteq approvedEver', approvedEver' \subseteq Types,
         \A i \in DocumentIds : docs'[i] = "APPROVED" => TypeOf[i] \in approvedEver',
         r.types \subseteq approvedEver',
         r.pc = "raise" => Supports(r.new) /\ (r.late \/ r.new > level),
         r.pc \in {"findOwn", "registries", "upsertIdentity"} => r.id \in NationalIds,
         r.pc \in {"registries", "upsertIdentity"} => r.late \/ identity = NoId
  PROVE  KycInv'
<1>1. KycTypeOK'
  BY DEF KycInv, KycTypeOK
<1>2. Supports(level)' /\ (identity \notin elsewhere)'
  BY DEF KycInv, Supports
<1>3. ASSUME NEW d \in Callers PROVE CallSound(d)' /\ CallCurrent(d)'
  <2>1. CASE d = c
    <3>1. kycCall'[d] = r
      BY <2>1 DEF KycInv, KycTypeOK
    <3>2. QED
      BY <3>1 DEF CallSound, CallCurrent, Supports
  <2>2. CASE d # c
    <3>1. kycCall'[d] = kycCall[d]
      BY <2>2 DEF KycInv, KycTypeOK
    <3>2. CallSound(d) /\ CallCurrent(d)
      BY DEF KycInv
    <3>3. QED
      BY <3>1, <3>2 DEF CallSound, CallCurrent, Supports
  <2>3. QED
    BY <2>1, <2>2
<1>4. QED
  BY <1>1, <1>2, <1>3 DEF KycInv

\* A write of the level makes every other request late, and ends its own.
LEMMA LevelWritten ==
  ASSUME KycInv, NEW c \in Callers, NEW new \in Levels, WriteLevel(c, new),
         UNCHANGED <<iranian, elsewhere, docs, approvedEver>>,
         identity' \in NationalIds \cup {NoId}, identity' \notin elsewhere,
         identity # NoId => identity' # NoId,
         Supports(new)'
  PROVE  KycInv'
<1>1. kycCall' \in [Callers -> KycCalls]
  BY NoCallTyped, ZenonT(60) DEF KycInv, KycTypeOK, WriteLevel, KycCalls
<1>2. KycTypeOK'
  BY <1>1 DEF KycInv, KycTypeOK, WriteLevel
<1>3. Supports(level)' /\ (identity \notin elsewhere)'
  BY DEF WriteLevel, Supports
<1>4. ASSUME NEW d \in Callers PROVE CallSound(d)' /\ CallCurrent(d)'
  <2>1. CASE kycCall'[d] = NoKycCall
    BY <2>1 DEF NoKycCall, CallSound, CallCurrent
  <2>2. CASE kycCall'[d] = [kycCall[d] EXCEPT !.late = TRUE]
    <3>1. kycCall[d] \in KycCalls /\ CallSound(d)
      BY DEF KycInv, KycTypeOK
    <3>2. QED
      BY <2>2, <3>1 DEF CallSound, CallCurrent, KycCalls, Supports
  <2>3. QED
    BY <2>1, <2>2 DEF WriteLevel
<1>5. QED
  BY <1>2, <1>3, <1>4 DEF KycInv

LEMMA KycStep == KycInv /\ [KycNext]_kycVars => KycInv'
<1> SUFFICES ASSUME KycInv, [KycNext]_kycVars PROVE KycInv'
  OBVIOUS
<1>0. /\ KycTypeOK
      /\ \A c \in Callers : kycCall[c] \in KycCalls /\ CallSound(c) /\ CallCurrent(c)
  BY DEF KycInv, KycTypeOK
<1>1. ASSUME NEW c \in Callers, NEW id \in NationalIds, FindIdentityByNationalIdHash(c, id)
      PROVE  KycInv'
  <2> DEFINE r == [NoKycCall EXCEPT !.pc = "findOwn", !.id = id]
  <2>1. r \in KycCalls /\ r.types = {} /\ r.pc = "findOwn" /\ r.id = id
    BY NoCallTyped DEF NoKycCall, KycCalls
  <2>2. kycCall' = [kycCall EXCEPT ![c] = r]
    BY <1>1 DEF FindIdentityByNationalIdHash, Start
  <2> HIDE DEF r
  <2>3. QED
    BY <1>0, <1>1, <2>1, <2>2, OneCall DEF FindIdentityByNationalIdHash, KycTypeOK
<1>2. ASSUME NEW c \in Callers, FindIdentityByUserId(c) \/ AskRegistries(c) PROVE KycInv'
  <2> DEFINE r == kycCall'[c]
  <2>1. /\ r \in KycCalls /\ r.types \subseteq approvedEver
        /\ r.pc \in {"idle", "registries", "upsertIdentity"}
        /\ r.pc # "idle" => r.id \in NationalIds /\ (r.late \/ identity = NoId)
        /\ kycCall' = [kycCall EXCEPT ![c] = r]
    <3>1. CASE Stop(c)
      BY <1>0, <3>1, NoCallTyped DEF Stop, NoKycCall, KycTypeOK
    <3>2. CASE AtStep(c, "findOwn") /\ identity = NoId /\ Go(c, "registries")
      BY <1>0, <3>2 DEF AtStep, Go, KycTypeOK, KycCalls, CallSound
    <3>3. CASE AtStep(c, "registries") /\ Go(c, "upsertIdentity")
      BY <1>0, <3>3 DEF AtStep, Go, KycTypeOK, KycCalls, CallSound, CallCurrent
    <3>4. QED
      BY <1>2, <3>1, <3>2, <3>3 DEF FindIdentityByUserId, AskRegistries, Unlocked
  <2>2. UNCHANGED <<iranian, level, identity, elsewhere, docs, approvedEver>>
    BY <1>2 DEF FindIdentityByUserId, AskRegistries
  <2> HIDE DEF r
  <2>3. QED
    BY <1>0, <2>1, <2>2, OneCall DEF KycTypeOK
<1>3. ASSUME NEW c \in Callers, UpsertIdentity(c) PROVE KycInv'
  <2>1. CASE UniqueHash(kycCall[c].id) /\ identity' = kycCall[c].id
             /\ WriteLevel(c, IDENTITY_VERIFIED)
    <3>1. kycCall[c].id \in NationalIds /\ kycCall[c].id \notin elsewhere
      BY <1>0, <1>3, <2>1 DEF UpsertIdentity, AtStep, CallSound, UniqueHash
    <3>2. Supports(IDENTITY_VERIFIED)'
      BY <2>1, <3>1, KycAssumption DEF Supports
    <3>3. QED
      BY <1>3, <2>1, <3>1, <3>2, KycAssumption, LevelWritten DEF UpsertIdentity
  <2>2. CASE Stop(c) /\ UNCHANGED <<level, identity>>
    <3>1. NoKycCall.types = {} /\ NoKycCall.pc = "idle"
      BY DEF NoKycCall
    <3>2. QED
      BY <1>0, <1>3, <2>2, <3>1, NoCallTyped, OneCall DEF UpsertIdentity, Stop, KycTypeOK
  <2>3. QED
    BY <1>3, <2>1, <2>2 DEF UpsertIdentity
<1>4. ASSUME NEW id \in NationalIds, OtherAccountVerifies(id) PROVE KycInv'
  BY <1>0, <1>4 DEF OtherAccountVerifies, KycInv, KycTypeOK, Supports, CallSound, CallCurrent
<1>5. ASSUME NEW c \in Callers, NEW type \in Types, FindOpenDocument(c, type) PROVE KycInv'
  <2>1. PICK i \in DocumentIds \cup {NewRow} :
          kycCall' = [kycCall EXCEPT ![c] =
            [NoKycCall EXCEPT !.pc = "writeDocument", !.type = type, !.doc = i]]
    BY <1>5 DEF FindOpenDocument, Start
  <2> DEFINE r == [NoKycCall EXCEPT !.pc = "writeDocument", !.type = type, !.doc = i]
  <2>2. r \in KycCalls /\ r.types = {} /\ r.pc = "writeDocument"
    BY NoCallTyped DEF NoKycCall, KycCalls
  <2> HIDE DEF r
  <2>3. QED
    BY <1>0, <1>5, <2>1, <2>2, OneCall DEF FindOpenDocument, KycTypeOK, r
<1>6. ASSUME NEW c \in Callers, WriteDocument(c) PROVE KycInv'
  <2>1. PICK i \in DocumentIds : docs' = [docs EXCEPT ![i] = "PENDING"]
    BY <1>6 DEF WriteDocument
  <2>2. NoKycCall.types = {} /\ NoKycCall.pc = "idle"
    BY DEF NoKycCall
  <2>3. /\ docs' \in [DocumentIds -> {"none", "PENDING", "APPROVED", "REJECTED"}]
        /\ \A j \in DocumentIds : docs'[j] = "APPROVED" => TypeOf[j] \in approvedEver
    BY <1>0, <2>1 DEF KycTypeOK
  <2>4. QED
    BY <1>0, <1>6, <2>2, <2>3, NoCallTyped, OneCall DEF WriteDocument, Stop, KycTypeOK
<1>7. ASSUME NEW c \in Callers, NEW i \in DocumentIds, NEW status \in {"APPROVED", "REJECTED"},
             ReviewDocument(c, i, status)
      PROVE  KycInv'
  <2> DEFINE r == IF status = "APPROVED" THEN [NoKycCall EXCEPT !.pc = "documents"]
                  ELSE kycCall[c]
  <2>1. /\ docs' \in [DocumentIds -> {"none", "PENDING", "APPROVED", "REJECTED"}]
        /\ approvedEver \subseteq approvedEver' /\ approvedEver' \subseteq Types
        /\ \A j \in DocumentIds : docs'[j] = "APPROVED" => TypeOf[j] \in approvedEver'
    BY <1>0, <1>7, KycAssumption DEF ReviewDocument, KycTypeOK
  <2>2. r \in KycCalls /\ r.types \subseteq approvedEver' /\ r.pc \in {"documents", "idle"}
    BY <1>0, <1>7, <2>1, NoCallTyped
       DEF ReviewDocument, AtStep, NoKycCall, KycCalls, CallSound
  <2>3. kycCall' = [kycCall EXCEPT ![c] = r]
    BY <1>0, <1>7 DEF ReviewDocument, Start, KycTypeOK
  <2>4. UNCHANGED <<iranian, level, identity>> /\ elsewhere' = elsewhere
    BY <1>7 DEF ReviewDocument
  <2> HIDE DEF r
  <2>5. QED
    BY <2>1, <2>2, <2>3, <2>4, OneCall
<1>8. ASSUME NEW c \in Callers, ReadDocuments(c) PROVE KycInv'
  <2> DEFINE r == [kycCall[c] EXCEPT !.types = ApprovedTypes, !.pc = "user"]
  <2>1. ApprovedTypes \subseteq approvedEver /\ ApprovedTypes \subseteq Types
    BY <1>0, KycAssumption DEF ApprovedTypes, KycTypeOK
  <2>2. r \in KycCalls /\ r.types \subseteq approvedEver /\ r.pc = "user"
    BY <1>0, <2>1 DEF KycCalls
  <2>3. kycCall' = [kycCall EXCEPT ![c] = r]
    BY <1>0, <1>8 DEF ReadDocuments, KycTypeOK
  <2> HIDE DEF r
  <2>4. QED
    BY <1>0, <1>8, <2>2, <2>3, OneCall DEF ReadDocuments, KycTypeOK
<1>9. ASSUME NEW c \in Callers, ReadUser(c) PROVE KycInv'
  <2> DEFINE new == Earned(kycCall[c].types, identity # NoId)
  <2>1. new \in Levels /\ Supports(new)
    BY <1>0, EarnedSupported DEF CallSound
  <2> HIDE DEF new
  <2> DEFINE r == IF Higher(new, level) THEN [kycCall[c] EXCEPT !.new = new, !.pc = "raise"]
                  ELSE NoKycCall
  <2>2. kycCall' = [kycCall EXCEPT ![c] = r]
    BY <1>0, <1>9 DEF ReadUser, Stop, KycTypeOK, new
  <2>3. /\ r \in KycCalls /\ r.types \subseteq approvedEver /\ r.pc \in {"raise", "idle"}
        /\ r.pc = "raise" => Supports(r.new) /\ r.new > level
    BY <1>0, <2>1, NoCallTyped DEF KycCalls, NoKycCall, Higher, CallSound
  <2> HIDE DEF r
  <2>4. QED
    BY <1>0, <1>9, <2>2, <2>3, OneCall DEF ReadUser, KycTypeOK
<1>10. ASSUME NEW c \in Callers, RaiseLevel(c) PROVE KycInv'
  <2>1. kycCall[c].new \in Levels /\ Supports(kycCall[c].new)
    BY <1>0, <1>10 DEF RaiseLevel, AtStep, CallSound, KycCalls
  <2>2. QED
    BY <1>0, <1>10, <2>1, LevelWritten DEF RaiseLevel, KycInv, KycTypeOK, Supports
<1>11. CASE UNCHANGED kycVars
  BY <1>11 DEF kycVars, KycInv, KycTypeOK, Supports, CallSound, CallCurrent
<1>12. QED
  BY <1>1, <1>2, <1>3, <1>4, <1>5, <1>6, <1>7, <1>8, <1>9, <1>10, <1>11 DEF KycNext

LEMMA KycInvariant == KycSpec => []KycInv
BY KycStarts, KycStep, PTL DEF KycSpec

\* Every level an account has rests on a national id and approved documents.
THEOREM LevelsEarned == KycSpec => []LevelEarned
<1>1. KycInv => LevelEarned
  BY DEF KycInv, Supports, LevelEarned
<1>2. QED
  BY <1>1, KycInvariant, PTL

\* A national id is verified for one account, whoever asks at the same time.
THEOREM NationalIdsUnique == KycSpec => []OneAccountPerNationalId
<1>1. KycInv => OneAccountPerNationalId
  BY DEF KycInv, OneAccountPerNationalId
<1>2. QED
  BY <1>1, KycInvariant, PTL

\* Every level is earned, and by one account for each national id.
THEOREM EarnedVerification == KycSpec => []VerificationEarned
<1>1. KycInv => VerificationEarned
  BY DEF KycInv, Supports, LevelEarned, OneAccountPerNationalId, VerificationEarned
<1>2. QED
  BY <1>1, KycInvariant, PTL

\* Level and identity are taken back or exchanged only by requests that another
\* write of the level overtook.
THEOREM LevelsKept == KycSpec => KycOnlyMovesUp
<1> DEFINE Late == \E c \in Callers : kycCall[c].late /\ kycCall'[c].pc = "idle"
<1>1. ASSUME KycInv, [KycNext]_kycVars, level' # level \/ identity' # identity
      PROVE  \/ Late
             \/ level' >= level /\ (identity # NoId => identity' = identity)
  <2>1. ASSUME NEW c \in Callers, UpsertIdentity(c), WriteLevel(c, IDENTITY_VERIFIED)
        PROVE  Late \/ (level' >= level /\ identity = NoId)
    <3>1. kycCall'[c].pc = "idle"
      BY <2>1 DEF WriteLevel, NoKycCall
    <3>2. CASE kycCall[c].late
      BY <3>1, <3>2
    <3>3. CASE ~kycCall[c].late
      <4>1. identity = NoId
        BY <1>1, <2>1, <3>3 DEF KycInv, CallCurrent, UpsertIdentity, AtStep
      <4>2. level <= IDENTITY_VERIFIED
        BY <1>1, <4>1 DEF KycInv, KycTypeOK, Supports
      <4>3. QED
        BY <2>1, <4>1, <4>2 DEF WriteLevel
    <3>4. QED
      BY <3>2, <3>3
  <2>2. ASSUME NEW c \in Callers, RaiseLevel(c)
        PROVE  Late \/ (level' >= level /\ identity' = identity)
    <3>1. kycCall'[c].pc = "idle"
      BY <2>2 DEF RaiseLevel, WriteLevel, NoKycCall
    <3>2. kycCall[c].new \in Levels /\ level \in Levels
      BY <1>1 DEF KycInv, KycTypeOK, KycCalls
    <3>3. QED
      BY <1>1, <2>2, <3>1, <3>2
         DEF RaiseLevel, WriteLevel, AtStep, KycInv, CallCurrent
  <2>3. QED
    BY <1>1, <2>1, <2>2
       DEF KycNext, FindIdentityByNationalIdHash, FindIdentityByUserId, AskRegistries,
           UpsertIdentity, OtherAccountVerifies, FindOpenDocument, WriteDocument,
           ReviewDocument, ReadDocuments, ReadUser, kycVars
<1>2. KycInv /\ [KycNext]_kycVars => [level' < level => Late]_kycVars
  <2>1. KycInv /\ [KycNext]_kycVars => level \in Levels /\ level' \in Levels
    BY KycStep DEF KycInv, KycTypeOK
  <2>2. QED
    BY <1>1, <2>1
<1>3. KycInv /\ [KycNext]_kycVars => [identity # NoId /\ identity' # identity => Late]_kycVars
  BY <1>1
<1>4. KycSpec => LevelFallsOnlyToLateRequests
  BY <1>2, KycInvariant, PTL DEF KycSpec, LevelFallsOnlyToLateRequests
<1>5. KycSpec => IdentityLocked
  BY <1>3, KycInvariant, PTL DEF KycSpec, IdentityLocked
<1>6. QED
  BY <1>4, <1>5 DEF KycOnlyMovesUp

(***************************************************************************)
(* Bank cards                                                              *)
(***************************************************************************)

\* A removal that was not overtaken still finds the cards as it read them: before its
\* first write the card it is for, after it no default if the card was the default,
\* then what it listed.
RemovalCurrent(r) ==
  LET rem == removal[r] IN
  /\ rem.pc = "deactivate" =>
       rem.card \in ActiveCards /\ rem.wasDefault = card[rem.card].default
  /\ rem.pc \in {"list", "promote", "unverify"} =>
       \A o \in Removers \ {r} : removal[o].pc \in {"idle", "deactivate"}
  /\ rem.pc \in {"list", "promote"} => financial
  /\ rem.pc = "list" =>
       IF rem.wasDefault THEN Defaults = {} ELSE \E k \in ActiveCards : Defaults = {k}
  /\ rem.pc = "unverify" => ActiveCards = {} /\ Defaults = {}
  /\ rem.pc = "promote" => rem.next \in ActiveCards /\ Defaults = {}

Settled ==
  IF ActiveCards = {} THEN ~financial /\ Defaults = {}
  ELSE financial /\ \E k \in ActiveCards : Defaults = {k}

CardsInv ==
  /\ CardsTypeOK
  /\ FinancialMeansCard
  /\ ~overtaken /\ crashes = 0 =>
       /\ \A r \in Removers : RemovalCurrent(r)
       /\ (\A r \in Removers : removal[r].pc \in {"idle", "deactivate"}) => Settled

CardRows == [active: BOOLEAN, default: BOOLEAN]
Removals == [pc: {"idle", "deactivate", "list", "unverify", "promote"},
             card: Cards \cup {NoCard}, wasDefault: BOOLEAN, next: Cards \cup {NoCard}]

----------------------------------------------------------------------------

\* A set of natural numbers that is not empty has a least one.
LEMMA LeastNatural ==
  ASSUME NEW T \in SUBSET Nat, T # {}
  PROVE  \E n \in T : \A m \in T : n <= m
<1>1. PICK n \in T : \A m \in T : <<m, n>> \notin OpToRel(<, Nat)
  BY NatLessThanWellFounded, WFMin
<1>2. ASSUME NEW m \in T PROVE n <= m
  <2>1. ~(m < n)
    BY <1>1, <1>2 DEF OpToRel
  <2>2. QED
    BY <2>1
<1>3. QED
  BY <1>2

\* The order of the cards loses a card and keeps the others, each at one place.
LEMMA WithoutCardProperties ==
  ASSUME CardsTypeOK, NEW k \in Cards
  PROVE  /\ WithoutCard(k) \in Seq(Cards)
         /\ \A i \in 1..Len(WithoutCard(k)) : WithoutCard(k)[i] # k
         /\ \A i, j \in 1..Len(WithoutCard(k)) : WithoutCard(k)[i] = WithoutCard(k)[j] => i = j
         /\ \A i \in Positions : verifiedOrder[i] # k
              => \E j \in 1..Len(WithoutCard(k)) : WithoutCard(k)[j] = verifiedOrder[i]
<1>0. /\ verifiedOrder \in Seq(Cards)
      /\ \A i, j \in Positions : verifiedOrder[i] = verifiedOrder[j] => i = j
  BY DEF CardsTypeOK
<1>1. CASE \A i \in Positions : verifiedOrder[i] # k
  BY <1>0, <1>1 DEF WithoutCard, Positions
<1>2. CASE \E i \in Positions : verifiedOrder[i] = k
  <2> DEFINE n == CHOOSE j \in Positions : verifiedOrder[j] = k
             len == Len(verifiedOrder)
             s == SubSeq(verifiedOrder, 1, n - 1)
             t == SubSeq(verifiedOrder, n + 1, len)
  <2>1. n \in Positions /\ verifiedOrder[n] = k
    BY <1>2
  <2>2. WithoutCard(k) = s \o t
    BY <1>2 DEF WithoutCard
  <2>3. len \in Nat /\ n \in 1..len /\ \A i \in 1..len : verifiedOrder[i] \in Cards
    BY <1>0, <2>1, LenProperties, ElementOfSeq DEF Positions
  <2> HIDE DEF n
  <2>4. /\ s \in Seq(Cards) /\ Len(s) = n - 1
        /\ \A i \in 1..(n - 1) : s[i] = verifiedOrder[i]
    BY <1>0, <2>3
  <2>5. /\ t \in Seq(Cards) /\ Len(t) = len - n
        /\ \A i \in 1..(len - n) : t[i] = verifiedOrder[n + i]
    BY <1>0, <2>3
  <2> HIDE DEF s, t
  <2>6. /\ WithoutCard(k) \in Seq(Cards) /\ Len(WithoutCard(k)) = len - 1
        /\ \A i \in 1..(len - 1) :
             WithoutCard(k)[i] = IF i < n THEN verifiedOrder[i] ELSE verifiedOrder[i + 1]
    <3>1. /\ s \o t \in Seq(Cards) /\ Len(s \o t) = Len(s) + Len(t)
          /\ \A i \in 1..(Len(s) + Len(t)) :
               (s \o t)[i] = IF i <= Len(s) THEN s[i] ELSE t[i - Len(s)]
      BY <2>4, <2>5, ConcatProperties
    <3>2. ASSUME NEW i \in 1..(len - 1)
          PROVE  (s \o t)[i] = IF i < n THEN verifiedOrder[i] ELSE verifiedOrder[i + 1]
      <4>1. CASE i < n
        BY <2>3, <2>4, <2>5, <3>1, <4>1
      <4>2. CASE ~(i < n)
        <5>1. i - (n - 1) \in 1..(len - n) /\ n + (i - (n - 1)) = i + 1
          BY <2>3, <4>2
        <5>2. t[i - (n - 1)] = verifiedOrder[i + 1]
          BY <2>5, <5>1
        <5>3. QED
          BY <2>3, <2>4, <2>5, <3>1, <4>2, <5>2
      <4>3. QED
        BY <4>1, <4>2
    <3>3. QED
      BY <2>2, <2>3, <2>4, <2>5, <3>1, <3>2
  <2>7. \A i, j \in 1..len : verifiedOrder[i] = verifiedOrder[j] => i = j
    BY <1>0 DEF Positions
  <2>8. \A i \in 1..(len - 1) : WithoutCard(k)[i] # k
    BY <2>1, <2>3, <2>6, <2>7
  <2>9. \A i, j \in 1..(len - 1) : WithoutCard(k)[i] = WithoutCard(k)[j] => i = j
    BY <2>3, <2>6, <2>7
  <2>10. ASSUME NEW i \in 1..len, verifiedOrder[i] # k
         PROVE  \E j \in 1..(len - 1) : WithoutCard(k)[j] = verifiedOrder[i]
    <3>1. CASE i < n
      BY <2>3, <2>6, <3>1
    <3>2. CASE i > n
      <4>1. i - 1 \in 1..(len - 1) /\ ~(i - 1 < n) /\ (i - 1) + 1 = i
        BY <2>3, <3>2
      <4>2. WithoutCard(k)[i - 1] = verifiedOrder[i]
        BY <2>6, <4>1
      <4>3. QED
        BY <4>1, <4>2
    <3>3. QED
      BY <2>1, <2>3, <2>10, <3>1, <3>2
  <2>11. QED
    BY <2>6, <2>8, <2>9, <2>10 DEF Positions
<1>3. QED
  BY <1>1, <1>2

\* What a card verified last does to the order.
LEMMA VerifiedLastProperties ==
  ASSUME CardsTypeOK, NEW k \in Cards, verifiedOrder' = VerifiedLast(k)
  PROVE  /\ verifiedOrder' \in Seq(Cards)
         /\ \A i, j \in Positions' : verifiedOrder'[i] = verifiedOrder'[j] => i = j
         /\ \A i \in Positions \cup {0} : \E j \in Positions' :
              verifiedOrder'[j] = IF i = 0 THEN k ELSE verifiedOrder[i]
<1> DEFINE w == WithoutCard(k)
<1>1. /\ w \in Seq(Cards)
      /\ \A i \in 1..Len(w) : w[i] # k
      /\ \A i, j \in 1..Len(w) : w[i] = w[j] => i = j
      /\ \A i \in Positions : verifiedOrder[i] # k => \E j \in 1..Len(w) : w[j] = verifiedOrder[i]
  BY WithoutCardProperties
<1>2. verifiedOrder' = Append(w, k)
  BY DEF VerifiedLast
<1> HIDE DEF w
<1>3. /\ verifiedOrder' \in Seq(Cards) /\ Len(verifiedOrder') = Len(w) + 1 /\ Len(w) \in Nat
      /\ \A i \in 1..Len(w) : verifiedOrder'[i] = w[i]
      /\ verifiedOrder'[Len(w) + 1] = k
  BY <1>1, <1>2, AppendProperties, LenProperties
<1>4. Positions' = 1..(Len(w) + 1)
  BY <1>3 DEF Positions
<1>5. \A i, j \in Positions' : verifiedOrder'[i] = verifiedOrder'[j] => i = j
  BY <1>1, <1>3, <1>4
<1>6. ASSUME NEW i \in Positions \cup {0}
      PROVE  \E j \in Positions' : verifiedOrder'[j] = IF i = 0 THEN k ELSE verifiedOrder[i]
  <2>1. CASE i = 0 \/ verifiedOrder[i] = k
    BY <1>3, <1>4, <2>1
  <2>2. CASE i # 0 /\ verifiedOrder[i] # k
    <3>1. PICK j \in 1..Len(w) : w[j] = verifiedOrder[i]
      BY <1>1, <1>6, <2>2
    <3>2. j \in Positions' /\ verifiedOrder'[j] = verifiedOrder[i]
      BY <1>3, <1>4, <3>1
    <3>3. QED
      BY <2>2, <3>2
  <2>3. QED
    BY <2>1, <2>2
<1>7. QED
  BY <1>3, <1>5, <1>6

\* The latest of the active cards is one of them.
LEMMA LatestIsActive ==
  ASSUME CardsTypeOK, ActiveCards # {}
  PROVE  LatestActive \in ActiveCards
<1> DEFINE len == Len(verifiedOrder)
           T == {n \in 0..len : len - n \in Positions /\ verifiedOrder[len - n] \in ActiveCards}
<1>1. len \in Nat /\ \A k \in ActiveCards : \E i \in 1..len : verifiedOrder[i] = k
  BY LenProperties DEF CardsTypeOK, Positions
<1>2. PICK i \in 1..len : verifiedOrder[i] \in ActiveCards
  BY <1>1
<1>3. len - i \in 0..len /\ len - (len - i) = i
  BY <1>1, <1>2
<1>4. len - i \in T
  BY <1>2, <1>3 DEF Positions
<1>5. T \in SUBSET Nat /\ T # {}
  <2>1. \A n \in T : n \in Nat
    BY <1>1
  <2>2. QED
    BY <1>4, <2>1
<1>6. PICK n \in T : \A m \in T : n <= m
  BY <1>5, LeastNatural
<1>7. len - n \in Positions /\ verifiedOrder[len - n] \in ActiveCards
  BY <1>6
<1>8. ASSUME NEW j \in Positions, j > len - n PROVE verifiedOrder[j] \notin ActiveCards
  <2>1. len - j \in 0..len /\ len - (len - j) = j /\ ~(n <= len - j)
    BY <1>1, <1>5, <1>6, <1>8 DEF Positions
  <2>2. len - j \notin T
    BY <1>6, <2>1
  <2>3. QED
    BY <1>8, <2>1, <2>2
<1>9. \E k \in ActiveCards : \E p \in Positions :
        verifiedOrder[p] = k /\ \A j \in Positions : j > p => verifiedOrder[j] \notin ActiveCards
  BY <1>7, <1>8
<1>10. QED
  BY <1>9, Zenon DEF LatestActive

LEMMA NoRemovalTyped == NoRemoval \in Removals /\ NoRemoval.pc = "idle"
BY DEF NoRemoval, Removals

LEMMA CardsStarts == CardsInit => CardsInv
<1> SUFFICES ASSUME CardsInit PROVE CardsInv
  OBVIOUS
<1>1. ActiveCards = {} /\ Defaults = {} /\ ~financial
  BY DEF CardsInit, ActiveCards, Defaults
<1>2. verifiedOrder \in Seq(Cards) /\ Positions = {}
  BY DEF CardsInit, Positions
<1>3. CardsTypeOK
  <2>1. /\ card \in [Cards -> [active: BOOLEAN, default: BOOLEAN]]
        /\ removal \in [Removers -> Removals]
    BY NoRemovalTyped DEF CardsInit
  <2>2. crashes \in 0..MaxCrashes /\ payout \in Cards \cup {NoCard}
    BY CardsAssumption DEF CardsInit
  <2>3. financial \in BOOLEAN /\ overtaken \in BOOLEAN
    BY Zenon DEF CardsInit
  <2>4. QED
    BY <1>1, <1>2, <2>1, <2>2, <2>3 DEF CardsTypeOK, Removals
<1>4. \A r \in Removers : removal[r].pc = "idle"
  BY NoRemovalTyped DEF CardsInit
<1>5. (\A r \in Removers : RemovalCurrent(r)) /\ Settled /\ FinancialMeansCard
  BY <1>1, <1>4 DEF RemovalCurrent, Settled, FinancialMeansCard
<1>6. QED
  BY <1>3, <1>5 DEF CardsInv

\* A write with no removal of another request under way has overtaken nothing.
LEMMA WriteNoted ==
  ASSUME CardsInv, NEW S \in SUBSET Removers, NoteWrite(S)
  PROVE  /\ overtaken' \in BOOLEAN
         /\ ~overtaken' => ~overtaken /\ \A r \in S : removal[r].pc = "idle"
BY DEF NoteWrite, CardsInv, CardsTypeOK

LEMMA CardsStep == CardsInv /\ [CardsNext]_cardsVars => CardsInv'
<1> SUFFICES ASSUME CardsInv, [CardsNext]_cardsVars PROVE CardsInv'
  OBVIOUS
<1>0. /\ CardsTypeOK /\ FinancialMeansCard
      /\ card \in [Cards -> CardRows] /\ removal \in [Removers -> Removals]
      /\ ActiveCards \subseteq Cards /\ crashes \in Nat
      /\ ~overtaken /\ crashes = 0 =>
           /\ \A r \in Removers : RemovalCurrent(r)
           /\ (\A r \in Removers : removal[r].pc \in {"idle", "deactivate"}) => Settled
  BY CardsAssumption DEF CardsInv, CardsTypeOK, CardRows, Removals, ActiveCards
<1>1. ASSUME NEW k \in Cards, UpsertBankAccount(k) PROVE CardsInv'
  <2>1. /\ card' = Added(k) /\ verifiedOrder' = VerifiedLast(k)
        /\ payout' = k /\ financial' = TRUE /\ NoteWrite(Removers)
        /\ UNCHANGED <<removal, crashes>>
    BY <1>1 DEF UpsertBankAccount
  <2>2. /\ card' \in [Cards -> CardRows]
        /\ \A o \in Cards : card'[o].active = (o = k \/ card[o].active)
        /\ \A o \in Cards : card'[o].default = (o = k)
    BY <1>0, <2>1 DEF Added, CardRows
  <2>3. k \in ActiveCards' /\ ActiveCards' = ActiveCards \cup {k} /\ Defaults' = {k}
    BY <2>2 DEF ActiveCards, Defaults
  <2>4. /\ overtaken' \in BOOLEAN
        /\ ~overtaken' => \A r \in Removers : removal[r].pc = "idle"
    BY <2>1, WriteNoted
  <2>5. /\ verifiedOrder' \in Seq(Cards)
        /\ \A i, j \in Positions' : verifiedOrder'[i] = verifiedOrder'[j] => i = j
        /\ \A i \in Positions \cup {0} : \E j \in Positions' :
             verifiedOrder'[j] = IF i = 0 THEN k ELSE verifiedOrder[i]
    BY <1>0, <2>1, VerifiedLastProperties
  <2>6. ASSUME NEW o \in ActiveCards' PROVE \E j \in Positions' : verifiedOrder'[j] = o
    <3>1. CASE o = k
      BY <2>5, <3>1
    <3>2. CASE o # k
      <4>1. PICK i \in Positions : verifiedOrder[i] = o
        BY <1>0, <2>3, <2>6, <3>2 DEF CardsTypeOK
      <4>2. i # 0
        BY <1>0, <4>1, LenProperties DEF CardsTypeOK, Positions
      <4>3. QED
        BY <2>5, <4>1, <4>2
    <3>3. QED
      BY <3>1, <3>2
  <2>7. CardsTypeOK'
    BY <1>0, <2>1, <2>2, <2>4, <2>5, <2>6 DEF CardsTypeOK, CardRows
  <2>8. FinancialMeansCard' /\ Settled'
    BY <2>1, <2>3 DEF FinancialMeansCard, Settled
  <2>9. ASSUME ~overtaken', NEW r \in Removers PROVE RemovalCurrent(r)'
    <3>1. removal'[r].pc = "idle"
      BY <2>1, <2>4, <2>9
    <3>2. QED
      BY <3>1 DEF RemovalCurrent
  <2>10. QED
    BY <2>7, <2>8, <2>9 DEF CardsInv
\* A step of a removal that leaves the order of verification alone.
<1>2. ASSUME NEW r \in Removers, NEW x \in Removals, removal' = [removal EXCEPT ![r] = x],
             card' \in [Cards -> CardRows], ActiveCards' \subseteq ActiveCards,
             UNCHANGED <<verifiedOrder, payout>>, financial' \in BOOLEAN,
             crashes' \in 0..MaxCrashes, overtaken' \in BOOLEAN
      PROVE  /\ CardsTypeOK'
             /\ \A o \in Removers : removal'[o] = IF o = r THEN x ELSE removal[o]
  BY <1>0, <1>2 DEF CardsTypeOK, CardRows, Removals, Positions
<1>3. ASSUME NEW r \in Removers, NEW k \in Cards, FindAccount(r, k) PROVE CardsInv'
  <2> DEFINE x == [pc |-> "deactivate", card |-> k, wasDefault |-> card[k].default,
                   next |-> NoCard]
  <2>1. /\ removal[r].pc = "idle" /\ k \in ActiveCards /\ removal' = [removal EXCEPT ![r] = x]
        /\ UNCHANGED <<card, verifiedOrder, financial, payout, crashes, overtaken>>
    BY <1>3 DEF FindAccount
  <2>2. /\ x \in Removals /\ x.pc = "deactivate" /\ x.card = k
        /\ x.wasDefault = card[k].default
    BY <1>0 DEF Removals, CardRows
  <2> HIDE DEF x
  <2>3. ActiveCards' = ActiveCards /\ Defaults' = Defaults
    BY <2>1 DEF ActiveCards, Defaults
  <2>4. CardsTypeOK' /\ \A o \in Removers : removal'[o] = IF o = r THEN x ELSE removal[o]
    BY <1>0, <1>2, <2>1, <2>2, <2>3 DEF CardsTypeOK
  <2>5. FinancialMeansCard'
    BY <1>0, <2>1, <2>3, <2>4 DEF FinancialMeansCard
  <2>6. ASSUME ~overtaken', crashes' = 0
        PROVE  /\ \A o \in Removers : RemovalCurrent(o)'
               /\ (\A o \in Removers : removal'[o].pc \in {"idle", "deactivate"}) => Settled'
    <3>1. /\ \A o \in Removers : RemovalCurrent(o)
          /\ (\A o \in Removers : removal[o].pc \in {"idle", "deactivate"}) => Settled
      BY <1>0, <2>1, <2>6
    <3>2. RemovalCurrent(r)'
      BY <2>1, <2>2, <2>3, <2>4 DEF RemovalCurrent
    <3>3. ASSUME NEW o \in Removers \ {r} PROVE RemovalCurrent(o)'
      BY <2>1, <2>2, <2>3, <2>4, <3>1 DEF RemovalCurrent
    <3>4. (\A o \in Removers : removal'[o].pc \in {"idle", "deactivate"}) => Settled'
      BY <2>1, <2>3, <2>4, <3>1 DEF Settled
    <3>5. QED
      BY <3>2, <3>3, <3>4
  <2>7. QED
    BY <2>4, <2>5, <2>6 DEF CardsInv
<1>4. ASSUME NEW r \in Removers, Deactivate(r) PROVE CardsInv'
  <2> DEFINE x == [removal[r] EXCEPT !.pc = "list"]
             k == removal[r].card
  <2>1. /\ removal[r].pc = "deactivate"
        /\ card' = [card EXCEPT ![k] = [active |-> FALSE, default |-> FALSE]]
        /\ removal' = [removal EXCEPT ![r] = x]
        /\ NoteWrite(Removers \ {r}) /\ UNCHANGED <<verifiedOrder, financial, payout, crashes>>
    BY <1>4 DEF Deactivate
  <2>2. x \in Removals /\ x.pc = "list" /\ x.wasDefault = removal[r].wasDefault
    BY <1>0 DEF Removals
  <2> HIDE DEF x, k
  <2>3. /\ card' \in [Cards -> CardRows]
        /\ \A o \in Cards : card'[o] = IF o = k THEN [active |-> FALSE, default |-> FALSE]
                                       ELSE card[o]
    BY <1>0, <2>1 DEF CardRows
  <2>4. ActiveCards' = ActiveCards \ {k} /\ Defaults' = Defaults \ {k}
    BY <2>3 DEF ActiveCards, Defaults
  <2>5. /\ overtaken' \in BOOLEAN
        /\ ~overtaken' => ~overtaken /\ \A o \in Removers \ {r} : removal[o].pc = "idle"
    BY <2>1, WriteNoted
  <2>6. CardsTypeOK' /\ \A o \in Removers : removal'[o] = IF o = r THEN x ELSE removal[o]
    BY <1>0, <1>2, <2>1, <2>2, <2>3, <2>4, <2>5, ZenonT(40) DEF CardsTypeOK
  <2>7. FinancialMeansCard'
    BY <2>2, <2>6 DEF FinancialMeansCard
  <2>8. ASSUME ~overtaken', crashes' = 0
        PROVE  /\ \A o \in Removers : RemovalCurrent(o)'
               /\ ~\A o \in Removers : removal'[o].pc \in {"idle", "deactivate"}
    <3>1. /\ RemovalCurrent(r) /\ Settled
          /\ \A o \in Removers \ {r} : removal'[o].pc = "idle"
      BY <1>0, <2>1, <2>5, <2>6, <2>8
    <3>2. k \in ActiveCards /\ removal[r].wasDefault = card[k].default
      BY <2>1, <3>1 DEF RemovalCurrent, k
    <3>3. PICK d \in ActiveCards : Defaults = {d} /\ financial
      BY <3>1, <3>2 DEF Settled
    <3>4. IF x.wasDefault THEN Defaults' = {} ELSE \E o \in ActiveCards' : Defaults' = {o}
      <4>1. x.wasDefault <=> k \in Defaults
        <5>1. k \in Cards /\ x.wasDefault = card[k].default
          BY <1>0, <2>2, <3>2
        <5>2. QED
          BY <5>1, Zenon DEF Defaults
      <4>2. CASE k = d
        BY <2>4, <3>3, <4>1, <4>2
      <4>3. CASE k # d
        BY <2>4, <3>3, <4>1, <4>3
      <4>4. QED
        BY <4>2, <4>3
    <3>5. RemovalCurrent(r)'
      BY <2>1, <2>2, <2>6, <3>1, <3>3, <3>4 DEF RemovalCurrent
    <3>6. ASSUME NEW o \in Removers \ {r} PROVE RemovalCurrent(o)'
      BY <3>1 DEF RemovalCurrent
    <3>7. QED
      BY <2>2, <2>6, <3>5, <3>6
  <2>9. QED
    BY <2>6, <2>7, <2>8 DEF CardsInv
<1>5. ASSUME NEW r \in Removers, ListRemaining(r) PROVE CardsInv'
  <2> DEFINE x == removal'[r]
  <2>1. removal[r].pc = "list" /\ UNCHANGED <<card, verifiedOrder, financial, payout, crashes, overtaken>>
    BY <1>5 DEF ListRemaining
  <2>2. ActiveCards' = ActiveCards /\ Defaults' = Defaults
    BY <2>1 DEF ActiveCards, Defaults
  <2>3. /\ x \in Removals /\ removal' = [removal EXCEPT ![r] = x]
        /\ IF ActiveCards = {} THEN x.pc = "unverify"
           ELSE IF removal[r].wasDefault THEN x.pc = "promote" /\ x.next \in ActiveCards
           ELSE x.pc = "idle"
    <3>1. CASE ActiveCards = {}
      <4>1. removal' = [removal EXCEPT ![r] = [removal[r] EXCEPT !.pc = "unverify"]]
        BY <1>5, <3>1 DEF ListRemaining, AfterList
      <4>2. QED
        BY <1>0, <3>1, <4>1 DEF Removals
    <3>2. CASE ActiveCards # {} /\ removal[r].wasDefault
      <4>1. removal' = [removal EXCEPT ![r] =
                          [removal[r] EXCEPT !.pc = "promote", !.next = LatestActive]]
        BY <1>5, <3>2 DEF ListRemaining, AfterList
      <4>2. LatestActive \in ActiveCards
        BY <1>0, <3>2, LatestIsActive
      <4>3. QED
        BY <1>0, <3>2, <4>1, <4>2 DEF Removals
    <3>3. CASE ActiveCards # {} /\ ~removal[r].wasDefault
      <4>1. removal' = [removal EXCEPT ![r] = NoRemoval]
        BY <1>5, <3>3 DEF ListRemaining, AfterList
      <4>2. QED
        BY <1>0, <3>3, <4>1, NoRemovalTyped
    <3>4. QED
      BY <3>1, <3>2, <3>3
  <2> HIDE DEF x
  <2>4. CardsTypeOK' /\ \A o \in Removers : removal'[o] = IF o = r THEN x ELSE removal[o]
    BY <1>0, <1>2, <2>1, <2>2, <2>3 DEF CardsTypeOK
  <2>5. FinancialMeansCard'
    BY <1>0, <2>1, <2>2, <2>3, <2>4 DEF FinancialMeansCard
  <2>6. ASSUME ~overtaken', crashes' = 0
        PROVE  /\ \A o \in Removers : RemovalCurrent(o)'
               /\ (\A o \in Removers : removal'[o].pc \in {"idle", "deactivate"}) => Settled'
    <3>1. \A o \in Removers : RemovalCurrent(o)
      BY <1>0, <2>1, <2>6
    <3>2. /\ financial
          /\ IF removal[r].wasDefault THEN Defaults = {} ELSE \E k \in ActiveCards : Defaults = {k}
          /\ \A o \in Removers \ {r} : removal[o].pc \in {"idle", "deactivate"}
      BY <2>1, <3>1 DEF RemovalCurrent
    <3>3. RemovalCurrent(r)'
      BY <2>1, <2>2, <2>3, <2>4, <3>2 DEF RemovalCurrent
    <3>4. ASSUME NEW o \in Removers \ {r} PROVE RemovalCurrent(o)'
      BY <2>1, <2>2, <2>4, <3>1, <3>2 DEF RemovalCurrent
    <3>5. ASSUME x.pc \in {"idle", "deactivate"} PROVE Settled'
      BY <2>1, <2>2, <2>3, <3>2, <3>5 DEF Settled
    <3>6. QED
      BY <2>4, <3>3, <3>4, <3>5
  <2>7. QED
    BY <2>4, <2>5, <2>6 DEF CardsInv
<1>6. ASSUME NEW r \in Removers, SetFinancialVerified(r) PROVE CardsInv'
  <2>1. /\ removal[r].pc = "unverify" /\ financial' = FALSE
        /\ removal' = [removal EXCEPT ![r] = NoRemoval]
        /\ NoteWrite(Removers \ {r}) /\ UNCHANGED <<card, verifiedOrder, payout, crashes>>
    BY <1>6 DEF SetFinancialVerified
  <2>2. ActiveCards' = ActiveCards /\ Defaults' = Defaults
    BY <2>1 DEF ActiveCards, Defaults
  <2>3. /\ overtaken' \in BOOLEAN
        /\ ~overtaken' => ~overtaken /\ \A o \in Removers \ {r} : removal[o].pc = "idle"
    BY <2>1, WriteNoted
  <2>4. CardsTypeOK' /\ \A o \in Removers : removal'[o] = IF o = r THEN NoRemoval ELSE removal[o]
    BY <1>0, <1>2, <2>1, <2>2, <2>3, NoRemovalTyped DEF CardsTypeOK
  <2>5. FinancialMeansCard'
    BY <2>1 DEF FinancialMeansCard
  <2>6. ASSUME ~overtaken', crashes' = 0
        PROVE  (\A o \in Removers : RemovalCurrent(o)') /\ Settled'
    <3>1. RemovalCurrent(r)
      BY <1>0, <2>1, <2>3, <2>6
    <3>2. \A o \in Removers : removal'[o].pc = "idle"
      BY <2>3, <2>4, <2>6, NoRemovalTyped
    <3>3. QED
      BY <2>1, <2>2, <3>1, <3>2 DEF RemovalCurrent, Settled
  <2>7. QED
    BY <2>4, <2>5, <2>6 DEF CardsInv
<1>7. ASSUME NEW r \in Removers, PromoteNext(r) PROVE CardsInv'
  <2> DEFINE n == removal[r].next
  <2>1. /\ removal[r].pc = "promote" /\ card' = [card EXCEPT ![n].default = TRUE]
        /\ removal' = [removal EXCEPT ![r] = NoRemoval]
        /\ NoteWrite(Removers \ {r}) /\ UNCHANGED <<verifiedOrder, financial, payout, crashes>>
    BY <1>7 DEF PromoteNext
  <2> HIDE DEF n
  <2>2. /\ card' \in [Cards -> CardRows]
        /\ \A o \in Cards : card'[o].active = card[o].active
        /\ \A o \in Cards : card'[o].default = IF o = n THEN TRUE ELSE card[o].default
    BY <1>0, <2>1 DEF CardRows
  <2>3. ActiveCards' = ActiveCards /\ (n \in Cards => Defaults' = Defaults \cup {n})
    BY <2>2 DEF ActiveCards, Defaults
  <2>4. /\ overtaken' \in BOOLEAN
        /\ ~overtaken' => ~overtaken /\ \A o \in Removers \ {r} : removal[o].pc = "idle"
    BY <2>1, WriteNoted
  <2>5. CardsTypeOK' /\ \A o \in Removers : removal'[o] = IF o = r THEN NoRemoval ELSE removal[o]
    BY <1>0, <1>2, <2>1, <2>2, <2>3, <2>4, NoRemovalTyped, ZenonT(40) DEF CardsTypeOK
  <2>6. FinancialMeansCard'
    BY <1>0, <2>1, <2>3, <2>5 DEF FinancialMeansCard
  <2>7. ASSUME ~overtaken', crashes' = 0
        PROVE  (\A o \in Removers : RemovalCurrent(o)') /\ Settled'
    <3>1. n \in ActiveCards /\ Defaults = {} /\ financial
      BY <1>0, <2>1, <2>4, <2>7 DEF RemovalCurrent, n
    <3>2. \A o \in Removers : removal'[o].pc = "idle"
      BY <2>4, <2>5, <2>7, NoRemovalTyped
    <3>3. n \in ActiveCards' /\ Defaults' = {n} /\ financial'
      BY <1>0, <2>1, <2>3, <3>1
    <3>4. QED
      BY <3>2, <3>3 DEF RemovalCurrent, Settled
  <2>8. QED
    BY <2>5, <2>6, <2>7 DEF CardsInv
<1>8. ASSUME NEW r \in Removers, CrashRemoval(r) PROVE CardsInv'
  <2>1. /\ removal' = [removal EXCEPT ![r] = NoRemoval]
        /\ UNCHANGED <<card, verifiedOrder, financial, payout, overtaken>>
        /\ crashes < MaxCrashes /\ crashes' = crashes + 1
    BY <1>8 DEF CrashRemoval
  <2>2. crashes' \in 0..MaxCrashes /\ crashes' > 0 /\ ActiveCards' = ActiveCards
    BY <1>0, <2>1, CardsAssumption DEF ActiveCards
  <2>3. CardsTypeOK'
    BY <1>0, <1>2, <2>1, <2>2, NoRemovalTyped DEF CardsTypeOK
  <2>4. FinancialMeansCard'
    BY <2>2 DEF FinancialMeansCard
  <2>5. QED
    BY <2>2, <2>3, <2>4 DEF CardsInv
<1>9. CASE UNCHANGED cardsVars
  <2>1. UNCHANGED <<ActiveCards, Defaults, Positions>>
    BY <1>9 DEF cardsVars, ActiveCards, Defaults, Positions
  <2>2. QED
    BY <1>0, <1>9, <2>1 DEF cardsVars, CardsInv, CardsTypeOK, FinancialMeansCard, Settled,
       RemovalCurrent
<1>10. QED
  BY <1>1, <1>3, <1>4, <1>5, <1>6, <1>7, <1>8, <1>9 DEF CardsNext, RemovalStep

LEMMA CardsInvariant == CardsSpec => []CardsInv
BY CardsStarts, CardsStep, PTL DEF CardsSpec

\* CardsTypeOK: the rows, the order of verification and the removals stay in their
\* ranges, a card is in the order once, and an active card is in it.
THEOREM CardsTypeCorrect == CardsSpec => []CardsTypeOK
<1>1. CardsInv => CardsTypeOK
  BY DEF CardsInv
<1>2. QED
  BY <1>1, CardsInvariant, PTL

\* CardsConsistent: however many cards are added and removals overlap, the flag that
\* the gates read means an active card unless a removal crashed, and cards that no
\* write met in a removal have one active default.
THEOREM CardsStayConsistent == CardsSpec => []CardsConsistent
<1>1. CardsInv => CardsConsistent
  BY DEF CardsInv, CardsConsistent, SettledCards, Settled
<1>2. QED
  BY <1>1, CardsInvariant, PTL

(***************************************************************************)
(* Payments and payouts                                                    *)
(***************************************************************************)

\* What the account still has of what a request was let through for, unless it lost
\* something since.
PayerCurrent(p) ==
  moneyCall[p].pc # "idle" /\ p \notin weakened =>
    /\ level >= IDENTITY_VERIFIED /\ financial
    /\ moneyCall[p].pc \in {"profile", "finance"} =>
         WithinLimit(moneyCall[p].action, moneyCall[p].amount)

GatesInv ==
  /\ KycInv /\ CardsInv /\ GatesTypeOK
  /\ \A p \in Payers : PayerCurrent(p)

MoneyCalls == [pc: {"idle", "amount", "limits", "profile", "finance"}, action: MoneyActions,
               amount: Amounts \cup {0}]

USE DEF Levels, MOBILE_VERIFIED, IDENTITY_VERIFIED, DOCUMENT_VERIFIED, FACE_VERIFIED,
        FULLY_VERIFIED

LEMMA LimitsTyped ==
  /\ \A a \in MoneyActions :
       /\ LimitOf[a].identity \in Nat /\ LimitOf[a].document \in Nat /\ LimitOf[a].full \in Nat
       /\ LimitOf[a].identity <= LimitOf[a].document
       /\ LimitOf[a].document <= LimitOf[a].full
  /\ \A amount \in Amounts \cup {0} : amount \in Nat
<1>1. \A a \in MoneyActions :
        LimitOf[a].identity \in Nat /\ LimitOf[a].document \in Nat /\ LimitOf[a].full \in Nat
  BY GatesAssumption DEF Grades
<1>2. \A a \in MoneyActions :
        /\ LimitOf[a].identity <= LimitOf[a].document
        /\ LimitOf[a].document <= LimitOf[a].full
  BY GatesAssumption, Zenon
<1>3. \A amount \in Amounts \cup {0} : amount \in Nat
  BY GatesAssumption
<1>4. QED
  BY <1>1, <1>2, <1>3, Zenon

LEMMA NoMoneyCallTyped == NoMoneyCall \in MoneyCalls /\ NoMoneyCall.pc = "idle"
BY DEF NoMoneyCall, MoneyCalls, MoneyActions

LEMMA GatesStarts == GatesInit => GatesInv
<1> SUFFICES ASSUME GatesInit PROVE GatesInv
  OBVIOUS
<1>1. KycInv /\ CardsInv
  BY KycStarts, CardsStarts DEF GatesInit
<1>2. GatesTypeOK /\ \A p \in Payers : moneyCall[p].pc = "idle"
  BY NoMoneyCallTyped DEF GatesInit, GatesTypeOK, MoneyCalls
<1>3. QED
  BY <1>1, <1>2 DEF GatesInv, PayerCurrent

\* An account that loses nothing keeps what a limit allowed it.
LEMMA LimitOnlyRises ==
  ASSUME KycInv, KycInv', NEW action \in MoneyActions, NEW amount \in Amounts \cup {0},
         WithinLimit(action, amount), level' >= level, iranian' = iranian,
         ApprovedTypes \subseteq ApprovedTypes'
  PROVE  WithinLimit(action, amount)'
<1> DEFINE limit == LimitOf[action]
<1>1. /\ limit.identity \in Nat /\ limit.document \in Nat /\ limit.full \in Nat
      /\ limit.identity <= limit.document /\ limit.document <= limit.full /\ amount \in Nat
  BY LimitsTyped
<1>2. level \in Nat /\ level' \in Nat
  BY DEF KycInv, KycTypeOK
<1>3. DocumentTrust => DocumentTrust'
  BY <1>2 DEF DocumentTrust, ApprovedNationalId
<1>4. /\ DocumentTrust \/ amount <= limit.identity
      /\ amount <= IF level >= FACE_VERIFIED THEN limit.full
                   ELSE IF DocumentTrust THEN limit.document ELSE limit.identity
  BY DEF WithinLimit
<1> HIDE DEF limit
<1>5. /\ DocumentTrust' \/ amount <= limit.identity
      /\ amount <= IF level' >= FACE_VERIFIED THEN limit.full
                   ELSE IF DocumentTrust' THEN limit.document ELSE limit.identity
  BY <1>1, <1>2, <1>3, <1>4
<1>6. QED
  BY <1>5 DEF WithinLimit, limit

\* A step of one request, on an account that stays as it is.
LEMMA OnePayer ==
  ASSUME GatesInv, NEW p \in Payers, NEW x \in MoneyCalls,
         moneyCall' = [moneyCall EXCEPT ![p] = x], UNCHANGED <<kycVars, cardsVars>>,
         weakened' \in {weakened, weakened \ {p}},
         x.pc # "idle" /\ p \notin weakened' =>
           /\ level >= IDENTITY_VERIFIED /\ financial
           /\ x.pc \in {"profile", "finance"} => WithinLimit(x.action, x.amount)
  PROVE  GatesInv'
<1>1. KycInv' /\ CardsInv'
  BY KycStep, CardsStep DEF GatesInv
<1>2. /\ moneyCall \in [Payers -> MoneyCalls] /\ weakened \subseteq Payers
      /\ \A q \in Payers : PayerCurrent(q)
  BY DEF GatesInv, GatesTypeOK, MoneyCalls
<1>3. GatesTypeOK'
  BY <1>2 DEF GatesTypeOK, MoneyCalls
<1>4. UNCHANGED <<level, financial, iranian, docs>>
  BY DEF kycVars, cardsVars
<1>5. \A action, amount : WithinLimit(action, amount)' = WithinLimit(action, amount)
  BY <1>4 DEF WithinLimit, DocumentTrust, ApprovedNationalId, ApprovedTypes
<1>6. ASSUME NEW q \in Payers PROVE PayerCurrent(q)'
  <2>1. CASE q = p
    BY <1>2, <1>4, <1>5, <2>1 DEF PayerCurrent
  <2>2. CASE q # p
    <3>1. moneyCall'[q] = moneyCall[q] /\ (q \in weakened' <=> q \in weakened)
      BY <1>2, <2>2
    <3>2. QED
      BY <1>2, <1>4, <1>5, <3>1 DEF PayerCurrent
  <2>3. QED
    BY <2>1, <2>2
<1>7. QED
  BY <1>1, <1>3, <1>6 DEF GatesInv

LEMMA GatesStep == GatesInv /\ [GatesNext]_gatesVars => GatesInv'
<1> SUFFICES ASSUME GatesInv, [GatesNext]_gatesVars PROVE GatesInv'
  OBVIOUS
<1>0. /\ KycInv /\ CardsInv /\ GatesTypeOK
      /\ moneyCall \in [Payers -> MoneyCalls] /\ weakened \subseteq Payers
      /\ \A p \in Payers : PayerCurrent(p)
  BY DEF GatesInv, GatesTypeOK, MoneyCalls
<1>1. ASSUME NEW p \in Payers, NEW action \in MoneyActions, NEW amount \in Amounts,
             CheckRequirement(p, action, amount)
      PROVE  GatesInv'
  <2> DEFINE x == IF action = "REQUEST_PAYOUT"
                  THEN [pc |-> "limits", action |-> action, amount |-> amount]
                  ELSE [pc |-> "amount", action |-> action, amount |-> 0]
  <2>1. /\ moneyCall' = [moneyCall EXCEPT ![p] = x] /\ weakened' = weakened \ {p}
        /\ UNCHANGED <<kycVars, cardsVars>> /\ Required
    BY <1>1 DEF CheckRequirement
  <2>2. x \in MoneyCalls /\ x.pc \in {"limits", "amount"}
    BY DEF MoneyCalls
  <2> HIDE DEF x
  <2>3. QED
    BY <2>1, <2>2, OnePayer DEF Required
<1>2. ASSUME NEW p \in Payers, NEW x \in MoneyCalls, moneyCall' = [moneyCall EXCEPT ![p] = x],
             SameAccount,
             x.pc # "idle" => moneyCall[p].pc # "idle",
             x.pc \in {"profile", "finance"} /\ p \notin weakened => WithinLimit(x.action, x.amount)
      PROVE  GatesInv'
  BY <1>0, <1>2, OnePayer DEF SameAccount, PayerCurrent
<1>3. ASSUME NEW p \in Payers, PayerStops(p), SameAccount PROVE GatesInv'
  BY <1>2, <1>3, NoMoneyCallTyped DEF PayerStops
<1>4. ASSUME NEW p \in Payers, NEW amount \in Amounts, ReadAgreedPrice(p, amount)
      PROVE  GatesInv'
  <2> DEFINE x == [moneyCall[p] EXCEPT !.pc = "limits", !.amount = amount]
  <2>1. x \in MoneyCalls /\ x.pc = "limits"
    BY <1>0 DEF MoneyCalls
  <2>2. /\ PayerStops(p) \/ moneyCall' = [moneyCall EXCEPT ![p] = x]
        /\ moneyCall[p].pc = "amount" /\ SameAccount
    BY <1>0, <1>4 DEF ReadAgreedPrice
  <2> HIDE DEF x
  <2>3. QED
    BY <1>2, <1>3, <2>1, <2>2
<1>5. ASSUME NEW p \in Payers, CheckLimits(p) \/ ReadPayoutProfile(p) PROVE GatesInv'
  <2>1. moneyCall[p].pc \in {"limits", "profile"} /\ SameAccount
    BY <1>5 DEF CheckLimits, ReadPayoutProfile
  <2>2. CASE PayerStops(p)
    BY <1>3, <2>1, <2>2
  <2>3. ASSUME NEW pc \in {"profile", "finance"}, PayerGoes(p, pc),
               p \notin weakened => WithinLimit(moneyCall[p].action, moneyCall[p].amount)
        PROVE  GatesInv'
    <3> DEFINE x == [moneyCall[p] EXCEPT !.pc = pc]
    <3>1. /\ x \in MoneyCalls /\ x.pc = pc
          /\ x.action = moneyCall[p].action /\ x.amount = moneyCall[p].amount
      BY <1>0 DEF MoneyCalls
    <3>2. moneyCall' = [moneyCall EXCEPT ![p] = x]
      BY <2>3 DEF PayerGoes
    <3> HIDE DEF x
    <3>3. QED
      BY <1>2, <2>1, <2>3, <3>1, <3>2
  <2>4. CASE CheckLimits(p)
    BY <2>2, <2>3, <2>4 DEF CheckLimits
  <2>5. CASE ReadPayoutProfile(p)
    <3>1. p \notin weakened => WithinLimit(moneyCall[p].action, moneyCall[p].amount)
      BY <1>0, <2>5 DEF ReadPayoutProfile, PayerCurrent
    <3>2. QED
      BY <2>2, <2>3, <2>5, <3>1 DEF ReadPayoutProfile
  <2>6. QED
    BY <1>5, <2>4, <2>5
<1>6. ASSUME NEW p \in Payers, CallFinance(p) PROVE GatesInv'
  BY <1>3, <1>6 DEF CallFinance
<1>7. ASSUME AccountMoves PROVE GatesInv'
  <2>1. KycInv' /\ CardsInv' /\ iranian' = iranian /\ UNCHANGED moneyCall
    <3>1. CASE KycNext /\ UNCHANGED cardsVars
      <4>1. KycInv' /\ CardsInv'
        BY <1>0, <3>1, KycStep, CardsStep
      <4>2. iranian' = iranian
        BY <3>1 DEF KycNext, FindIdentityByNationalIdHash, FindIdentityByUserId, AskRegistries,
           UpsertIdentity, OtherAccountVerifies, FindOpenDocument, ReviewDocument,
           WriteDocument, ReadDocuments, ReadUser, RaiseLevel
      <4>3. QED
        BY <1>7, <4>1, <4>2 DEF AccountMoves
    <3>2. CASE CardsNext /\ UNCHANGED kycVars
      <4>1. KycInv' /\ CardsInv'
        BY <1>0, <3>2, KycStep, CardsStep
      <4>2. QED
        BY <1>7, <3>2, <4>1 DEF AccountMoves, kycVars
    <3>3. QED
      BY <1>7, <3>1, <3>2 DEF AccountMoves
  <2>2. weakened' = IF Lost THEN {p \in Payers : moneyCall[p].pc # "idle"} \cup weakened
                    ELSE weakened
    BY <1>7 DEF AccountMoves
  <2>3. GatesTypeOK'
    BY <1>0, <2>1, <2>2 DEF GatesTypeOK
  <2>4. ASSUME NEW p \in Payers PROVE PayerCurrent(p)'
    <3> SUFFICES ASSUME moneyCall[p].pc # "idle", p \notin weakened'
                 PROVE  /\ level' >= IDENTITY_VERIFIED /\ financial'
                        /\ moneyCall[p].pc \in {"profile", "finance"} =>
                             WithinLimit(moneyCall[p].action, moneyCall[p].amount)'
      BY <2>1 DEF PayerCurrent
    <3>1. ~Lost /\ p \notin weakened
      BY <2>2
    <3>2. level \in Nat /\ level' \in Nat
      BY <1>0, <2>1 DEF KycInv, KycTypeOK
    <3>3. level' >= level /\ ApprovedTypes \subseteq ApprovedTypes' /\ (financial => financial')
      BY <3>1, <3>2 DEF Lost
    <3>4. /\ level >= IDENTITY_VERIFIED /\ financial
          /\ moneyCall[p].pc \in {"profile", "finance"} =>
               WithinLimit(moneyCall[p].action, moneyCall[p].amount)
      BY <1>0, <3>1 DEF PayerCurrent
    <3>5. moneyCall[p].action \in MoneyActions /\ moneyCall[p].amount \in Amounts \cup {0}
      BY <1>0 DEF MoneyCalls
    <3>6. QED
      BY <1>0, <2>1, <3>2, <3>3, <3>4, <3>5, LimitOnlyRises
  <2>5. QED
    BY <2>1, <2>3, <2>4 DEF GatesInv
<1>8. CASE UNCHANGED gatesVars
  <2>1. KycInv' /\ CardsInv'
    BY <1>0, <1>8, KycStep, CardsStep DEF gatesVars
  <2>2. UNCHANGED <<moneyCall, weakened, level, financial, iranian, docs>>
    BY <1>8 DEF gatesVars, kycVars, cardsVars
  <2>3. QED
    BY <1>0, <2>1, <2>2 DEF GatesInv, GatesTypeOK, PayerCurrent, WithinLimit, DocumentTrust,
       ApprovedNationalId, ApprovedTypes
<1>9. QED
  BY <1>1, <1>4, <1>5, <1>6, <1>7, <1>8 DEF GatesNext

\* At the call of finance the account has all that the amount takes.
LEMMA MoneyMovesWithinLimits ==
  ASSUME GatesInv, NEW p \in Payers, Reaches(p), p \notin weakened
  PROVE  LET limit == LimitOf[moneyCall[p].action]
             amount == moneyCall[p].amount
         IN  /\ identity # NoId /\ financial
             /\ FinancialMeansCard
             /\ amount > limit.identity
                  => level >= DOCUMENT_VERIFIED /\ (iranian => ReviewApproved("national_id"))
             /\ amount > limit.document => level >= FACE_VERIFIED
             /\ amount <= limit.full
<1> DEFINE limit == LimitOf[moneyCall[p].action]
           amount == moneyCall[p].amount
<1>1. moneyCall[p] \in MoneyCalls /\ PayerCurrent(p) /\ level \in Nat
  BY DEF GatesInv, GatesTypeOK, MoneyCalls, KycInv, KycTypeOK
<1>2. /\ limit.identity \in Nat /\ limit.document \in Nat /\ limit.full \in Nat
      /\ limit.identity <= limit.document /\ limit.document <= limit.full /\ amount \in Nat
  BY <1>1, LimitsTyped DEF MoneyCalls
<1>3. /\ level >= IDENTITY_VERIFIED /\ financial
      /\ WithinLimit(moneyCall[p].action, moneyCall[p].amount)
  BY <1>1 DEF PayerCurrent, Reaches
<1>4. identity # NoId /\ FinancialMeansCard
  BY <1>3 DEF GatesInv, KycInv, Supports, CardsInv
<1>5. /\ DocumentTrust \/ amount <= limit.identity
      /\ amount <= IF level >= FACE_VERIFIED THEN limit.full
                   ELSE IF DocumentTrust THEN limit.document ELSE limit.identity
  BY <1>3 DEF WithinLimit
<1>6. DocumentTrust => level >= DOCUMENT_VERIFIED /\ (iranian => ReviewApproved("national_id"))
  BY DEF DocumentTrust, ApprovedNationalId, ApprovedTypes, ReviewApproved
<1> HIDE DEF limit, amount
<1>7. /\ amount > limit.identity => DocumentTrust
      /\ amount > limit.document => level >= FACE_VERIFIED
      /\ amount <= limit.full
  BY <1>1, <1>2, <1>5
<1>8. QED
  BY <1>3, <1>4, <1>6, <1>7 DEF limit, amount

LEMMA GatesInvariant == GatesSpec => []GatesInv
BY GatesStarts, GatesStep, PTL DEF GatesSpec

\* GatesTypeOK: a request is where the code can stand, with an action and an amount.
THEOREM GatesTypeCorrect == GatesSpec => []GatesTypeOK
<1>1. GatesInv => GatesTypeOK
  BY DEF GatesInv
<1>2. QED
  BY <1>1, GatesInvariant, PTL

\* MoneyWithinLimits: for any limits that rise from grade to grade and any number of
\* requests, removals of cards and reviews at the same time, a payment or payout that
\* reaches finance is within what the account is entitled to then, unless the account
\* lost something since the request was let through.
THEOREM MoneyStaysWithinLimits == GatesSpec => MoneyWithinLimits
<1>1. GatesInv /\ [GatesNext]_gatesVars =>
        [\A p \in Payers : Reaches(p) /\ p \notin weakened =>
           LET limit == LimitOf[moneyCall[p].action]
               amount == moneyCall[p].amount
           IN  /\ identity # NoId /\ financial
               /\ FinancialMeansCard
               /\ amount > limit.identity
                    => level >= DOCUMENT_VERIFIED /\ (iranian => ReviewApproved("national_id"))
               /\ amount > limit.document => level >= FACE_VERIFIED
               /\ amount <= limit.full]_gatesVars
  BY MoneyMovesWithinLimits
<1>2. QED
  BY <1>1, GatesInvariant, PTL DEF GatesSpec, MoneyWithinLimits
=============================================================================
