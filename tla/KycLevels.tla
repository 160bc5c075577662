----------------------------- MODULE KycLevels -----------------------------
(***************************************************************************)
(* How one account climbs the KYC levels: it verifies its national id      *)
(* against the registries, uploads documents, and an administrator reviews *)
(* them.  A review of a document that is approved raises the level in      *)
(* three more awaits.  Other accounts appear as the national ids they hold.*)
(***************************************************************************)
EXTENDS Naturals, FiniteSets

CONSTANTS
  Callers,        \* requests of the account and of administrators
  NationalIds,
  DocumentIds,    \* ids for the rows of kyc_documents
  TypeOf          \* TypeOf[i]: the type of the document that gets id i

Types == {"national_id", "passport", "selfie", "address_proof"}

NoId == "none"

ASSUME KycAssumption == TypeOf \in [DocumentIds -> Types] /\ NoId \notin NationalIds

VARIABLES
  iranian,        \* isIranianPhone of the account's phone
  level,          \* users.kycLevel
  identity,       \* the national id of the account's identity profile, or NoId
  elsewhere,      \* national ids held by profiles of other accounts
  docs,           \* docs[i]: status of the document with id i
  kycCall,        \* kycCall[c]: the request in progress of c
  approvedEver    \* the types that some review approved

kycVars == <<iranian, level, identity, elsewhere, docs, kycCall, approvedEver>>

NoType == "none"
NewRow == "new"

\* domain/auth/kyc-level.ts, in order
MOBILE_VERIFIED == 1
IDENTITY_VERIFIED == 2
DOCUMENT_VERIFIED == 3
FACE_VERIFIED == 4
FULLY_VERIFIED == 5
Levels == MOBILE_VERIFIED..FULLY_VERIFIED

\* late: another request wrote the level after this one began.
NoKycCall == [pc |-> "idle", id |-> NoId, type |-> NoType, doc |-> NewRow,
              types |-> {}, new |-> MOBILE_VERIFIED, late |-> FALSE]

KycCalls == [pc: {"idle", "findOwn", "registries", "upsertIdentity", "writeDocument",
                  "documents", "user", "raise"},
             id: NationalIds \cup {NoId}, type: Types \cup {NoType},
             doc: DocumentIds \cup {NewRow}, types: SUBSET Types, new: Levels, late: BOOLEAN]

KycTypeOK ==
  /\ iranian \in BOOLEAN
  /\ level \in Levels
  /\ identity \in NationalIds \cup {NoId}
  /\ elsewhere \subseteq NationalIds
  /\ docs \in [DocumentIds -> {"none", "PENDING", "APPROVED", "REJECTED"}]
  /\ kycCall \in [Callers -> KycCalls]
  /\ approvedEver \subseteq Types
  /\ \A i \in DocumentIds : docs[i] = "APPROVED" => TypeOf[i] \in approvedEver

\* Both sign-in and registration create the account at MOBILE_VERIFIED.
KycInit ==
  /\ iranian \in BOOLEAN
  /\ level = MOBILE_VERIFIED
  /\ identity = NoId /\ elsewhere = {}
  /\ docs = [i \in DocumentIds |-> "none"]
  /\ kycCall = [c \in Callers |-> NoKycCall]
  /\ approvedEver = {}

Go(c, pc) == kycCall' = [kycCall EXCEPT ![c].pc = pc]
Stop(c) == kycCall' = [kycCall EXCEPT ![c] = NoKycCall]
Start(c, call) == kycCall[c].pc = "idle" /\ kycCall' = [kycCall EXCEPT ![c] = call]
AtStep(c, pc) == kycCall[c].pc = pc

WriteLevel(c, new) ==
  /\ level' = new
  /\ kycCall' = [d \in Callers |->
       IF d = c \/ kycCall[d].pc = "idle" THEN NoKycCall ELSE [kycCall[d] EXCEPT !.late = TRUE]]

----------------------------------------------------------------------------
(* VerifyIdentityUseCase *)

FindIdentityByNationalIdHash(c, id) ==
  /\ iranian
  /\ id \notin elsewhere
  /\ Start(c, [NoKycCall EXCEPT !.pc = "findOwn", !.id = id])
  /\ UNCHANGED <<iranian, level, identity, elsewhere, docs, approvedEver>>

\* A verified id is answered from the profile, and cannot be changed.
Unlocked(id) == identity = NoId

FindIdentityByUserId(c) ==
  /\ AtStep(c, "findOwn")
  /\ IF Unlocked(kycCall[c].id) THEN Go(c, "registries") ELSE Stop(c)
  /\ UNCHANGED <<iranian, level, identity, elsewhere, docs, approvedEver>>

\* Shahkar and the civil registry, over the network
AskRegistries(c) ==
  /\ AtStep(c, "registries")
  /\ Go(c, "upsertIdentity") \/ Stop(c)
  /\ UNCHANGED <<iranian, level, identity, elsewhere, docs, approvedEver>>

\* Mutant of UniqueHash.
UniqueHashUnchecked(id) == id \in NationalIds
\* national_id_hash is unique over the accounts.
UniqueHash(id) == id \notin elsewhere

UpsertIdentity(c) ==
  /\ AtStep(c, "upsertIdentity")
  /\ \/ /\ UniqueHash(kycCall[c].id)
        /\ identity' = kycCall[c].id
        /\ WriteLevel(c, IDENTITY_VERIFIED)
     \/ ~UniqueHash(kycCall[c].id) /\ Stop(c) /\ UNCHANGED <<level, identity>>
  /\ UNCHANGED <<iranian, elsewhere, docs, approvedEver>>

\* The same use case, run for another account
OtherAccountVerifies(id) ==
  /\ id # identity /\ id \notin elsewhere
  /\ elsewhere' = elsewhere \cup {id}
  /\ UNCHANGED <<iranian, level, identity, docs, kycCall, approvedEver>>

----------------------------------------------------------------------------
(* UploadKycDocumentUseCase and upsertKycDocument *)

Open(i, type) == TypeOf[i] = type /\ docs[i] \in {"PENDING", "APPROVED"}

FindOpenDocument(c, type) ==
  /\ iranian => type # "passport"
  /\ \E i \in DocumentIds \cup {NewRow} :
       /\ IF i = NewRow THEN \A j \in DocumentIds : ~Open(j, type)
                   ELSE Open(i, type) /\ docs[i] # "APPROVED"
       /\ Start(c, [NoKycCall EXCEPT !.pc = "writeDocument", !.type = type, !.doc = i])
  /\ UNCHANGED <<iranian, level, identity, elsewhere, docs, approvedEver>>

\* By id, whatever a review has made of the document since it was read.
WriteDocument(c) ==
  /\ AtStep(c, "writeDocument")
  /\ \E i \in DocumentIds :
       /\ IF kycCall[c].doc = NewRow THEN docs[i] = "none" /\ TypeOf[i] = kycCall[c].type
                                    ELSE i = kycCall[c].doc
       /\ docs' = [docs EXCEPT ![i] = "PENDING"]
  /\ Stop(c)
  /\ UNCHANGED <<iranian, level, identity, elsewhere, approvedEver>>

----------------------------------------------------------------------------
(* ReviewKycDocumentUseCase and upgradeKycLevelIfNeeded *)

ReviewDocument(c, i, status) ==
  /\ docs[i] # "none"
  /\ docs' = [docs EXCEPT ![i] = status]
  /\ IF status = "APPROVED"
     THEN /\ Start(c, [NoKycCall EXCEPT !.pc = "documents"])
          /\ approvedEver' = approvedEver \cup {TypeOf[i]}
     ELSE AtStep(c, "idle") /\ UNCHANGED <<kycCall, approvedEver>>
  /\ UNCHANGED <<iranian, level, identity, elsewhere>>

ApprovedTypes == {TypeOf[i] : i \in {j \in DocumentIds : docs[j] = "APPROVED"}}

ReadDocuments(c) ==
  /\ AtStep(c, "documents")
  /\ kycCall' = [kycCall EXCEPT ![c].types = ApprovedTypes, ![c].pc = "user"]
  /\ UNCHANGED <<iranian, level, identity, elsewhere, docs, approvedEver>>

\* The level that these approved types and a national id give the account: each
\* level needs the one below it.
Earned(types, hasId) ==
  LET accepted == "national_id" \in types \/ (~iranian /\ "passport" \in types)
  IN IF ~hasId THEN MOBILE_VERIFIED
     ELSE IF ~accepted THEN IDENTITY_VERIFIED
     ELSE IF "selfie" \notin types THEN DOCUMENT_VERIFIED
     ELSE IF "address_proof" \notin types THEN FACE_VERIFIED ELSE FULLY_VERIFIED

\* Mutant of Higher.
Different(new, current) == new # current
Higher(new, current) == new > current

\* The identity and the level are read together, after the documents.
ReadUser(c) ==
  /\ AtStep(c, "user")
  /\ LET new == Earned(kycCall[c].types, identity # NoId)
     IN IF Higher(new, level)
        THEN kycCall' = [kycCall EXCEPT ![c].new = new, ![c].pc = "raise"]
        ELSE Stop(c)
  /\ UNCHANGED <<iranian, level, identity, elsewhere, docs, approvedEver>>

RaiseLevel(c) ==
  /\ AtStep(c, "raise")
  /\ WriteLevel(c, kycCall[c].new)
  /\ UNCHANGED <<iranian, identity, elsewhere, docs, approvedEver>>

KycNext ==
  \/ \E c \in Callers, id \in NationalIds : FindIdentityByNationalIdHash(c, id)
  \/ \E c \in Callers : FindIdentityByUserId(c) \/ AskRegistries(c) \/ UpsertIdentity(c)
  \/ \E id \in NationalIds : OtherAccountVerifies(id)
  \/ \E c \in Callers, type \in Types : FindOpenDocument(c, type)
  \/ \E c \in Callers, i \in DocumentIds, status \in {"APPROVED", "REJECTED"} :
       ReviewDocument(c, i, status)
  \/ \E c \in Callers : \/ WriteDocument(c) \/ ReadDocuments(c)
                        \/ ReadUser(c) \/ RaiseLevel(c)

KycSpec == KycInit /\ [][KycNext]_kycVars

----------------------------------------------------------------------------
(* Properties *)

\* Documents, identity and level are read in three steps that other requests
\* interleave with; still every level that an account has rests on everything the
\* ladder asks below it: a national id, and documents that some review approved.
LevelEarned ==
  /\ level >= IDENTITY_VERIFIED => identity # NoId
  /\ level >= DOCUMENT_VERIFIED => {"national_id", "passport"} \cap approvedEver # {}
  /\ level >= FACE_VERIFIED => "selfie" \in approvedEver
  /\ level >= FULLY_VERIFIED => "address_proof" \in approvedEver

\* The two writers of the level write by user id: a request that was overtaken
\* by another write can lower it.  A request that was not never does, also when
\* documents it had been given for were rejected or replaced since.
LevelFallsOnlyToLateRequests ==
  [][level' < level => \E c \in Callers : kycCall[c].late /\ kycCall'[c].pc = "idle"]_kycVars

\* A verified national id is exchanged for another only by a request that looked
\* at the profile before the id was there, that is, before that write of the level.
IdentityLocked ==
  [][identity # NoId /\ identity' # identity
       => \E c \in Callers : kycCall[c].late /\ kycCall'[c].pc = "idle"]_kycVars

\* Two accounts that verify one national id at the same time both pass the look
\* for it; only one of them ends up with it.
OneAccountPerNationalId == identity \notin elsewhere

\* What an account is verified for is its own, and earned.
VerificationEarned == LevelEarned /\ OneAccountPerNationalId

\* Neither the level nor the identity is taken back or exchanged by a request that
\* decided on what it alone had seen.
KycOnlyMovesUp == LevelFallsOnlyToLateRequests /\ IdentityLocked
=============================================================================
