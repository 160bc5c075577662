------------------------------ MODULE Notices ------------------------------
(***************************************************************************)
(* Who is told what happens to a shipment.  A handler or cron job writes   *)
(* the row and then stores one notice after another, each in an await of   *)
(* its own; what fails in between leaves the rest untold.  The resolution  *)
(* of a dispute that finance did not answer is written and told by the     *)
(* outbox, which begins anew when it fails.                                *)
(***************************************************************************)
EXTENDS Integers, Sequences

CONSTANTS
  Tellers,          \* handlers and jobs that come upon the occasion
  OfRow,            \* the outbox, where it tells
  MaxRowTries,      \* executions of an outbox row before it is given up
  MaxCutShort,      \* bound: tellers that die or fail
  MaxReplays        \* bound: replays of the row

ASSUME NoticesAssumption ==
  OfRow \notin Tellers /\ MaxRowTries \in Nat \ {0} /\ MaxCutShort \in Nat /\ MaxReplays \in Nat

VARIABLES
  occasion,         \* what the parties are told of
  open,             \* the status of the shipment still allows it
  carried,          \* the shipment has a carrier
  teller,           \* teller[c]: whom it is about to tell, by the row it has read
  outboxRow,        \* the row of the command that settles the dispute
  told,             \* notices stored for each party
  news,             \* how often the occasion was written
  owed,             \* who was a party then
  cutShort,         \* tellers that failed
  cutAfterNews,     \* one of them had written it
  replays

noticesVars == <<occasion, open, carried, teller, outboxRow, told, news, owed, cutShort,
                 cutAfterNews, replays>>

Addressable == {"sender", "carrier"}
Settlements == {"resolved", "refunded"}
Occasions == {"match", "accepted", "paid", "disputed", "released"} \cup Settlements

\* Who is told, and in which order (the disputes are those of the sender).
Recipients(o) ==
  CASE o = "match" -> <<"sender">>
    [] o \in {"accepted", "disputed"} -> <<"carrier">>
    [] o = "released" -> <<"carrier", "sender">>
    [] OTHER -> <<"sender", "carrier">>
Members(to) == {to[i] : i \in DOMAIN to}
\* Those of them that there are: a sender there always is.
Present(o, hasCarrier) ==
  CASE hasCarrier -> Recipients(o)
    [] ~hasCarrier /\ "sender" \in Members(Recipients(o)) -> <<"sender">>
    [] OTHER -> <<>>
\* A request that refunds tells the sender once more; the outbox does not.
Told(o, c, hasCarrier) ==
  Present(o, hasCarrier) \o IF o = "refunded" /\ c # OfRow THEN <<"sender">> ELSE <<>>

NotTelling == [at |-> "idle", to |-> <<>>]
NoRow == [state |-> "none", tries |-> 0]

NoticesTypeOK ==
  /\ occasion \in Occasions /\ open \in BOOLEAN /\ carried \in BOOLEAN
  /\ \A c \in Tellers \cup {OfRow} :
       /\ teller[c].at \in {"idle", "calling", "writing", "answering", "telling"}
       /\ Len(teller[c].to) <= 3 /\ Members(teller[c].to) \subseteq Addressable
  /\ outboxRow.state \in {"none", "pending", "running", "done", "failed"}
  /\ outboxRow.tries \in 0..MaxRowTries
  /\ told \in [Addressable -> Nat] /\ news \in Nat /\ owed \subseteq Addressable
  /\ cutShort \in 0..MaxCutShort /\ cutAfterNews \in BOOLEAN /\ replays \in 0..MaxReplays

NoticesInit ==
  /\ occasion \in Occasions /\ open = TRUE /\ carried = TRUE
  /\ teller = [c \in Tellers \cup {OfRow} |-> NotTelling] /\ outboxRow = NoRow
  /\ told = [p \in Addressable |-> 0] /\ news = 0 /\ owed = {}
  /\ cutShort = 0 /\ cutAfterNews = FALSE /\ replays = 0

----------------------------------------------------------------------------
(* Handlers and jobs *)

ComeUpon(c) ==
  /\ teller[c].at = "idle" /\ open
  /\ teller' = [teller EXCEPT ![c] =
       [at |-> IF occasion \in Settlements THEN "calling" ELSE "writing",
        to |-> Told(occasion, c, carried)]]
  /\ UNCHANGED <<occasion, open, carried, outboxRow, told, news, owed, cutShort, cutAfterNews,
                 replays>>

\* Only a command that finance answered is written and told by the request.
CallSettled(c) ==
  /\ teller[c].at = "calling"
  /\ teller' = [teller EXCEPT ![c].at = "writing"]
  /\ UNCHANGED <<occasion, open, carried, outboxRow, told, news, owed, cutShort, cutAfterNews,
                 replays>>

CallQueued(c) ==
  /\ teller[c].at = "calling"
  /\ teller' = [teller EXCEPT ![c] = NotTelling]
  /\ outboxRow' = IF outboxRow = NoRow THEN [NoRow EXCEPT !.state = "pending"] ELSE outboxRow
  /\ UNCHANGED <<occasion, open, carried, told, news, owed, cutShort, cutAfterNews, replays>>

\* The occasion has come about, for the parties that the row has now.
Happens(c) ==
  /\ news' = news + 1 /\ owed' = owed \cup Members(Told(occasion, c, carried))

\* acceptOffer returns the row as written; the others tell the parties they read.
Addressees(c) ==
  IF occasion = "accepted" THEN Told(occasion, c, carried) ELSE teller[c].to

\* The release of a confirmed shipment is news when finance has answered it.
WriteRow(c) ==
  /\ teller[c].at = "writing" /\ open' = FALSE
  /\ IF occasion = "released"
       THEN /\ teller' = [teller EXCEPT ![c].at = "answering"] /\ UNCHANGED <<news, owed>>
       ELSE /\ teller' = [teller EXCEPT ![c] = [at |-> "telling", to |-> Addressees(c)]]
            /\ Happens(c)
  /\ UNCHANGED <<occasion, carried, outboxRow, told, cutShort, cutAfterNews, replays>>

ReleaseEnds(c) ==
  /\ teller[c].at = "answering"
  /\ \/ teller' = [teller EXCEPT ![c].at = "telling"] /\ Happens(c)
     \/ teller' = [teller EXCEPT ![c] = NotTelling] /\ UNCHANGED <<news, owed>>
  /\ UNCHANGED <<occasion, open, carried, outboxRow, told, cutShort, cutAfterNews, replays>>

StoreNotice(c) ==
  /\ teller[c].at = "telling" /\ teller[c].to # <<>>
  /\ told' = [told EXCEPT ![Head(teller[c].to)] = @ + 1]
  /\ teller' = [teller EXCEPT ![c].to = Tail(@)]
  /\ UNCHANGED <<occasion, open, carried, outboxRow, news, owed, cutShort, cutAfterNews,
                 replays>>

EndTelling(c) ==
  /\ c # OfRow /\ teller[c].at = "telling" /\ teller[c].to = <<>>
  /\ teller' = [teller EXCEPT ![c] = NotTelling]
  /\ UNCHANGED <<occasion, open, carried, outboxRow, told, news, owed, cutShort, cutAfterNews,
                 replays>>

\* A failed await, or the end of the process: nobody takes up where it stopped.
CutTeller(c) ==
  /\ c # OfRow /\ teller[c].at # "idle" /\ cutShort < MaxCutShort
  /\ cutShort' = cutShort + 1
  /\ cutAfterNews' = (cutAfterNews \/ teller[c].at = "telling")
  /\ teller' = [teller EXCEPT ![c] = NotTelling]
  /\ UNCHANGED <<occasion, open, carried, outboxRow, told, news, owed, replays>>

\* A reject or cancel beside it.
LoseCarrier ==
  /\ occasion \in {"accepted", "paid"} /\ carried
  /\ carried' = FALSE /\ open' = FALSE
  /\ UNCHANGED <<occasion, teller, outboxRow, told, news, owed, cutShort, cutAfterNews, replays>>

----------------------------------------------------------------------------
(* The outbox *)

\* Finance has executed the command; the bridge reads the parties.
TakeRow ==
  /\ outboxRow.state = "pending"
  /\ outboxRow' = [outboxRow EXCEPT !.state = "running"]
  /\ teller' = [teller EXCEPT ![OfRow] =
                  [at |-> "writing", to |-> Told(occasion, OfRow, carried)]]
  /\ UNCHANGED <<occasion, open, carried, told, news, owed, cutShort, cutAfterNews, replays>>

RowDone ==
  /\ teller[OfRow].at = "telling" /\ teller[OfRow].to = <<>>
  /\ outboxRow' = [outboxRow EXCEPT !.state = "done"]
  /\ teller' = [teller EXCEPT ![OfRow] = NotTelling]
  /\ UNCHANGED <<occasion, open, carried, told, news, owed, cutShort, cutAfterNews, replays>>

\* Mutant of StateAfterFailure.
StateAfterFailureOfNotice(tries) ==
  CASE teller[OfRow].at = "telling" -> "done"
    [] tries < MaxRowTries -> "pending"
    [] OTHER -> "failed"
\* A row whose notice failed has failed.
StateAfterFailure(tries) == IF tries < MaxRowTries THEN "pending" ELSE "failed"

RowFails ==
  /\ outboxRow.state = "running"
  /\ LET tries == outboxRow.tries + 1
     IN outboxRow' = [state |-> StateAfterFailure(tries), tries |-> tries]
  /\ teller' = [teller EXCEPT ![OfRow] = NotTelling]
  /\ UNCHANGED <<occasion, open, carried, told, news, owed, cutShort, cutAfterNews, replays>>

\* Two workers on one row are in IntegrationOutbox.
ReplayRow ==
  /\ outboxRow.state \in {"done", "failed"} /\ replays < MaxReplays
  /\ outboxRow' = [state |-> "pending", tries |-> 0] /\ replays' = replays + 1
  /\ UNCHANGED <<occasion, open, carried, teller, told, news, owed, cutShort, cutAfterNews>>

NoticesNext ==
  \/ \E c \in Tellers : ComeUpon(c) \/ CallSettled(c) \/ CallQueued(c) \/ ReleaseEnds(c)
  \/ \E c \in Tellers \cup {OfRow} :
       WriteRow(c) \/ StoreNotice(c) \/ EndTelling(c) \/ CutTeller(c)
  \/ LoseCarrier \/ TakeRow \/ RowDone \/ RowFails \/ ReplayRow

NoticesSpec == NoticesInit /\ [][NoticesNext]_noticesVars

----------------------------------------------------------------------------
(* Properties *)

\* A party is told no more often than the occasion came about, once for each (the
\* sender of a refund twice): a retried row writes again before it tells again.
ToldOfWhatHappened ==
  \A p \in Addressable :
    told[p] <= news * (IF occasion = "refunded" /\ p = "sender" THEN 2 ELSE 1)

\* A carrier is told that his offer was accepted only if he still carries.
AcceptedCarrierIsOne == occasion = "accepted" /\ told["carrier"] > 0 => "carrier" \in owed

\* When nobody is at work, all parties know, unless a teller failed after its write:
\* a handler or job does not come back for the rest (the poller finds the shipment
\* PAID), and a row may be given up.
PartiesKnow ==
  /\ \A c \in Tellers \cup {OfRow} : teller[c].at = "idle"
  /\ ~cutAfterNews /\ outboxRow.state \in {"none", "done"}
  => \A p \in owed : told[p] > 0

\* A row that is done has told both parties, however often it failed.
DoneRowTold == outboxRow.state = "done" => \A p \in Addressable : told[p] > 0

PartiesTold == ToldOfWhatHappened /\ AcceptedCarrierIsOne /\ PartiesKnow /\ DoneRowTold
=============================================================================
