---------------------------- MODULE ChatMessages ----------------------------
(***************************************************************************)
(* The messages of one chat while its shipment moves on.  Each request     *)
(* reads the chat with its shipment once and acts on that copy some awaits *)
(* later.  Whether a text holds contact details is all that the firewall   *)
(* makes of it.                                                            *)
(***************************************************************************)
EXTENDS Naturals, Sequences, FiniteSets

CONSTANTS
  ChatCallers,      \* requests under way at once
  PartyOf,          \* PartyOf[c]: who makes them
  PageSize,         \* messages on a page; requests ask for the first page
  MaxMessages,      \* bound on the messages stored
  MaxEvents         \* bound on the rows of trust_events

ASSUME ChatAssumption ==
  /\ PartyOf \in [ChatCallers -> {"sender", "carrier"}]
  /\ {PageSize, MaxMessages, MaxEvents} \subseteq Nat

VARIABLES
  chatOpen,       \* chats.isActive
  onShipment,     \* the shipment: status, whether it has a carrier, what request detaches it
  messages,       \* chat_messages by createdAt; excused: its reader was given it, or it
                  \* was too old for his page, or came between his page and the mark
                  \* (an answer that is lost after the mark counts as given)
  blackedOut,     \* messages stored with contact details blacked out
  late,           \* messages stored when the chat was closed already
  chatCall,       \* chatCall[c]: the request in progress of c
  trustEvents,    \* rows of trust_events
  refused,        \* messages that the firewall blocked
  revealed,       \* the counterpart's phone number was answered
  underWay        \* sends under way when the chat was closed

chatVars == <<chatOpen, onShipment, messages, blackedOut, late, chatCall, trustEvents, refused,
              revealed, underWay>>
counted == <<blackedOut, late, trustEvents, refused, revealed, underWay>>

Parties == {"sender", "carrier"}
Secured == {"ACCEPTED", "PAID"}
NoChatCall == [pc |-> "idle", action |-> "ALLOW", page |-> {}]
Indexes == 1..Len(messages)

ChatTypeOK ==
  /\ chatOpen \in BOOLEAN /\ revealed \in BOOLEAN
  /\ onShipment \in
       [status: {"PENDING", "MATCHED", "DISPUTED", "CANCELLED"} \cup Secured,
        carrier: BOOLEAN, was: SUBSET Secured, closing: {"none", "cancel", "reject"}]
  /\ \A i \in Indexes : messages[i] \in
       [from: Parties, read: BOOLEAN, excused: BOOLEAN]
  /\ Len(messages) <= MaxMessages
  /\ \A c \in ChatCallers : chatCall[c] \in
       [pc: {"idle", "event", "insert", "page", "mark", "contact"},
        action: {"ALLOW", "MASK", "BLOCK"},
        page: SUBSET Indexes]
  /\ {blackedOut, late, trustEvents, refused, underWay} \subseteq Nat

\* A shipment that was assigned has its chat.
ChatInit ==
  /\ chatOpen = TRUE
  /\ onShipment = [status |-> "MATCHED", carrier |-> TRUE, was |-> {}, closing |-> "none"]
  /\ messages = <<>> /\ blackedOut = 0 /\ late = 0
  /\ chatCall = [c \in ChatCallers |-> NoChatCall]
  /\ trustEvents = 0 /\ refused = 0 /\ revealed = FALSE /\ underWay = 0

ChatGoes(c, pc) == chatCall' = [chatCall EXCEPT ![c].pc = pc]
ChatStops(c) == chatCall' = [chatCall EXCEPT ![c] = NoChatCall]
At(c, pc) == chatCall[c].pc = pc

\* findById and the check of the participant
MayUse(c) == PartyOf[c] = "sender" \/ onShipment.carrier

----------------------------------------------------------------------------
(* SendChatMessageUseCase *)

\* The firewall: contact details are refused before an offer is accepted, and
\* blacked out from then on.
Evaluate(text, status) ==
  IF text = "plain" THEN "ALLOW" ELSE IF status \in Secured THEN "MASK" ELSE "BLOCK"

BeginSend(c, text) ==
  /\ At(c, "idle") /\ MayUse(c) /\ chatOpen
  /\ LET action == Evaluate(text, onShipment.status)
     IN  chatCall' = [chatCall EXCEPT ![c] =
           [NoChatCall EXCEPT !.pc = IF action = "ALLOW" THEN "insert" ELSE "event",
                              !.action = action]]
  /\ UNCHANGED <<chatOpen, onShipment, messages, counted>>

RecordTrustEvent(c) ==
  /\ At(c, "event") /\ trustEvents < MaxEvents
  /\ trustEvents' = trustEvents + 1
  /\ IF chatCall[c].action = "BLOCK" THEN ChatStops(c) /\ refused' = refused + 1
                                     ELSE ChatGoes(c, "insert") /\ UNCHANGED refused
  /\ UNCHANGED <<chatOpen, onShipment, messages, blackedOut, late, revealed, underWay>>

\* Whether the chat is still active is not looked at again.  touchChat and the
\* publication follow; a failure of theirs is answered as one of the whole call.
SendMessage(c) ==
  /\ At(c, "insert") /\ Len(messages) < MaxMessages
  /\ messages' = Append(messages,
       [from |-> PartyOf[c], read |-> FALSE,
        excused |-> \E d \in ChatCallers : At(d, "mark") /\ PartyOf[d] # PartyOf[c]])
  /\ blackedOut' = IF chatCall[c].action = "MASK" THEN blackedOut + 1 ELSE blackedOut
  /\ late' = IF chatOpen THEN late ELSE late + 1
  /\ ChatStops(c)
  /\ UNCHANGED <<chatOpen, onShipment, trustEvents, refused, revealed, underWay>>

----------------------------------------------------------------------------
(* ListChatMessagesUseCase and RevealChatContactUseCase *)

BeginListing(c) ==
  /\ At(c, "idle") /\ MayUse(c)
  /\ chatCall' = [chatCall EXCEPT ![c] = [NoChatCall EXCEPT !.pc = "page"]]
  /\ UNCHANGED <<chatOpen, onShipment, messages, counted>>

\* The newest messages; the others that are to be read are too old for the page.
ListMessages(c) ==
  /\ At(c, "page")
  /\ LET page == {i \in Indexes : i > Len(messages) - PageSize}
     IN  /\ chatCall' = [chatCall EXCEPT ![c].pc = "mark", ![c].page = page]
         /\ messages' = [i \in Indexes |->
              [messages[i] EXCEPT !.excused = @ \/ (i \notin page /\ messages[i].from # PartyOf[c])]]
  /\ UNCHANGED <<chatOpen, onShipment, counted>>

\* Mutant of Unread.
UnreadByAnyone(c) == {i \in Indexes : ~messages[i].read}
Unread(c) == {i \in Indexes : ~messages[i].read /\ messages[i].from # PartyOf[c]}

\* All that the reader has not read, whatever the page was; then the page is answered.
MarkMessagesRead(c) ==
  /\ At(c, "mark")
  /\ messages' = [i \in Indexes |->
       [messages[i] EXCEPT !.read = @ \/ i \in Unread(c),
          !.excused = @ \/ (i \in chatCall[c].page /\ messages[i].from # PartyOf[c])]]
  /\ ChatStops(c)
  /\ UNCHANGED <<chatOpen, onShipment, counted>>

BeginReveal(c) ==
  /\ At(c, "idle") /\ MayUse(c)
  /\ chatOpen /\ onShipment.status = "PAID"
  /\ PartyOf[c] = "sender" => onShipment.carrier
  /\ chatCall' = [chatCall EXCEPT ![c] = [NoChatCall EXCEPT !.pc = "contact"]]
  /\ UNCHANGED <<chatOpen, onShipment, messages, counted>>

FindParticipantContact(c) ==
  /\ At(c, "contact")
  /\ revealed' = TRUE
  /\ ChatStops(c)
  /\ UNCHANGED <<chatOpen, onShipment, messages, blackedOut, late, trustEvents, refused,
                 underWay>>

\* A statement fails, or the process dies.
FailChatCall(c) ==
  /\ ~At(c, "idle")
  /\ ChatStops(c)
  /\ UNCHANGED <<chatOpen, onShipment, messages, counted>>

----------------------------------------------------------------------------
(* The shipment *)

Sends == {c \in ChatCallers : chatCall[c].pc \in {"event", "insert"}}

\* PAID stands for all that follows it up to CONFIRMED.
MoveOn(status) ==
  /\ \/ onShipment.status = "MATCHED" /\ status = "ACCEPTED"
     \/ onShipment.status = "ACCEPTED" /\ status = "PAID"
     \/ onShipment.status = "PAID" /\ status = "DISPUTED"
  /\ onShipment' = [onShipment EXCEPT !.status = status, !.was = @ \cup ({status} \cap Secured)]
  /\ UNCHANGED <<chatOpen, messages, chatCall, counted>>

\* cancel and reject close the chat first, and write the shipment, by id, next.  A
\* shipment that is assigned once more keeps the closed chat.
CloseChat(why) ==
  /\ onShipment.closing = "none"
  /\ onShipment.status \in (IF why = "reject" THEN {"MATCHED"} ELSE {"MATCHED", "ACCEPTED"})
  /\ chatOpen' = FALSE
  /\ underWay' = IF chatOpen THEN Cardinality(Sends) ELSE underWay
  /\ onShipment' = [onShipment EXCEPT !.closing = why]
  /\ UNCHANGED <<messages, chatCall, blackedOut, late, trustEvents, refused, revealed>>

WriteClosed ==
  /\ onShipment.closing # "none"
  /\ onShipment' = [onShipment EXCEPT
       !.status = IF onShipment.closing = "cancel" THEN "CANCELLED" ELSE "PENDING",
       !.carrier = FALSE, !.closing = "none"]
  /\ UNCHANGED <<chatOpen, messages, chatCall, counted>>

ChatNext ==
  \/ \E c \in ChatCallers :
       \/ \E text \in {"plain", "contact"} : BeginSend(c, text)
       \/ BeginListing(c) \/ BeginReveal(c)
       \/ RecordTrustEvent(c) \/ SendMessage(c)
       \/ ListMessages(c) \/ MarkMessagesRead(c) \/ FindParticipantContact(c)
       \/ FailChatCall(c)
  \/ \E status \in Secured \cup {"DISPUTED"} : MoveOn(status)
  \/ \E why \in {"cancel", "reject"} : CloseChat(why)
  \/ WriteClosed

ChatSpec == ChatInit /\ [][ChatNext]_chatVars

----------------------------------------------------------------------------
(* Properties *)

\* A message counts as read though no page with it was answered to its reader only if it
\* was too old for the page that he asked for, or came between his page and the mark.
\* That the answer reaches him after the mark is not promised.
ReadMeansShown ==
  \A i \in Indexes : messages[i].read => messages[i].excused

\* Details pass, blacked out, only once an offer was accepted, and the phone number
\* only once it was paid; each refusal and each message blacked out left an event.
ContactsHeldBack ==
  /\ blackedOut > 0 => onShipment.was # {}
  /\ revealed => "PAID" \in onShipment.was
  /\ refused + blackedOut <= trustEvents

\* A chat that is closed gets no more messages than were on their way.
ClosedGoesQuiet == late <= underWay

\* Reading, contacts and closing each keep what they promise, though every request
\* acts on a copy of the chat that others have changed since.
ChatKept == ReadMeansShown /\ ContactsHeldBack /\ ClosedGoesQuiet
=============================================================================
