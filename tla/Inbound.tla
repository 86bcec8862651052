------------------------------- MODULE Inbound -------------------------------
(***************************************************************************)
(* What the session layer (internal/wa/manager.go) turns a WhatsApp event  *)
(* into.  An event is a record                                             *)
(*                                                                         *)
(*   [company, channel  : the line whose client received the event,        *)
(*    fromMe, group     : BOOLEAN,                                         *)
(*    chat, sender, senderAlt : JIDs,                                      *)
(*    message           : [conversation, extended],                        *)
(*    id                : the WhatsApp message id]                         *)
(*                                                                         *)
(* A JID is [user, server]: its text form "user@server" is injective on    *)
(* the chats the harness accepts, so the record stands for the text.       *)
(***************************************************************************)

DefaultUserServer == "s.whatsapp.net"   \* chats addressed by phone number
HiddenUserServer  == "lid"              \* chats addressed by a hidden user id

NoPhone == "no phone"
NoText  == ""

\* The first non-empty one of the two text forms a message may carry.
ExtractText(message) ==
    IF message.conversation # NoText THEN message.conversation
                                     ELSE message.extended

\* With LID addressing the phone number lives in the alternative sender.
SenderPhone(e) ==
    CASE e.sender.server = DefaultUserServer    -> e.sender.user
      [] e.sender.server # DefaultUserServer
         /\ e.senderAlt.server = DefaultUserServer -> e.senderAlt.user
      [] OTHER                                  -> NoPhone

\* The early returns of onMessage.
Ignored(e) ==
    \/ e.fromMe
    \/ e.group
    \/ e.chat.server \notin {DefaultUserServer, HiddenUserServer}
    \/ ExtractText(e.message) = NoText
    \/ SenderPhone(e) = NoPhone

\* The Inbound handed to Enqueue.  Its text never influences control; it and
\* the push name are left out.
InboundOf(e) ==
    [company |-> e.company,
     channel |-> e.channel,
     phone   |-> SenderPhone(e),
     chat    |-> e.chat,
     id      |-> e.id]

\* The key of the conversations row an inbound belongs to: the table is unique
\* in (company_id, user_id, channel) and users in (company_id, phone).
ConversationOf(m) == <<m.company, m.phone, m.channel>>

\* The key under which an inbound is deduplicated.
DeliveryKey(m) == <<m.company, m.id>>
==============================================================================
