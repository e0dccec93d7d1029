------------------------------ MODULE Mapping ------------------------------
(***************************************************************************)
(* What a webhook body is to WebhooksController.receive: the events and    *)
(* button taps in it, in the order the request walks through them.  Intake *)
(* takes the result as Content and Own.                                    *)
(*                                                                         *)
(* None is a field that is missing or empty; a record or a user name that  *)
(* may be missing is a sequence of none or one.  An externalEventId is the *)
(* tuple of the parts the code joins with ":", a user name its letters and *)
(* how they are written.                                                   *)
(***************************************************************************)
EXTENDS Naturals, Sequences, SequencesExt

None == "none"

isOwnAccountComment(account, from) ==
  \/ from.id # None /\ from.id \in {account.igBusinessId, account.igUserId}
  \/ \E name \in ToSet(from.username) : name.letters = account.igUsername.letters

mapChangeToJobData(change) ==
  IF change.id = None \/ change.from = <<>> THEN <<>>
  ELSE <<[externalEventId |-> <<change.id>>,
          source |-> IF change.field = "live_comments" THEN "LIVE_COMMENT" ELSE "COMMENT",
          mediaId |-> change.mediaId, text |-> change.text]>>

\* is_echo, is_self, is_deleted and is_unsupported are flags of a message.
Real(message) == message.mid # None /\ message.flags = {}

Referral(id, ref) == [externalEventId |-> id, source |-> "REFERRAL", mediaId |-> None, text |-> ref]

\* A message that answers a story is of that story even if it mentions one.
Conversation(message) ==
  [externalEventId |-> <<message.mid>>,
   source |-> IF message.story # None THEN "STORY_REPLY"
              ELSE IF "story_mention" \in message.attachments THEN "STORY_MENTION" ELSE "DM",
   mediaId |-> message.story,
   text |-> IF message.story = None /\ "story_mention" \in message.attachments THEN "" ELSE message.text]

mapMessagingEventToJobData(event) ==
  LET message == event.message[1]
  IN  IF event.message = <<>>
      THEN IF event.referral = None THEN <<>>
           ELSE <<Referral(<<"referral", event.sender, event.timestamp>>, event.referral)>>
      ELSE IF ~Real(message) THEN <<>>
      ELSE (IF message.referral = None THEN <<>>
            ELSE <<Referral(<<message.mid, "referral">>, message.referral)>>)
           \o <<Conversation(message)>>

\* A tap has a queue and dedup keys of its own, and no event beside it.
Tap(event) == [externalEventId |-> <<"postback", event.postback>>, source |-> "POSTBACK"]

messagingItems(event) ==
  IF event.postback # None THEN <<Tap(event)>> ELSE mapMessagingEventToJobData(event)

ownChange(account, change) == \E from \in ToSet(change.from) : isOwnAccountComment(account, from)
ownMessage(account, event) == isOwnAccountComment(account, [id |-> event.sender, username |-> <<>>])

\* Comments first, then messages, each as Meta lists them.
entryItems(entry) ==
  FlattenSeq([i \in DOMAIN entry.changes |-> mapChangeToJobData(entry.changes[i])])
  \o FlattenSeq([i \in DOMAIN entry.messaging |-> messagingItems(entry.messaging[i])])

\* Those the guard against replying to oneself drops.
ownItems(account, entry) ==
  UNION {ToSet(mapChangeToJobData(entry.changes[i])) :
           i \in {i \in DOMAIN entry.changes : ownChange(account, entry.changes[i])}}
  \cup UNION {ToSet(messagingItems(entry.messaging[i])) :
           i \in {i \in DOMAIN entry.messaging : ownMessage(account, entry.messaging[i])}}

(* ---- over small bodies ---------------------------------------------------- *)

SomeMessages ==
  [mid : {"m1", "m2", None}, flags : SUBSET {"echo", "deleted"}, story : {"s", None},
   attachments : SUBSET {"story_mention", "image"}, referral : {"promo", None}, text : {"hi"}]
SomeMessaging ==
  [sender : {"u1"}, timestamp : 1..2, message : {<<m>> : m \in SomeMessages}, referral : {None}, postback : {None}]
  \cup [sender : {"u1", "u2"}, timestamp : 1..2, message : {<<>>}, referral : {"promo", None},
        postback : {"m1", "m2", None}]

\* What tells two messaging events apart at Meta.
Identity(event) ==
  IF event.postback # None THEN <<"tap", event.postback>>
  ELSE IF event.message # <<>> THEN <<"message", event.message[1].mid>>
  ELSE <<"referral", event.sender, event.timestamp>>

ItemIds(event) == {item.externalEventId : item \in ToSet(messagingItems(event))}

\* Deduplication by externalEventId drops a redelivered event and nothing
\* else: different events never share an id, and the parts of one event have
\* different ones (mapMessagingEventToJobData, enqueueIfNew).
ASSUME IdsTellEventsApart ==
  /\ \A event \in SomeMessaging : IsInjective([i \in DOMAIN messagingItems(event) |->
                                                 messagingItems(event)[i].externalEventId])
  /\ \A one, other \in SomeMessaging :
       ItemIds(one) \cap ItemIds(other) # {} => Identity(one) = Identity(other)

\* A message people can see is one conversation event, with its referral, if
\* it came with one, in front; any other message is none
\* (mapMessagingEventToJobData).
ASSUME EveryMessageOnce ==
  \A event \in {event \in SomeMessaging : event.postback = None /\ event.message # <<>>} :
    LET sources == [i \in DOMAIN messagingItems(event) |-> messagingItems(event)[i].source]
        conversation == {"DM", "STORY_REPLY", "STORY_MENTION"}
    IN  IF Real(event.message[1])
        THEN /\ Last(sources) \in conversation
             /\ Front(sources) = IF event.message[1].referral = None THEN <<>> ELSE <<"REFERRAL">>
        ELSE sources = <<>>
=============================================================================
