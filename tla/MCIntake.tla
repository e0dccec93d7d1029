------------------------------ MODULE MCIntake ------------------------------
(***************************************************************************)
(* Small instances of Intake.  An entry is a sequence of ids: a comment c, *)
(* a comment o written by the account itself, a button tap b, and the two  *)
(* events of one direct message that carries a referral (ref, then dm).    *)
(***************************************************************************)
EXTENDS Intake, Mapping, TLC

CONSTANTS c, o, b, ref, dm, bodyA, bodyB

\* A tap and a comment in one entry.
PairContent == (bodyA :> <<<<c, b>>>>)
\* A tap and a comment in two entries.
TwoEntries == (bodyA :> <<<<b>>, <<c>>>>)
\* Two bodies that share a comment: one of our own in front of it, and in the
\* other body a first message in an entry of its own, as far as its referral,
\* which BullMQ refuses: the request ends there at every delivery.
RefusedLast == (bodyA :> <<<<o, dm>>>>) @@ (bodyB :> <<<<dm>>, <<c, ref>>>>)
Interchangeable == Permutations(Handlers) \cup Permutations(Workers)

(* ---- the bodies behind these ids ------------------------------------------ *)

Account == [igBusinessId |-> "us", igUserId |-> None, igUsername |-> [letters |-> "shop", written |-> "lower"]]
Person == [id |-> "them", username |-> <<[letters |-> "fan", written |-> "lower"]>>]
\* Our reply comes back under another id, its name written differently.
Us == [id |-> "us2", username |-> <<[letters |-> "shop", written |-> "Title"]>>]

CommentOf(id, from) == [id |-> id, from |-> <<from>>, field |-> "comments", mediaId |-> "post", text |-> "hi"]
Event(message, postback) ==
  [sender |-> "them", timestamp |-> 1, message |-> message, referral |-> None, postback |-> postback]
MessageWith(referral) ==
  Event(<<[mid |-> dm, flags |-> {}, story |-> None, attachments |-> {}, referral |-> referral, text |-> "hi"]>>,
        None)
TapOn == Event(<<>>, b)
Entry(changes, messaging) == [changes |-> changes, messaging |-> messaging]

\* Intake's name for an externalEventId.
Named(id) ==
  IF id = <<dm, "referral">> THEN ref ELSE IF Len(id) = 2 /\ id[1] = "postback" THEN id[2] ELSE id[1]
Mapped(entries) ==
  [i \in DOMAIN entries |->
    [j \in DOMAIN entryItems(entries[i]) |-> Named(entryItems(entries[i])[j].externalEventId)]]
Dropped(entries) ==
  UNION {{Named(item.externalEventId) : item \in ownItems(Account, entries[i])} : i \in DOMAIN entries}

Pair == <<Entry(<<CommentOf(c, Person)>>, <<TapOn>>)>>
Apart == <<Entry(<<>>, <<TapOn>>), Entry(<<CommentOf(c, Person)>>, <<>>)>>
Echo == <<Entry(<<CommentOf(o, Us)>>, <<MessageWith(None)>>)>>
Again == <<Entry(<<>>, <<MessageWith(None)>>), Entry(<<CommentOf(c, Person)>>, <<MessageWith("promo")>>)>>

\* The contents are what receive makes of these bodies, and the only comment
\* it drops as the account's own is o (WebhooksController.receive).
ASSUME MappedByReceive ==
  /\ PairContent[bodyA] = Mapped(Pair) /\ TwoEntries[bodyA] = Mapped(Apart)
  /\ RefusedLast[bodyA] = Mapped(Echo)
  /\ RefusedLast[bodyB] = [Mapped(Again) EXCEPT ![2] = Front(@)]
  /\ Dropped(Echo) = {o} /\ \A body \in {Pair, Apart, Again} : Dropped(body) = {}
=============================================================================
