----------------------------- MODULE MCMatching -----------------------------
(***************************************************************************)
(* Small instances of Matching: two events and two automations of one      *)
(* account, of which hi outranks lo.  What matches, and what the trees     *)
(* reach, is what Choosing makes of them.                                  *)
(***************************************************************************)
EXTENDS Matching, Choosing, TLC

CONSTANTS e1, e2, hi, lo, t1, t2, t3, x1, x2, x3, x4, customer

TwoRanked == <<hi, lo>>
OneCustomer == (e1 :> customer) @@ (e2 :> customer)
FirstTrees == (hi :> t1) @@ (lo :> t3)
EditableTrees == (hi :> {t1, t2}) @@ (lo :> {t3})

Test(type, keywords) == [matchType |-> type, keywords |-> keywords, caseSensitive |-> FALSE]
On(source, test) == [source |-> source, test |-> test]
Send(x, branch) == [id |-> x, type |-> "SEND_DM", branch |-> branch]
Reply(x, branch) == [id |-> x, type |-> "REPLY_COMMENT", branch |-> branch]

\* The trees hi may have: t1 answers a text with a "b" differently; and lo's.
Actions ==
  (t1 :> <<[id |-> t1, type |-> "CONDITION", hasCondition |-> TRUE,
            condition |-> [field |-> "COMMENT_TEXT", test |-> Test("CONTAINS", <<<<"b">>>>)],
            children |-> <<Send(x4, "THEN"), Reply(x1, "ELSE")>>],
           Send(x2, "THEN")>>) @@
  (t2 :> <<Send(x2, "THEN")>>) @@
  (t3 :> <<Send(x3, "THEN")>>)

\* hi watches one post, and answers every message; lo answers to "a".
Rule(a) ==
  IF a = hi THEN [scopeType |-> "SPECIFIC_POSTS", scopeMediaIds |-> {"post"},
                  triggers |-> {On("COMMENT", Test("CONTAINS", <<<<"A">>>>))}]
            ELSE [scopeType |-> "ALL_POSTS", scopeMediaIds |-> {},
                  triggers |-> {On(s, Test("EXACT", <<<<"a">>>>)) : s \in {"COMMENT", "DM"}}]
Anything == [scopeType |-> "ALL_POSTS", scopeMediaIds |-> {}, triggers |-> {On("DM", Test("CONTAINS", <<>>))}]

\* Two comments, of which the second stands elsewhere.
Comment(e) == [source |-> "COMMENT", mediaId |-> IF e = e1 THEN "post" ELSE "other",
               text |-> IF e = e1 THEN <<"a">> ELSE <<"a", "b">>, username |-> <<"a">>]
\* Two messages: only the first is no more than an "a".
Message(e) == [source |-> "DM", mediaId |-> "none",
               text |-> IF e = e1 THEN <<" ", "A">> ELSE <<"A", " ", "b">>, username |-> <<"a">>]

\* What follows from these for Matching, written out: TLC would compute it anew
\* in every state.
CommentTriggers == {<<e1, hi>>, <<e1, lo>>}
MessageTriggers == {<<e1, hi>>, <<e2, hi>>, <<e1, lo>>}
Plans ==
  [t \in Trees |-> [e \in Events |->
     IF t = t1 THEN <<IF e = e1 THEN x1 ELSE x4, x2>> ELSE IF t = t2 THEN <<x2>> ELSE <<x3>>]]
ReplyActions == {x1}
NoSkips == {}
SkipReplies == {<<e1, x1>>, <<e2, x1>>}

\* They are what the rules choose (automationMatches, dispatchActionTree, and
\* dispatchAction for actions on a comment that is not there).
ASSUME ChosenByTheRules ==
  /\ CommentTriggers = {p \in Events \X Automations : automationMatches(Rule(p[2]), Comment(p[1]))}
  /\ MessageTriggers =
       {p \in Events \X Automations :
          automationMatches(IF p[2] = hi THEN Anything ELSE Rule(p[2]), Message(p[1]))}
  /\ \A t \in Trees, e \in Events :
       /\ Plans[t][e] = dispatchActionTree(Actions[t], Comment(e))
       /\ Plans[t][e] = dispatchActionTree(Actions[t], Message(e))
  /\ NoSkips = {p \in Events \X ReplyActions : CommentOnly(Reply(p[2], "ELSE"), Comment(p[1]))}
  /\ SkipReplies = {p \in Events \X ReplyActions : CommentOnly(Reply(p[2], "ELSE"), Message(p[1]))}

InterchangeableWorkers == Permutations(Workers)
=============================================================================
