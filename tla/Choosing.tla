------------------------------ MODULE Choosing ------------------------------
(***************************************************************************)
(* Which automation answers an event, and which actions of its tree that   *)
(* reaches: the part of AutomationsService.matchCommentEvent between two   *)
(* awaits, which depends on nothing but the rows it has read.  Matching    *)
(* takes its results as constants.                                         *)
(*                                                                         *)
(* A text is a sequence of characters, of which "A" and "a" stand for      *)
(* those with a case, " " for white space and "b" for all others.  A       *)
(* pattern is the text it finds, or starts with "?" if RegExp refuses it   *)
(* or does not come to an end.                                             *)
(***************************************************************************)
EXTENDS Naturals, Sequences, SequencesExt

Conversation == {"STORY_REPLY", "DM", "STORY_MENTION", "REFERRAL"}

(* ---- keywords ------------------------------------------------------------ *)

normalize(text, caseSensitive) ==
  IF caseSensitive THEN text ELSE [i \in DOMAIN text |-> IF text[i] = "A" THEN "a" ELSE text[i]]

trim(text) ==
  LET ink == {i \in DOMAIN text : text[i] # " "}
  IN  IF ink = {} THEN <<>> ELSE SubSeq(text, Min(ink), Max(ink))

\* String.includes: the empty text is part of every text.
includes(text, part) == part \in SubSeqs(text)

\* Only the first keyword is the pattern.
regexMatches(test, text) ==
  /\ test.keywords # <<>> /\ test.keywords[1] # <<>> /\ test.keywords[1][1] # "?"
  /\ includes(normalize(text, test.caseSensitive), normalize(test.keywords[1], test.caseSensitive))

\* AI_INTENT matches nothing; no keywords match everything.
matchesKeywords(test, text) ==
  LET same(s) == normalize(s, test.caseSensitive)
  IN  \/ test.matchType \in {"EXACT", "CONTAINS"} /\ test.keywords = <<>>
      \/ /\ test.matchType = "EXACT"
         /\ \E i \in DOMAIN test.keywords : same(test.keywords[i]) = same(trim(text))
      \/ /\ test.matchType = "CONTAINS"
         /\ \E i \in DOMAIN test.keywords : includes(same(text), same(test.keywords[i]))
      \/ test.matchType = "REGEX" /\ regexMatches(test, text)

(* ---- automations and their actions ---------------------------------------- *)

triggerMatches(trigger, e) ==
  trigger.source = e.source /\ matchesKeywords(trigger.test, e.text)

\* An event without a media id is in no list of posts or stories.
automationMatches(a, e) ==
  /\ a.scopeType \in {"SPECIFIC_POSTS", "SPECIFIC_STORIES"} => e.mediaId \in a.scopeMediaIds
  /\ \E t \in a.triggers : triggerMatches(t, e)

conditionMatches(condition, e) ==
  matchesKeywords(condition.test, IF condition.field = "SENDER_USERNAME" THEN e.username ELSE e.text)

Branch(action, e) == IF conditionMatches(action.condition, e) THEN "THEN" ELSE "ELSE"

\* The actions it comes to, in order; those of a CONDITION without a row, none.
RECURSIVE dispatchActionTree(_, _)
dispatchActionTree(actions, e) ==
  FlattenSeq([i \in DOMAIN actions |->
    LET n == actions[i]
    IN  IF n.type # "CONDITION" THEN <<n.id>>
        ELSE IF ~n.hasCondition THEN <<>>
        ELSE dispatchActionTree(SelectSeq(n.children, LAMBDA c : c.branch = Branch(n, e)), e)])

\* dispatchAction queues nothing for an action on a comment that is not there.
CommentOnly(action, e) ==
  e.source \in Conversation /\ action.type \in {"REPLY_COMMENT", "HIDE_COMMENT"}

(* ---- against reference definitions ---------------------------------------- *)

SomeTexts == SeqOf({"A", "a", " "}, 3)

\* A message that is exactly a keyword contains it, and ignoring case never
\* loses a match (matchesKeywords, for every text and up to two keywords).
ASSUME KeywordsAgree ==
  \A text \in SomeTexts, keywords \in SeqOf(SeqOf({"A", "a", " "}, 1) \cup {<<"a", "A">>}, 2),
     caseSensitive \in BOOLEAN :
    LET match(type, cs) ==
          matchesKeywords([matchType |-> type, keywords |-> keywords, caseSensitive |-> cs], text)
    IN  /\ match("EXACT", caseSensitive) => match("CONTAINS", caseSensitive)
        /\ \A type \in {"EXACT", "CONTAINS", "REGEX"} :
             match(type, TRUE) => match(type, FALSE)

\* Small trees: each node's id is where it stands, conditions test for "b".
Leaf(p, branch) == [id |-> p, type |-> "SEND_DM", branch |-> branch]
Fork(p, branch, has, children) ==
  [id |-> p, type |-> "CONDITION", branch |-> branch, hasCondition |-> has, children |-> children,
   condition |-> [field |-> "COMMENT_TEXT",
                  test |-> [matchType |-> "CONTAINS", keywords |-> <<<<"b">>>>, caseSensitive |-> FALSE]]]
Leaves(p, n) == {[i \in 1..n |-> Leaf(Append(p, i), b[i])] : b \in [1..n -> {"THEN", "ELSE"}]}
Nodes(p, branch) ==
  {Leaf(p, branch)} \cup
  {Fork(p, branch, has, children) : has \in BOOLEAN, children \in UNION {Leaves(p, n) : n \in 0..2}}
Roots ==
  {<<n>> : n \in Nodes(<<1>>, "THEN")} \cup
  {<<m, n>> : m \in Nodes(<<1>>, "THEN"), n \in Nodes(<<2>>, "THEN")} \cup
  {<<Fork(<<1>>, "THEN", TRUE, <<n, Leaf(<<1, 2>>, "ELSE")>>)>> :
     n \in Nodes(<<1, 1>>, "THEN") \cup Nodes(<<1, 1>>, "ELSE")}

\* The children of the node at p, or the roots.
ChildrenAt(roots, p) ==
  LET down[i \in 0..Len(p)] ==
        IF i = 0 THEN roots
        ELSE LET n == down[i - 1][p[i]] IN IF n.type = "CONDITION" THEN n.children ELSE <<>>
  IN  down[Len(p)]

NodeAt(roots, p) == ChildrenAt(roots, Front(p))[Last(p)]

Places(roots) ==
  LET below(S) == {Append(p, i) : p \in S, i \in 1..2}
      real(S) == {p \in S : Last(p) \in DOMAIN ChildrenAt(roots, Front(p))}
      one == real(below({<<>>}))
      two == real(below(one))
  IN  one \cup two \cup real(below(two))

Before(p, q) ==
  \/ IsStrictPrefix(p, q)
  \/ \E i \in DOMAIN p \cap DOMAIN q : SubSeq(p, 1, i - 1) = SubSeq(q, 1, i - 1) /\ p[i] < q[i]

\* An action is reached if every step of the path to it leads into the branch
\* its condition took; the actions reached come in the order of the tree.
Reached(roots, e) ==
  LET onPath(p) ==
        \A i \in 1..(Len(p) - 1) :
          LET fork == NodeAt(roots, SubSeq(p, 1, i))
          IN  fork.hasCondition /\ NodeAt(roots, SubSeq(p, 1, i + 1)).branch = Branch(fork, e)
  IN  SetToSortSeq({p \in Places(roots) : NodeAt(roots, p).type # "CONDITION" /\ onPath(p)}, Before)

\* The walk dispatches each action of the branches taken once, in order, and
\* none of the others (dispatchActionTree).
ASSUME WalkReachesBranches ==
  \A roots \in Roots, text \in {<<"a">>, <<"b">>} :
    LET e == [source |-> "DM", text |-> text, username |-> <<"a">>]
    IN  dispatchActionTree(roots, e) = Reached(roots, e)
=============================================================================
