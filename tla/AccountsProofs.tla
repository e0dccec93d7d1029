--------------------------- MODULE AccountsProofs ---------------------------
(***************************************************************************)
(* What holds of the connected accounts for every number of accounts,      *)
(* callbacks, senders, users and revocations.                              *)
(***************************************************************************)
EXTENDS Accounts, TLAPS

-----------------------------------------------------------------------------
(* The inductive invariant.                                                *)

\* A callback past the state token knows its workspace, and one past the
\* exchange its account.
Callbacks ==
  {c \in [at : {"idle", "drop", "exchange", "save", "subscribe"}, link : Links \cup {Nowhere},
          of : Workspaces \cup {Nowhere}, account : Accounts \cup {NoAccount}, token : Tokens] :
     /\ c.at # "idle" => c.link \in Links /\ c.of \in Workspaces
     /\ c.at \in {"save", "subscribe"} => c.account \in Accounts}

\* The renewal scan goes only over accounts it saw active.
Scans ==
  {r \in [at : {"idle", "next", "ask", "expire", "save", "sync"}, todo : SUBSET Accounts,
          account : Accounts \cup {NoAccount}, token : Tokens,
          seen : [Accounts -> Statuses \cup {"none"}]] :
     /\ \A a \in r.todo : r.seen[a] = "ACTIVE"
     /\ r.at \in {"ask", "expire", "save", "sync"} =>
          r.account \in Accounts /\ r.seen[r.account] = "ACTIVE"}

SendSteps ==
  {"idle", "check", "credentials", "call", "clear", "activate", "count", "ttl", "trip", "flag"}

\* A send under way saw an account that had its credentials.
Sends == [at : SendSteps, token : Tokens, gone : {FALSE}, count : 0..Threshold]

Requests ==
  {d \in [at : {"idle", "disconnect", "sync"}, account : Accounts \cup {NoAccount}] :
     d.at # "idle" => d.account \in Accounts}

Rows == [status : Statuses, owner : Workspaces, token : Tokens, due : BOOLEAN]
Breakers == [fails : 0..Threshold, ttl : BOOLEAN, open : BOOLEAN, cut : BOOLEAN]
LinkStates == [of : Workspaces \cup {Nowhere}, used : BOOLEAN]

\* No account was revoked more often than there were revocations.
Counted ==
  /\ spent \in [DOMAIN Bound -> Nat]
  /\ spent["revocation"] <= MaxRevocations
  /\ grant \in [Accounts -> Nat]
  /\ \A a \in Accounts : grant[a] <= spent["revocation"]

Typed ==
  /\ row \in [Accounts -> Rows]
  /\ breaker \in [Accounts -> Breakers]
  /\ link \in [Links -> LinkStates]
  /\ flow \in [Flows -> Callbacks]
  /\ renewal \in Scans
  /\ sender \in [Senders -> Sends]
  /\ desk \in [Users -> Requests]
  /\ up \in [Accounts -> BOOLEAN]
  /\ hears \subseteq Accounts
  /\ Counted

IInv == Typed /\ StreaksExpire

-----------------------------------------------------------------------------
(* Types.                                                                  *)

(* A bounded step moves one counter up, below its bound.                   *)
LEMMA SpendCounts ==
  ASSUME Typed, NEW b \in DOMAIN Bound, Spend(b)
  PROVE  /\ spent' \in [DOMAIN Bound -> Nat]
         /\ spent'["revocation"] = IF b = "revocation" THEN spent["revocation"] + 1
                                                       ELSE spent["revocation"]
         /\ b = "revocation" => spent["revocation"] < MaxRevocations
<1>1. spent \in [DOMAIN Bound -> Nat] /\ "revocation" \in DOMAIN Bound
  BY DEF Typed, Counted, Bound
<1>2. spent' = [spent EXCEPT ![b] = spent[b] + 1]
  BY DEF Spend
<1>3. spent[b] < Bound[b]
  BY DEF Spend
<1>4. Bound["revocation"] = MaxRevocations
  BY DEF Bound
<1>. QED BY <1>1, <1>2, <1>3, <1>4

LEMMA GrantTyping ==
  ASSUME Typed
  PROVE  grant \in [Accounts -> Tokens] /\ 0 \in Tokens
<1>1. MaxRevocations \in Nat
  BY AccountsAssumption
<1>2. spent["revocation"] \in Nat /\ spent["revocation"] <= MaxRevocations
  BY DEF Typed, Counted, Bound
<1>3. PICK n : n = spent["revocation"]
  OBVIOUS
<1>4. ASSUME NEW a \in Accounts PROVE grant[a] \in Tokens
  <2>1. grant[a] \in Nat /\ grant[a] <= n /\ n \in Nat /\ n <= MaxRevocations
    BY <1>2, <1>3 DEF Typed, Counted
  <2>. QED BY <1>1, <2>1 DEF Tokens
<1>5. grant \in [Accounts -> Nat]
  BY DEF Typed, Counted
<1>. QED BY <1>1, <1>4, <1>5 DEF Tokens

\* A record at rest.
LEMMA AtRest ==
  /\ NoFlow \in Callbacks /\ NoDesk \in Requests /\ NoSend \in Sends /\ NoScan \in Scans
  /\ NoFlow.at = "idle" /\ NoDesk.at = "idle" /\ NoSend.at = "idle" /\ NoScan.at = "idle"
<1> USE AccountsAssumption
<1>1. NoFlow \in Callbacks /\ NoDesk \in Requests /\ NoSend \in Sends
  BY DEF NoFlow, NoDesk, NoSend, Callbacks, Requests, Sends, SendSteps, Tokens
<1>2. NoScan \in Scans
  <2>1. [a \in Accounts |-> "none"] \in [Accounts -> Statuses \cup {"none"}]
    OBVIOUS
  <2>. QED BY <2>1 DEF NoScan, Scans, Tokens
<1>. QED BY <1>1, <1>2 DEF NoFlow, NoDesk, NoSend, NoScan

(* Connecting: each step of a callback hands on what the next one needs.   *)
LEMMA ConnectTyping ==
  ASSUME Typed,
         \/ \E s \in Links, w \in Workspaces : CreateAuthorizationUrl(s, w)
         \/ \E s \in Links : LinkExpires(s)
         \/ \E f \in Flows, s \in Links : Callback(f, s)
         \/ \E f \in Flows : Connecting(f)
  PROVE  Typed'
<1> USE DEF instagram
<1>0. /\ row \in [Accounts -> Rows] /\ link \in [Links -> LinkStates]
      /\ flow \in [Flows -> Callbacks] /\ hears \subseteq Accounts
      /\ grant \in [Accounts -> Tokens]
  BY GrantTyping DEF Typed
<1>1. ASSUME link' \in [Links -> LinkStates], flow' \in [Flows -> Callbacks],
             row' \in [Accounts -> Rows], hears' \subseteq Accounts,
             UNCHANGED <<breaker, renewal, sender, desk, up, grant, spent>>
      PROVE  Typed'
  BY <1>1 DEF Typed, Counted
<1>2. ASSUME NEW s \in Links, NEW w \in Workspaces, CreateAuthorizationUrl(s, w)
      PROVE  Typed'
  <2>1. link' \in [Links -> LinkStates]
    BY <1>0, <1>2 DEF CreateAuthorizationUrl, LinkStates
  <2>2. Counted'
    <3>1. Spend("request") /\ grant' = grant /\ "request" \in DOMAIN Bound
      BY <1>2 DEF CreateAuthorizationUrl, Bound
    <3>. QED BY <3>1, SpendCounts DEF Typed, Counted
  <2>. QED BY <1>2, <2>1, <2>2 DEF CreateAuthorizationUrl, Typed
<1>3. ASSUME NEW s \in Links, LinkExpires(s)
      PROVE  Typed'
  BY <1>0, <1>1, <1>3 DEF LinkExpires, LinkStates
<1>4. ASSUME NEW f \in Flows, NEW s \in Links, Callback(f, s)
      PROVE  Typed'
  <2>1. [NoFlow EXCEPT !.at = "drop", !.link = s, !.of = link[s].of] \in Callbacks
    BY <1>0, <1>4, AtRest DEF Callback, Callbacks, LinkStates
  <2>2. flow' \in [Flows -> Callbacks]
    BY <1>0, <1>4, <2>1 DEF Callback
  <2>. QED BY <1>0, <1>1, <1>4, <2>2 DEF Callback
<1>5. ASSUME NEW f \in Flows, DropState(f)
      PROVE  Typed'
  <2>1. PICK s : s = flow[f].link
    OBVIOUS
  <2>2. flow[f] \in Callbacks /\ flow[f].at = "drop"
    BY <1>0, <1>5 DEF DropState
  <2>3. s \in Links
    BY <2>1, <2>2 DEF Callbacks
  <2>4. link' \in [Links -> LinkStates]
    <3>1. link' = [link EXCEPT ![s].of = Nowhere]
      BY <1>5, <2>1 DEF DropState
    <3>. QED BY <1>0, <2>3, <3>1 DEF LinkStates
  <2>5. [flow[f] EXCEPT !.at = "exchange"] \in Callbacks
    BY <2>2 DEF Callbacks
  <2>6. flow' \in [Flows -> Callbacks]
    BY <1>0, <1>5, <2>5 DEF DropState
  <2>. QED BY <1>0, <1>1, <1>5, <2>4, <2>6 DEF DropState
<1>6. ASSUME NEW f \in Flows, NEW a \in Lively, Exchange(f, a)
      PROVE  Typed'
  <2>1. PICK s : s = flow[f].link
    OBVIOUS
  <2>2. flow[f] \in Callbacks /\ flow[f].at = "exchange" /\ a \in Accounts /\ grant[a] \in Tokens
    BY <1>0, <1>6, AccountsAssumption DEF Exchange
  <2>3. s \in Links
    BY <2>1, <2>2 DEF Callbacks
  <2>4. link' \in [Links -> LinkStates]
    <3>1. link' = [link EXCEPT ![s].used = TRUE]
      BY <1>6, <2>1 DEF Exchange
    <3>. QED BY <1>0, <2>3, <3>1 DEF LinkStates
  <2>5. [flow[f] EXCEPT !.at = "save", !.account = a, !.token = grant[a]] \in Callbacks
    BY <2>2 DEF Callbacks
  <2>6. flow' \in [Flows -> Callbacks]
    BY <1>0, <1>6, <2>5, AtRest DEF Exchange
  <2>. QED BY <1>0, <1>1, <1>6, <2>4, <2>6 DEF Exchange
<1>7. ASSUME NEW f \in Flows, SaveAccount(f)
      PROVE  Typed'
  <2>1. PICK c : c = flow[f]
    OBVIOUS
  <2>2. c \in Callbacks /\ c.at = "save"
    BY <1>0, <1>7, <2>1 DEF SaveAccount
  <2>3. [status |-> "ACTIVE", owner |-> c.of, token |-> c.token, due |-> FALSE] \in Rows
    BY <2>2 DEF Callbacks, Rows, Statuses
  <2>4. row' = [row EXCEPT ![c.account] =
                  [status |-> "ACTIVE", owner |-> c.of, token |-> c.token, due |-> FALSE]]
        /\ flow' = [flow EXCEPT ![f].at = "subscribe"]
    BY <1>7, <2>1 DEF SaveAccount
  <2>5. [c EXCEPT !.at = "subscribe"] \in Callbacks
    BY <2>2 DEF Callbacks
  <2>6. row' \in [Accounts -> Rows] /\ flow' \in [Flows -> Callbacks]
    BY <1>0, <2>1, <2>3, <2>4, <2>5
  <2>. QED BY <1>0, <1>1, <1>7, <2>6 DEF SaveAccount
<1>8. ASSUME NEW f \in Flows, Subscribe(f)
      PROVE  Typed'
  <2>1. flow[f].account \in Accounts
    BY <1>0, <1>8 DEF Subscribe, Callbacks
  <2>2. hears' \subseteq Accounts
    BY <1>0, <1>8, <2>1 DEF Subscribe, Subscribed
  <2>3. flow' \in [Flows -> Callbacks]
    BY <1>0, <1>8, AtRest DEF Subscribe
  <2>. QED BY <1>0, <1>1, <1>8, <2>2, <2>3 DEF Subscribe
<1>. QED BY <1>2, <1>3, <1>4, <1>5, <1>6, <1>7, <1>8 DEF Connecting

(* Users and the renewal job.                                              *)
LEMMA RequestTyping ==
  ASSUME Typed,
         \/ \E u \in Users, w \in Workspaces, a \in Lively, step \in {"disconnect", "sync"} :
              Request(u, w, a, step)
         \/ \E u \in Users : Disconnect(u) \/ SyncProfile(u)
  PROVE  Typed'
<1> USE DEF instagram
<1>0. /\ row \in [Accounts -> Rows] /\ desk \in [Users -> Requests] /\ hears \subseteq Accounts
  BY DEF Typed
<1>1. ASSUME NEW u \in Users, NEW w \in Workspaces, NEW a \in Lively,
             NEW step \in {"disconnect", "sync"}, Request(u, w, a, step)
      PROVE  Typed'
  <2>1. desk' \in [Users -> Requests]
    BY <1>0, <1>1, AccountsAssumption DEF Request, Requests
  <2>2. Counted'
    <3>1. Spend("request") /\ grant' = grant /\ "request" \in DOMAIN Bound
      BY <1>1 DEF Request, Bound
    <3>. QED BY <3>1, SpendCounts DEF Typed, Counted
  <2>. QED BY <1>1, <2>1, <2>2 DEF Request, Typed
<1>2. ASSUME NEW u \in Users, Disconnect(u)
      PROVE  Typed'
  <2>1. desk[u].account \in Accounts
    BY <1>0, <1>2 DEF Disconnect, Requests
  <2>2. row' \in [Accounts -> Rows] /\ desk' \in [Users -> Requests]
    BY <1>0, <1>2, <2>1, AtRest DEF Disconnect, Rows, Statuses
  <2>. QED BY <1>2, <2>2 DEF Disconnect, Typed, Counted
<1>3. ASSUME NEW u \in Users, SyncProfile(u)
      PROVE  Typed'
  <2>1. desk[u].account \in Accounts
    BY <1>0, <1>3 DEF SyncProfile, Requests
  <2>2. hears' \subseteq Accounts /\ desk' \in [Users -> Requests]
    BY <1>0, <1>3, <2>1, AtRest DEF SyncProfile
  <2>. QED BY <1>3, <2>2 DEF SyncProfile, Typed, Counted
<1>. QED BY <1>1, <1>2, <1>3

LEMMA RenewalTyping ==
  ASSUME Typed, Scan \/ Renewing
  PROVE  Typed'
<1> USE DEF instagram
<1>0. /\ row \in [Accounts -> Rows] /\ renewal \in Scans /\ hears \subseteq Accounts
  BY DEF Typed
<1>1. ASSUME renewal' \in Scans, row' \in [Accounts -> Rows], hears' \subseteq Accounts,
             UNCHANGED <<breaker, link, flow, sender, desk, up, grant, spent>>
      PROVE  Typed'
  BY <1>1 DEF Typed, Counted
<1>2. NextAccount \in Scans
  <2>1. 0 \in Tokens
    BY AccountsAssumption DEF Tokens
  <2>. QED BY <1>0, <2>1, AtRest DEF NextAccount, Scans
<1>3. CASE Scan
  <2>1. PICK seen : seen = [a \in Accounts |-> IF a \in NeedingRefresh
                                                THEN row[a].status ELSE "none"]
    OBVIOUS
  <2>2. /\ seen \in [Accounts -> Statuses \cup {"none"}]
        /\ \A a \in NeedingRefresh \cap Accounts : seen[a] = row[a].status
    BY <1>0, <2>1 DEF Rows
  <2>3. NeedingRefresh \subseteq Accounts /\ \A a \in NeedingRefresh : seen[a] = "ACTIVE"
    BY <2>2 DEF NeedingRefresh
  <2>4. renewal' = [NoScan EXCEPT !.at = "next", !.todo = NeedingRefresh, !.seen = seen]
    BY <1>3, <2>1 DEF Scan
  <2>5. renewal' \in Scans
    BY <2>2, <2>3, <2>4, AtRest DEF Scans
  <2>. QED BY <1>0, <1>1, <1>3, <2>5 DEF Scan
<1>4. ASSUME NEW a \in Accounts, RefreshNext(a)
      PROVE  Typed'
  <2>1. row[a].token \in Tokens
    BY <1>0 DEF Rows
  <2>2. PICK others : others = renewal.todo \ {a}
    OBVIOUS
  <2>3. a \in renewal.todo /\ others \subseteq renewal.todo
    BY <1>4, <2>2 DEF RefreshNext
  <2>4. renewal' = IF a \in Unreadable
          THEN IF others = {} THEN NoScan ELSE [renewal EXCEPT !.todo = others]
          ELSE [renewal EXCEPT !.at = "ask", !.todo = others, !.account = a, !.token = row[a].token]
    BY <1>4, <2>2 DEF RefreshNext
  <2>5. renewal' \in Scans
    <3>1. renewal.at = "next"
      BY <1>4 DEF RefreshNext
    <3>. QED BY <1>0, <2>1, <2>3, <2>4, <3>1, AtRest DEF Scans
  <2>. QED BY <1>0, <1>1, <1>4, <2>5 DEF RefreshNext
<1>5. CASE AskForToken
  <2>1. renewal' \in Scans
    BY <1>0, <1>2, <1>5 DEF AskForToken, Scans
  <2>. QED BY <1>0, <1>1, <1>5, <2>1 DEF AskForToken
<1>6. CASE MarkExpired
  <2>1. renewal.account \in Accounts
    BY <1>0, <1>6 DEF MarkExpired, Scans
  <2>2. row' \in [Accounts -> Rows]
    BY <1>0, <1>6, <2>1 DEF MarkExpired, Rows, Statuses
  <2>. QED BY <1>0, <1>1, <1>2, <1>6, <2>2 DEF MarkExpired
<1>7. CASE SaveToken
  <2>1. PICK a, token : a = renewal.account /\ token = renewal.token
    OBVIOUS
  <2>2. a \in Accounts /\ token \in Tokens
    BY <1>0, <1>7, <2>1 DEF SaveToken, Scans
  <2>3. row' = [row EXCEPT ![a].token = token, ![a].due = FALSE]
    BY <1>7, <2>1 DEF SaveToken
  <2>4. row' \in [Accounts -> Rows]
    BY <1>0, <2>2, <2>3 DEF Rows
  <2>5. renewal' \in Scans
    BY <1>0, <1>7 DEF SaveToken, Scans
  <2>. QED BY <1>0, <1>1, <1>7, <2>4, <2>5 DEF SaveToken
<1>8. CASE RefreshProfile
  <2>1. renewal.account \in Accounts
    BY <1>0, <1>8 DEF RefreshProfile, Scans
  <2>2. hears' \subseteq Accounts
    BY <1>0, <1>8, <2>1 DEF RefreshProfile
  <2>. QED BY <1>0, <1>1, <1>2, <1>8, <2>2 DEF RefreshProfile
<1>. QED BY <1>3, <1>4, <1>5, <1>6, <1>7, <1>8 DEF Renewing

(* Sends: the account a sender works for has a row and a breaker.          *)
LEMMA SendTyping ==
  ASSUME Typed, NEW s \in Senders, TakeSend(s) \/ Attempt(s) \/ Interrupted(s)
  PROVE  Typed'
<1> USE DEF instagram, At, Go, EndSend
<1>0. /\ row \in [Accounts -> Rows] /\ breaker \in [Accounts -> Breakers]
      /\ sender \in [Senders -> Sends]
  BY DEF Typed
<1>1. PICK a : a = OnAccount[s]
  OBVIOUS
<1>2. a \in Accounts /\ row[a] \in Rows /\ breaker[a] \in Breakers /\ sender[s] \in Sends
  BY <1>0, <1>1, AccountsAssumption
<1>3. ASSUME sender' \in [Senders -> Sends], row' \in [Accounts -> Rows],
             breaker' \in [Accounts -> Breakers],
             UNCHANGED <<link, flow, renewal, desk, up, hears, grant, spent>>
      PROVE  Typed'
  BY <1>3 DEF Typed, Counted
<1>5. ASSUME NEW step \in SendSteps,
             sender' = [sender EXCEPT ![s].at = step]
      PROVE  sender' \in [Senders -> Sends]
  <2>1. [sender[s] EXCEPT !.at = step] \in Sends
    BY <1>2, <1>5 DEF Sends
  <2>. QED BY <1>0, <1>5, <2>1
<1>6. CASE TakeSend(s) \/ IsOpen(s)
  <2>1. PICK step \in {"check", "idle", "credentials"} : sender' = [sender EXCEPT ![s].at = step]
    BY <1>6 DEF TakeSend, IsOpen
  <2>2. sender' \in [Senders -> Sends]
    BY <1>5, <2>1 DEF SendSteps
  <2>. QED BY <1>0, <1>3, <1>6, <2>2 DEF TakeSend, IsOpen
<1>13. CASE GetSendCredentials(s)
  <2>1. CASE HasCredentials(a)
    <3>1. row[a].status # "DISCONNECTED" /\ row[a].token \in Tokens
      BY <1>2, <2>1 DEF HasCredentials, Blocked, Rows
    <3>2. PICK gone : gone = (row[a].status = "DISCONNECTED")
      OBVIOUS
    <3>3. [NoSend EXCEPT !.at = "call", !.token = row[a].token, !.gone = gone] \in Sends
      BY <3>1, <3>2, AtRest DEF Sends, SendSteps
    <3>4. sender' = [sender EXCEPT ![s] = [NoSend EXCEPT
                       !.at = "call", !.token = row[a].token, !.gone = gone]]
      BY <1>1, <1>13, <2>1, <3>2 DEF GetSendCredentials
    <3>5. sender' \in [Senders -> Sends]
      BY <1>0, <3>3, <3>4
    <3>. QED BY <1>0, <1>3, <1>13, <3>5 DEF GetSendCredentials
  <2>2. CASE ~HasCredentials(a)
    <3>1. sender' = [sender EXCEPT ![s] = NoSend]
      BY <1>1, <1>13, <2>2 DEF GetSendCredentials
    <3>2. sender' \in [Senders -> Sends]
      BY <1>0, <3>1, AtRest
    <3>. QED BY <1>0, <1>3, <1>13, <3>2 DEF GetSendCredentials
  <2>. QED BY <2>1, <2>2
<1>14. CASE Interrupted(s)
  <2>1. PICK b, cut : b = breaker[a] /\ cut = (b.cut \/ (At(s, "ttl") /\ b.fails > 0 /\ ~b.ttl))
    OBVIOUS
  <2>2. breaker' = [breaker EXCEPT ![a].cut = cut] /\ cut \in BOOLEAN
    BY <1>1, <1>2, <1>14, <2>1 DEF Interrupted, Breakers
  <2>3. breaker' \in [Accounts -> Breakers]
    BY <1>0, <1>2, <2>2 DEF Breakers
  <2>4. sender' \in [Senders -> Sends]
    <3>1. sender' = [sender EXCEPT ![s] = NoSend] \/ sender' = [sender EXCEPT ![s].at = "count"]
      BY <1>14 DEF Interrupted
    <3>2. [sender[s] EXCEPT !.at = "count"] \in Sends
      BY <1>2 DEF Sends, SendSteps
    <3>. QED BY <1>0, <3>1, <3>2, AtRest
  <2>5. Counted'
    <3>1. Spend("mishap") /\ grant' = grant /\ "mishap" \in DOMAIN Bound
      BY <1>14 DEF Interrupted, Bound
    <3>. QED BY <3>1, SpendCounts DEF Typed, Counted
  <2>. QED BY <1>0, <1>14, <2>3, <2>4, <2>5 DEF Interrupted, Typed
<1>7. CASE CallGraphApi(s)
  <2>1. PICK step : step = IF Works(OnAccount[s], sender[s].token) THEN "clear" ELSE "count"
    OBVIOUS
  <2>2. sender' = [sender EXCEPT ![s].at = step]
    BY <1>7, <2>1 DEF CallGraphApi
  <2>3. sender' \in [Senders -> Sends]
    BY <1>5, <2>1, <2>2 DEF SendSteps
  <2>. QED BY <1>0, <1>3, <1>7, <2>3 DEF CallGraphApi
<1>8. CASE ClearBreaker(s)
  <2>1. sender' \in [Senders -> Sends]
    BY <1>5, <1>8 DEF ClearBreaker, SendSteps
  <2>2. Closed \in Breakers
    BY AccountsAssumption DEF Breakers, Closed
  <2>3. breaker' \in [Accounts -> Breakers]
    BY <1>0, <1>1, <1>8, <2>2 DEF ClearBreaker
  <2>. QED BY <1>0, <1>3, <1>8, <2>1, <2>3 DEF ClearBreaker
<1>9. CASE Activate(s) \/ Flag(s)
  <2>1. PICK st \in {"ACTIVE", "RATE_LIMITED"} : row' = [row EXCEPT ![a].status = st]
    BY <1>1, <1>9 DEF Activate, Flag
  <2>2. row' \in [Accounts -> Rows]
    BY <1>0, <1>2, <2>1 DEF Rows, Statuses
  <2>3. sender' \in [Senders -> Sends]
    BY <1>0, <1>9, AtRest DEF Activate, Flag
  <2>. QED BY <1>0, <1>3, <1>9, <2>2, <2>3 DEF Activate, Flag
<1>10. CASE CountFailure(s)
  <2>1. PICK n : n = IF breaker[a].fails = Threshold THEN Threshold ELSE breaker[a].fails + 1
    OBVIOUS
  <2>2. n \in 0..Threshold
    BY <1>2, <2>1, AccountsAssumption DEF Breakers
  <2>3. PICK step : step = IF n = 1 THEN "ttl" ELSE AfterCount(n)
    OBVIOUS
  <2>4. step \in {"ttl", "trip", "idle"}
    BY <2>3 DEF AfterCount
  <2>5. /\ sender[s].at = "count" /\ breaker' = [breaker EXCEPT ![a].fails = n]
        /\ sender' = [sender EXCEPT ![s].count = n, ![s].at = step]
    BY <1>1, <1>10, <2>1, <2>3 DEF CountFailure
  <2>6. [sender[s] EXCEPT !.count = n, !.at = step] \in Sends
    BY <1>2, <2>2, <2>4, <2>5 DEF Sends, SendSteps
  <2>7. sender' \in [Senders -> Sends] /\ breaker' \in [Accounts -> Breakers]
    BY <1>0, <1>2, <2>2, <2>5, <2>6 DEF Breakers
  <2>. QED BY <1>0, <1>3, <1>10, <2>7 DEF CountFailure
<1>11. CASE ExpireCounter(s)
  <2>1. PICK step : step = AfterCount(sender[s].count)
    OBVIOUS
  <2>2. step \in {"trip", "idle"} /\ sender' = [sender EXCEPT ![s].at = step]
    BY <1>11, <2>1 DEF ExpireCounter, AfterCount
  <2>3. sender' \in [Senders -> Sends]
    BY <1>5, <2>2 DEF SendSteps
  <2>4. PICK held : held = (breaker[a].fails > 0)
    OBVIOUS
  <2>5. breaker' = [breaker EXCEPT ![a].ttl = held, ![a].cut = FALSE] /\ held \in BOOLEAN
    BY <1>1, <1>11, <2>4 DEF ExpireCounter
  <2>6. breaker' \in [Accounts -> Breakers]
    BY <1>0, <1>2, <2>5 DEF Breakers
  <2>. QED BY <1>0, <1>3, <1>11, <2>3, <2>6 DEF ExpireCounter
<1>12. CASE Trip(s)
  <2>1. sender' \in [Senders -> Sends]
    BY <1>5, <1>12 DEF Trip, SendSteps
  <2>2. breaker' \in [Accounts -> Breakers]
    BY <1>0, <1>1, <1>12 DEF Trip, Breakers
  <2>. QED BY <1>0, <1>3, <1>12, <2>1, <2>2 DEF Trip
<1>. QED BY <1>6, <1>7, <1>8, <1>9, <1>10, <1>11, <1>12, <1>13, <1>14 DEF Attempt

(* Redis, time and Instagram.                                              *)
LEMMA WorldTyping ==
  ASSUME Typed,
         \/ \E a \in Accounts : CooldownEnds(a) \/ StreakExpires(a) \/ TokenNears(a)
         \/ \E a \in Lively : Outage(a) \/ Recovery(a) \/ Revoke(a)
  PROVE  Typed'
<1> USE DEF instagram
<1>0. /\ row \in [Accounts -> Rows] /\ breaker \in [Accounts -> Breakers]
      /\ up \in [Accounts -> BOOLEAN] /\ hears \subseteq Accounts
  BY DEF Typed
<1>1. ASSUME NEW a \in Accounts, CooldownEnds(a) \/ StreakExpires(a)
      PROVE  Typed'
  <2>1. \/ breaker' = [breaker EXCEPT ![a].open = FALSE]
        \/ breaker' = [breaker EXCEPT ![a].fails = 0, ![a].ttl = FALSE]
    BY <1>1 DEF CooldownEnds, StreakExpires
  <2>2. breaker[a] \in Breakers /\ 0 \in 0..Threshold
    BY <1>0, AccountsAssumption
  <2>3. CASE breaker' = [breaker EXCEPT ![a].open = FALSE]
    <3>1. [breaker[a] EXCEPT !.open = FALSE] \in Breakers
      BY <2>2 DEF Breakers
    <3>2. breaker' \in [Accounts -> Breakers]
      BY <1>0, <2>3, <3>1
    <3>. QED BY <1>1, <3>2 DEF CooldownEnds, StreakExpires, Typed, Counted
  <2>4. CASE breaker' = [breaker EXCEPT ![a].fails = 0, ![a].ttl = FALSE]
    <3>1. [breaker[a] EXCEPT !.fails = 0, !.ttl = FALSE] \in Breakers
      BY <2>2 DEF Breakers
    <3>2. breaker' \in [Accounts -> Breakers]
      BY <1>0, <2>4, <3>1
    <3>. QED BY <1>1, <3>2 DEF CooldownEnds, StreakExpires, Typed, Counted
  <2>. QED BY <2>1, <2>3, <2>4
<1>2. ASSUME NEW a \in Accounts, TokenNears(a)
      PROVE  Typed'
  <2>1. row' \in [Accounts -> Rows]
    BY <1>0, <1>2 DEF TokenNears, Rows
  <2>. QED BY <1>2, <2>1 DEF TokenNears, Typed, Counted
<1>3. ASSUME NEW a \in Lively, Outage(a)
      PROVE  Typed'
  <2>1. up' \in [Accounts -> BOOLEAN]
    BY <1>0, <1>3 DEF Outage
  <2>2. Counted'
    <3>1. Spend("outage") /\ grant' = grant /\ "outage" \in DOMAIN Bound
      BY <1>3 DEF Outage, Bound
    <3>. QED BY <3>1, SpendCounts DEF Typed, Counted
  <2>. QED BY <1>3, <2>1, <2>2 DEF Outage, Typed
<1>4. ASSUME NEW a \in Lively, Recovery(a)
      PROVE  Typed'
  BY <1>0, <1>4 DEF Recovery, Typed, Counted
<1>5. ASSUME NEW a \in Lively, Revoke(a)
      PROVE  Typed'
  <2>1. a \in Accounts /\ Spend("revocation") /\ "revocation" \in DOMAIN Bound
    BY <1>5, AccountsAssumption DEF Revoke, Bound
  <2>2. PICK n : n = spent["revocation"]
    OBVIOUS
  <2>3. n \in Nat /\ n < MaxRevocations /\ MaxRevocations \in Nat
    BY <2>1, <2>2, SpendCounts, AccountsAssumption DEF Typed, Counted, Bound
  <2>4. spent' \in [DOMAIN Bound -> Nat] /\ spent'["revocation"] = n + 1
    BY <2>1, <2>2, SpendCounts
  <2>5. grant \in [Accounts -> Nat] /\ \A o \in Accounts : grant[o] <= n
    BY <2>2 DEF Typed, Counted
  <2>6. grant' = [grant EXCEPT ![a] = grant[a] + 1]
    BY <1>5 DEF Revoke
  <2>7. grant' \in [Accounts -> Nat] /\ \A o \in Accounts : grant'[o] <= n + 1
    BY <2>1, <2>3, <2>5, <2>6
  <2>8. Counted'
    BY <2>3, <2>4, <2>7 DEF Counted
  <2>. QED BY <1>0, <1>5, <2>8 DEF Revoke, Typed
<1>. QED BY <1>1, <1>2, <1>3, <1>4, <1>5

-----------------------------------------------------------------------------
(* Failure streaks.                                                        *)

(* A counter gets its TTL from the send that set it to 1: only that send   *)
(* takes the step out of "ttl", and it sets the TTL there.                 *)
LEMMA StreaksKept ==
  ASSUME Typed, StreaksExpire, Next
  PROVE  StreaksExpire'
<1> USE DEF instagram, At, Go, EndSend
<1>0. /\ breaker \in [Accounts -> Breakers] /\ sender \in [Senders -> Sends]
      /\ \A s \in Senders : OnAccount[s] \in Accounts
  BY AccountsAssumption DEF Typed
<1>1. CASE UNCHANGED <<breaker, sender>>
  BY <1>1 DEF StreaksExpire
<1>2. ASSUME NEW s \in Senders, breaker' = breaker, ~At(s, "ttl"),
             \A o \in Senders \ {s} : sender'[o] = sender[o]
      PROVE  StreaksExpire'
  BY <1>2 DEF StreaksExpire
<1>3. ASSUME NEW s \in Senders,
             \/ TakeSend(s) \/ IsOpen(s) \/ GetSendCredentials(s)
             \/ CallGraphApi(s) \/ Activate(s) \/ Flag(s)
      PROVE  StreaksExpire'
  <2>1. /\ breaker' = breaker /\ ~At(s, "ttl")
        /\ \A o \in Senders \ {s} : sender'[o] = sender[o]
    BY <1>0, <1>3 DEF TakeSend, IsOpen, GetSendCredentials, CallGraphApi, Activate, Flag
  <2>. QED BY <1>2, <2>1
<1>4. ASSUME NEW s \in Senders, ClearBreaker(s) \/ Trip(s)
      PROVE  StreaksExpire'
  <2>1. PICK a : a = OnAccount[s]
    OBVIOUS
  <2>2. /\ ~At(s, "ttl") /\ \A o \in Senders \ {s} : sender'[o] = sender[o]
        /\ \/ breaker' = [breaker EXCEPT ![a] = Closed]
           \/ breaker' = [breaker EXCEPT ![a].open = TRUE]
    BY <1>0, <1>4, <2>1 DEF ClearBreaker, Trip
  <2>3. ASSUME NEW b \in Accounts, breaker'[b].fails > 0, ~breaker'[b].ttl
        PROVE  breaker[b].fails > 0 /\ ~breaker[b].ttl /\ breaker'[b].cut = breaker[b].cut
    BY <1>0, <2>2, <2>3 DEF Breakers, Closed
  <2>. QED BY <2>2, <2>3 DEF StreaksExpire
<1>5. ASSUME NEW s \in Senders, CountFailure(s)
      PROVE  StreaksExpire'
  <2>1. PICK a, n : a = OnAccount[s]
                    /\ n = IF breaker[a].fails = Threshold THEN Threshold ELSE breaker[a].fails + 1
    OBVIOUS
  <2>2. PICK step : step = IF n = 1 THEN "ttl" ELSE AfterCount(n)
    OBVIOUS
  <2>3. /\ ~At(s, "ttl") /\ breaker' = [breaker EXCEPT ![a].fails = n]
        /\ sender' = [sender EXCEPT ![s].count = n, ![s].at = step]
    BY <1>5, <2>1, <2>2 DEF CountFailure
  <2>4. \A o \in Senders \ {s} : sender'[o] = sender[o]
    BY <1>0, <2>3
  <2>5. sender'[s].at = step
    BY <1>0, <2>3 DEF Sends
  <2>6. a \in Accounts /\ breaker[a].fails \in 0..Threshold
    BY <1>0, <2>1 DEF Breakers
  <2>7. n = 1 \/ breaker[a].fails > 0
    BY <2>1, <2>6, AccountsAssumption
  <2>8. \A b \in Accounts : /\ breaker'[b].ttl = breaker[b].ttl
                            /\ breaker'[b].cut = breaker[b].cut
                            /\ b # a => breaker'[b] = breaker[b]
    BY <1>0, <2>3, <2>6 DEF Breakers
  <2>9. ASSUME NEW b \in Accounts, breaker'[b].fails > 0, ~breaker'[b].ttl
        PROVE  breaker'[b].cut \/ \E o \in Senders : OnAccount[o] = b /\ sender'[o].at = "ttl"
    <3>1. CASE b = a /\ n = 1
      BY <2>1, <2>2, <2>5, <3>1
    <3>2. CASE b # a \/ n # 1
      <4>1. breaker[b].fails > 0 /\ ~breaker[b].ttl
        BY <2>7, <2>8, <2>9, <3>2
      <4>2. CASE breaker[b].cut
        BY <2>8, <4>2
      <4>3. CASE ~breaker[b].cut
        <5>1. PICK o \in Senders : OnAccount[o] = b /\ sender[o].at = "ttl"
          BY <4>1, <4>3 DEF StreaksExpire
        <5>. QED BY <2>3, <2>4, <5>1
      <4>. QED BY <4>2, <4>3
    <3>. QED BY <3>1, <3>2
  <2>. QED BY <2>9 DEF StreaksExpire
<1>6. ASSUME NEW s \in Senders, ExpireCounter(s)
      PROVE  StreaksExpire'
  <2>1. PICK a, held : a = OnAccount[s] /\ held = (breaker[a].fails > 0)
    OBVIOUS
  <2>2. breaker' = [breaker EXCEPT ![a].ttl = held, ![a].cut = FALSE]
    BY <1>6, <2>1 DEF ExpireCounter
  <2>3. \A o \in Senders \ {s} : sender'[o] = sender[o]
    BY <1>0, <1>6 DEF ExpireCounter
  <2>4. a \in Accounts
    BY <1>0, <2>1
  <2>5. /\ breaker'[a].fails = breaker[a].fails /\ breaker'[a].ttl = held
        /\ \A b \in Accounts \ {a} : breaker'[b] = breaker[b]
    BY <1>0, <2>2, <2>4 DEF Breakers
  <2>6. ASSUME NEW b \in Accounts, breaker'[b].fails > 0, ~breaker'[b].ttl
        PROVE  breaker'[b].cut \/ \E o \in Senders : OnAccount[o] = b /\ sender'[o].at = "ttl"
    <3>1. b # a
      BY <2>1, <2>5, <2>6
    <3>2. CASE breaker[b].cut
      BY <2>5, <3>1, <3>2
    <3>3. CASE ~breaker[b].cut
      <4>1. PICK o \in Senders : OnAccount[o] = b /\ sender[o].at = "ttl"
        BY <2>5, <2>6, <3>1, <3>3 DEF StreaksExpire
      <4>. QED BY <2>1, <2>3, <3>1, <4>1
    <3>. QED BY <3>2, <3>3
  <2>. QED BY <2>6 DEF StreaksExpire
<1>7. ASSUME NEW a \in Accounts, CooldownEnds(a) \/ StreakExpires(a)
      PROVE  StreaksExpire'
  <2>1. /\ sender' = sender
        /\ \/ breaker' = [breaker EXCEPT ![a].open = FALSE]
           \/ breaker' = [breaker EXCEPT ![a].fails = 0, ![a].ttl = FALSE]
    BY <1>7 DEF CooldownEnds, StreakExpires
  <2>2. ASSUME NEW b \in Accounts, breaker'[b].fails > 0, ~breaker'[b].ttl
        PROVE  breaker[b].fails > 0 /\ ~breaker[b].ttl /\ breaker'[b].cut = breaker[b].cut
    BY <1>0, <2>1, <2>2 DEF Breakers
  <2>. QED BY <2>1, <2>2 DEF StreaksExpire
<1>9. ASSUME NEW s \in Senders, Interrupted(s)
      PROVE  StreaksExpire'
  <2>1. PICK a, cut : /\ a = OnAccount[s]
                      /\ cut = \/ breaker[a].cut
                               \/ (At(s, "ttl") /\ breaker[a].fails > 0 /\ ~breaker[a].ttl)
    OBVIOUS
  <2>2. breaker' = [breaker EXCEPT ![a].cut = cut]
    BY <1>9, <2>1 DEF Interrupted
  <2>3. \A o \in Senders \ {s} : sender'[o] = sender[o]
    BY <1>0, <1>9 DEF Interrupted
  <2>4. a \in Accounts
    BY <1>0, <2>1
  <2>5. /\ \A b \in Accounts : breaker'[b].fails = breaker[b].fails /\ breaker'[b].ttl = breaker[b].ttl
        /\ \A b \in Accounts \ {a} : breaker'[b] = breaker[b]
        /\ breaker'[a].cut = cut
    BY <1>0, <2>2, <2>4 DEF Breakers
  <2>6. ASSUME NEW b \in Accounts, breaker'[b].fails > 0, ~breaker'[b].ttl
        PROVE  breaker'[b].cut \/ \E o \in Senders : OnAccount[o] = b /\ sender'[o].at = "ttl"
    <3>1. breaker[b].fails > 0 /\ ~breaker[b].ttl
      BY <2>5, <2>6
    <3>2. CASE breaker[b].cut
      BY <2>1, <2>5, <3>2
    <3>3. CASE ~breaker[b].cut
      <4>1. PICK o \in Senders : OnAccount[o] = b /\ sender[o].at = "ttl"
        BY <3>1, <3>3 DEF StreaksExpire
      <4>2. CASE o = s
        BY <2>1, <2>5, <3>1, <4>1, <4>2
      <4>3. CASE o # s
        BY <2>3, <4>1, <4>3
      <4>. QED BY <4>2, <4>3
    <3>. QED BY <3>2, <3>3
  <2>. QED BY <2>6 DEF StreaksExpire
<1>8. \/ UNCHANGED <<breaker, sender>>
      \/ \E s \in Senders : TakeSend(s) \/ Attempt(s) \/ Interrupted(s)
      \/ \E a \in Accounts : CooldownEnds(a) \/ StreakExpires(a)
  BY DEF Next, Connecting, Renewing, CreateAuthorizationUrl, LinkExpires, Callback, DropState,
         Exchange, SaveAccount, Subscribe, Request, Disconnect, SyncProfile, Scan, RefreshNext,
         AskForToken, MarkExpired, SaveToken, RefreshProfile, TokenNears, Outage, Recovery, Revoke
<1>. QED BY <1>1, <1>3, <1>4, <1>5, <1>6, <1>7, <1>8, <1>9 DEF Attempt

-----------------------------------------------------------------------------
(* The induction.                                                          *)

LEMMA InitIInv == Init => IInv
<1> SUFFICES ASSUME Init PROVE IInv
  OBVIOUS
<1> USE AccountsAssumption
<1>1. row \in [Accounts -> Rows]
  <2>1. row \in [Accounts -> [status : Statuses \ {"RATE_LIMITED"}, owner : Workspaces,
                             token : {0}, due : {FALSE}]]
    BY DEF Init
  <2>2. 0 \in Tokens
    BY DEF Tokens
  <2>. QED BY <2>1, <2>2 DEF Rows
<1>2. breaker \in [Accounts -> Breakers] /\ StreaksExpire
  BY DEF Init, Breakers, Closed, StreaksExpire
<1>3. link \in [Links -> LinkStates]
  BY DEF Init, LinkStates
<1>4. /\ flow \in [Flows -> Callbacks] /\ renewal \in Scans
      /\ sender \in [Senders -> Sends] /\ desk \in [Users -> Requests]
  BY AtRest DEF Init
<1>5. up \in [Accounts -> BOOLEAN] /\ hears \subseteq Accounts
  BY DEF Init
<1>6. Counted
  BY DEF Init, Counted, Bound
<1>. QED BY <1>1, <1>2, <1>3, <1>4, <1>5, <1>6 DEF IInv, Typed

LEMMA NextIInv == IInv /\ [Next]_vars => IInv'
<1> SUFFICES ASSUME IInv, [Next]_vars PROVE IInv'
  OBVIOUS
<1>1. Typed /\ StreaksExpire
  BY DEF IInv
<1>2. CASE Next
  <2>1. Typed'
    BY <1>1, <1>2, ConnectTyping, RequestTyping, RenewalTyping, SendTyping, WorldTyping DEF Next
  <2>. QED BY <1>1, <1>2, <2>1, StreaksKept DEF IInv
<1>3. CASE UNCHANGED vars
  BY <1>1, <1>3 DEF IInv, Typed, Counted, StreaksExpire, At, vars, instagram
<1>. QED BY <1>2, <1>3

THEOREM Inductive == Spec => []IInv
<1>. QED BY InitIInv, NextIInv, PTL DEF Spec

(* Rows, breakers, callbacks, the renewal and the sends keep their types;  *)
(* a token is never younger than the revocations there were.               *)
THEOREM AccountTypes == Spec => []TypeOK
<1>1. IInv => TypeOK
  <2> SUFFICES ASSUME IInv PROVE TypeOK
    OBVIOUS
  <2>1. Typed
    BY DEF IInv
  <2>2. grant \in [Accounts -> Tokens]
    BY <2>1, GrantTyping
  <2>3. DOMAIN spent = DOMAIN Bound
    BY <2>1 DEF Typed, Counted
  <2>4. /\ renewal.at \in {"idle", "next", "ask", "expire", "save", "sync"}
        /\ renewal.todo \subseteq Accounts
    BY <2>1 DEF Typed, Scans
  <2>5. \A f \in Flows : flow[f].at \in {"idle", "drop", "exchange", "save", "subscribe"}
    BY <2>1 DEF Typed, Callbacks
  <2>6. \A s \in Senders :
          sender[s].at \in {"idle", "check", "credentials", "call", "clear", "activate",
                            "count", "ttl", "trip", "flag"}
    BY <2>1 DEF Typed, Sends, SendSteps
  <2>7. \A u \in Users : desk[u].at \in {"idle", "disconnect", "sync"}
    BY <2>1 DEF Typed, Requests
  <2>. QED BY <2>1, <2>2, <2>3, <2>4, <2>5, <2>6, <2>7
           DEF TypeOK, Typed, Rows, Breakers, LinkStates
<1>. QED BY <1>1, Inductive, PTL

(* However sends overlap, fail and stop, a failure counter without a TTL   *)
(* is about to be given one, or the send that was to do so was cut off     *)
(* between its INCR and its EXPIRE (recordFailure).                        *)
THEOREM CountersExpire == Spec => []StreaksExpire
<1>1. IInv => StreaksExpire
  BY DEF IInv
<1>. QED BY <1>1, Inductive, PTL

(* What can make a disconnected account anything else: being connected, or *)
(* a send or a renewal that had seen it before.                            *)
LEMMA Revivals ==
  ASSUME Typed, [Next]_vars, NEW a \in Accounts,
         row[a].status = "DISCONNECTED", row'[a].status # "DISCONNECTED"
  PROVE  \/ \E f \in Flows : flow[f].at = "save" /\ flow[f].account = a
         \/ \E s \in Senders : /\ OnAccount[s] = a /\ sender[s] # sender'[s]
                               /\ ~sender[s].gone
         \/ renewal.account = a /\ renewal.seen[a] = "ACTIVE"
<1> USE DEF instagram
<1>0. /\ row \in [Accounts -> Rows] /\ flow \in [Flows -> Callbacks] /\ renewal \in Scans
      /\ sender \in [Senders -> Sends] /\ desk \in [Users -> Requests]
      /\ \A s \in Senders : OnAccount[s] \in Accounts
  BY AccountsAssumption DEF Typed
<1>1. row' # row
  OBVIOUS
<1>2. ASSUME NEW f \in Flows, SaveAccount(f)
      PROVE  flow[f].at = "save" /\ flow[f].account = a
  <2>1. PICK b, r : b = flow[f].account /\ row' = [row EXCEPT ![b] = r] /\ flow[f].at = "save"
    BY <1>2 DEF SaveAccount
  <2>. QED BY <1>0, <2>1
<1>3. ASSUME NEW u \in Users
      PROVE  ~Disconnect(u)
  <2>1. SUFFICES ASSUME Disconnect(u) PROVE FALSE
    OBVIOUS
  <2>2. PICK b : b = desk[u].account
    OBVIOUS
  <2>3. row' = [row EXCEPT ![b].status = "DISCONNECTED"]
    BY <2>1, <2>2 DEF Disconnect
  <2>. QED BY <1>0, <2>3 DEF Rows
<1>4. ASSUME MarkExpired \/ SaveToken
      PROVE  renewal.account = a /\ renewal.seen[a] = "ACTIVE"
  <2>1. PICK b, r : b = renewal.account /\ row' = [row EXCEPT ![b] = r]
    BY <1>4 DEF MarkExpired, SaveToken
  <2>2. renewal.at \in {"expire", "save"}
    BY <1>4 DEF MarkExpired, SaveToken
  <2>3. renewal.seen[renewal.account] = "ACTIVE"
    BY <1>0, <2>2 DEF Scans
  <2>4. b = a
    BY <1>0, <2>1
  <2>. QED BY <2>1, <2>3, <2>4
<1>5. ASSUME NEW s \in Senders, Activate(s) \/ Flag(s)
      PROVE  /\ OnAccount[s] = a /\ sender[s] # sender'[s]
             /\ ~sender[s].gone
  <2>1. PICK b, r : b = OnAccount[s] /\ row' = [row EXCEPT ![b] = r]
    BY <1>5 DEF Activate, Flag
  <2>2. sender[s].at \in {"activate", "flag"} /\ sender' = [sender EXCEPT ![s] = NoSend]
    BY <1>5 DEF Activate, Flag, At, EndSend
  <2>3. sender'[s].at = "idle"
    BY <1>0, <2>2, AtRest
  <2>4. ~sender[s].gone
    BY <1>0 DEF Sends
  <2>. QED BY <1>0, <2>1, <2>2, <2>3, <2>4
<1>6. ASSUME NEW b \in Accounts
      PROVE  ~TokenNears(b)
  <2>1. SUFFICES ASSUME TokenNears(b) PROVE FALSE
    OBVIOUS
  <2>2. row' = [row EXCEPT ![b].due = TRUE]
    BY <2>1 DEF TokenNears
  <2>. QED BY <1>0, <2>2 DEF Rows
<1>7. \/ row' = row
      \/ \E f \in Flows : SaveAccount(f)
      \/ \E u \in Users : Disconnect(u)
      \/ MarkExpired \/ SaveToken
      \/ \E s \in Senders : Activate(s) \/ Flag(s)
      \/ \E b \in Accounts : TokenNears(b)
  BY DEF Next, vars, Connecting, Renewing, Attempt, CreateAuthorizationUrl, LinkExpires, Callback,
         DropState, Exchange, Subscribe, Request, SyncProfile, Scan, RefreshNext, AskForToken,
         RefreshProfile, TakeSend, IsOpen, GetSendCredentials, Interrupted, CallGraphApi,
         ClearBreaker, CountFailure, ExpireCounter, Trip,
         CooldownEnds, StreakExpires, Outage, Recovery, Revoke
<1>. QED BY <1>1, <1>2, <1>3, <1>4, <1>5, <1>6, <1>7

(* A disconnected account comes back only by being connected again, or by  *)
(* a send or a renewal under way that saw it before (setAccountStatus,     *)
(* refreshAccountToken).                                                   *)
THEOREM NothingElseRevives == Spec => RevivedOnlyInFlight
<1> DEFINE Sources ==
      \A a \in Accounts :
        row[a].status = "DISCONNECTED" /\ row'[a].status # "DISCONNECTED" =>
          \/ \E f \in Flows : flow[f].at = "save" /\ flow[f].account = a
          \/ \E s \in Senders : /\ OnAccount[s] = a /\ sender[s] # sender'[s]
                                /\ ~sender[s].gone
          \/ renewal.account = a /\ renewal.seen[a] = "ACTIVE"
<1>1. IInv /\ [Next]_vars => Sources
  BY Revivals DEF IInv
<1>2. ([][Sources]_vars) => RevivedOnlyInFlight
  BY DEF RevivedOnlyInFlight
<1> HIDE DEF Sources
<1>. QED BY <1>1, <1>2, Inductive, PTL DEF Spec

=============================================================================
