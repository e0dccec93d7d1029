------------------------------ MODULE Accounts ------------------------------
(***************************************************************************)
(* The connected Instagram accounts: the OAuth flow connects them, users   *)
(* disconnect them and refresh their profile, an hourly scan renews their  *)
(* tokens, and the sends of their messages flag them as rate limited or    *)
(* active again.  All of these write the one status column, each by what   *)
(* it read some awaits earlier.                                            *)
(*                                                                         *)
(* Instagram itself is external: whether it answers for an account (`up`), *)
(* which of its tokens it honours (`grant` counts the revocations, a token *)
(* is the count it was minted at) and to which accounts' webhooks it has   *)
(* the current field list.  Messages and limits of sends are Sending's.    *)
(***************************************************************************)
EXTENDS Naturals, FiniteSets, Functions

CONSTANTS
  Accounts, Workspaces, Users,
  Links,         \* OAuth state tokens handed out with authorize URLs
  Flows,         \* browsers Instagram sends back to the callback route
  Senders,       \* workers sending messages
  OnAccount,     \* Senders -> the account whose messages it sends
  Lively,        \* the accounts that are connected, disconnected, refused...
  Unreadable,    \* accounts whose stored token does not decrypt
  Threshold,     \* FAILURE_THRESHOLD
  MaxRevocations, MaxOutages, MaxRequests, MaxMishaps, MaxSpent,
  Nowhere, NoAccount

ASSUME AccountsAssumption ==
  /\ OnAccount \in [Senders -> Accounts] /\ Unreadable \cup Lively \subseteq Accounts
  /\ Threshold \in Nat \ {0} /\ MaxSpent \in Nat
  /\ {MaxRevocations, MaxOutages, MaxRequests, MaxMishaps} \subseteq Nat
  /\ Nowhere \notin Workspaces /\ NoAccount \notin Accounts

VARIABLES
  row,      \* Accounts -> the InstagramAccount row
  breaker,  \* Accounts -> the Redis keys circuit:<id>:failures and :open; `cut`
            \* (history): the EXPIRE of this counter was never carried out
  link,     \* Links -> [of: the workspace Redis maps it to, used: its code]
  flow,     \* Flows -> a callback being handled
  renewal,  \* the token-refresh job
  sender,   \* Senders -> the attempt it is making; `gone`: the account it read
            \* was disconnected
  desk,     \* Users -> the request being handled
  up, grant, hears, spent

instagram == <<up, grant, hears>>
vars == <<row, breaker, link, flow, renewal, sender, desk, instagram, spent>>

Statuses == {"ACTIVE", "RATE_LIMITED", "TOKEN_EXPIRED", "DISCONNECTED"}
Tokens == 0..MaxRevocations

Closed == [fails |-> 0, ttl |-> FALSE, open |-> FALSE, cut |-> FALSE]

NoFlow == [at |-> "idle", link |-> Nowhere, of |-> Nowhere, account |-> NoAccount, token |-> 0]
NoDesk == [at |-> "idle", account |-> NoAccount]
NoSend == [at |-> "idle", token |-> 0, gone |-> FALSE, count |-> 0]
NoScan == [at |-> "idle", todo |-> {}, account |-> NoAccount, token |-> 0,
           seen |-> [a \in Accounts |-> "none"]]

Bound == [revocation |-> MaxRevocations, outage |-> MaxOutages,
          request |-> MaxRequests, mishap |-> MaxMishaps]

(* Each kind of step nothing obliges is bounded, and all but the mishaps   *)
(* together.                                                               *)
Spend(b) ==
  /\ spent[b] < Bound[b]
  /\ b # "mishap" => spent["revocation"] + spent["outage"] + spent["request"] < MaxSpent
  /\ spent' = [spent EXCEPT ![b] = @ + 1]

TypeOK ==
  /\ row \in [Accounts -> [status : Statuses, owner : Workspaces, token : Tokens, due : BOOLEAN]]
  /\ breaker \in [Accounts -> [fails : 0..Threshold, ttl : BOOLEAN, open : BOOLEAN,
                               cut : BOOLEAN]]
  /\ link \in [Links -> [of : Workspaces \cup {Nowhere}, used : BOOLEAN]]
  /\ \A f \in Flows : flow[f].at \in {"idle", "drop", "exchange", "save", "subscribe"}
  /\ renewal.at \in {"idle", "next", "ask", "expire", "save", "sync"}
  /\ renewal.todo \subseteq Accounts
  /\ \A s \in Senders :
       sender[s].at \in {"idle", "check", "credentials", "call", "clear", "activate",
                         "count", "ttl", "trip", "flag"}
  /\ \A u \in Users : desk[u].at \in {"idle", "disconnect", "sync"}
  /\ up \in [Accounts -> BOOLEAN] /\ grant \in [Accounts -> Tokens]
  /\ hears \subseteq Accounts /\ DOMAIN spent = DOMAIN Bound

(* Accounts as a deployment finds them: connected and perhaps disconnected *)
(* or expired since, before the last name was added to the list of webhook *)
(* fields, so that they hear nothing of it.                                *)
Init ==
  /\ row \in [Accounts -> [status : Statuses \ {"RATE_LIMITED"}, owner : Workspaces,
                           token : {0}, due : {FALSE}]]
  /\ \A a \in Accounts \ Lively : row[a].status = "ACTIVE"
  /\ breaker = [a \in Accounts |-> Closed]
  /\ link = [s \in Links |-> [of |-> Nowhere, used |-> FALSE]]
  /\ flow = [f \in Flows |-> NoFlow]
  /\ renewal = NoScan
  /\ sender = [s \in Senders |-> NoSend]
  /\ desk = [u \in Users |-> NoDesk]
  /\ up = [a \in Accounts |-> TRUE] /\ grant = [a \in Accounts |-> 0] /\ hears = {}
  /\ spent = [b \in DOMAIN Bound |-> 0]

Works(a, token) == up[a] /\ token = grant[a]

(* ---- connect: createAuthorizationUrl, handleCallback -------------------- *)

CreateAuthorizationUrl(s, w) ==
  /\ link[s] = [of |-> Nowhere, used |-> FALSE] /\ Spend("request")
  /\ link' = [link EXCEPT ![s].of = w]
  /\ UNCHANGED <<row, breaker, flow, renewal, sender, desk, instagram>>

LinkExpires(s) ==
  /\ link[s].of # Nowhere
  /\ link' = [link EXCEPT ![s] = [of |-> Nowhere, used |-> TRUE]]
  /\ UNCHANGED <<row, breaker, flow, renewal, sender, desk, instagram, spent>>

(* consumeState is a GET and a DEL: two loads of the callback page may both*)
(* get past the GET.  An unknown state ends in the error redirect.         *)
Callback(f, s) ==
  /\ flow[f].at = "idle" /\ link[s].of # Nowhere
  /\ flow' = [flow EXCEPT ![f] = [NoFlow EXCEPT !.at = "drop", !.link = s, !.of = link[s].of]]
  /\ UNCHANGED <<row, breaker, link, renewal, sender, desk, instagram, spent>>

DropState(f) ==
  LET s == flow[f].link
  IN  /\ flow[f].at = "drop"
      /\ link' = [link EXCEPT ![s].of = Nowhere]
      /\ flow' = [flow EXCEPT ![f].at = "exchange"]
      /\ UNCHANGED <<row, breaker, renewal, sender, desk, instagram, spent>>

(* Three calls to Instagram: the code, which it accepts once, for a short- *)
(* lived token, that for a long-lived one, and the profile.                *)
Exchange(f, a) ==
  LET s == flow[f].link
  IN  /\ flow[f].at = "exchange"
      /\ \/ /\ up[a] /\ ~link[s].used
            /\ flow' = [flow EXCEPT ![f].at = "save", ![f].account = a, ![f].token = grant[a]]
         \/ (~up[a] \/ link[s].used) /\ flow' = [flow EXCEPT ![f] = NoFlow]
      /\ link' = [link EXCEPT ![s].used = TRUE]
      /\ UNCHANGED <<row, breaker, renewal, sender, desk, instagram, spent>>

SaveAccount_LateOwner(f) ==
  LET c == flow[f]
  IN  /\ c.at = "save"
      /\ row' = [row EXCEPT ![c.account] = [status |-> "ACTIVE", owner |-> link[c.link].of,
                                           token |-> c.token, due |-> FALSE]]
      /\ flow' = [flow EXCEPT ![f].at = "subscribe"]
      /\ UNCHANGED <<breaker, link, renewal, sender, desk, instagram, spent>>

(* The upsert by igBusinessId, whatever the row was.                       *)
SaveAccount(f) ==
  LET c == flow[f]
  IN  /\ c.at = "save"
      /\ row' = [row EXCEPT ![c.account] =
                   [status |-> "ACTIVE", owner |-> c.of, token |-> c.token, due |-> FALSE]]
      /\ flow' = [flow EXCEPT ![f].at = "subscribe"]
      /\ UNCHANGED <<breaker, link, renewal, sender, desk, instagram, spent>>

(* subscribeToWebhooks, whose failure is only logged.                      *)
Subscribed(a, token) == hears' = IF Works(a, token) THEN hears \cup {a} ELSE hears

Subscribe(f) ==
  /\ flow[f].at = "subscribe"
  /\ Subscribed(flow[f].account, flow[f].token)
  /\ flow' = [flow EXCEPT ![f] = NoFlow]
  /\ UNCHANGED <<row, breaker, link, renewal, sender, desk, up, grant, spent>>

(* ---- users: disconnectAccount, syncProfile ------------------------------ *)

Blocked_NotDisconnected == {"TOKEN_EXPIRED", "ERROR"}

Blocked_RateLimited == {"DISCONNECTED", "TOKEN_EXPIRED", "ERROR", "RATE_LIMITED"}

(* getSendCredentials: "RATE_LIMITED is deliberately NOT in this blocklist".*)
Blocked == {"DISCONNECTED", "TOKEN_EXPIRED", "ERROR"}

HasCredentials(a) == row[a].status \notin Blocked /\ a \notin Unreadable

(* accountBelongsToWorkspace, then the request's own steps.                *)
Request(u, w, a, step) ==
  /\ desk[u].at = "idle" /\ row[a].owner = w /\ Spend("request")
  /\ desk' = [desk EXCEPT ![u] = [at |-> step, account |-> a]]
  /\ UNCHANGED <<row, breaker, link, flow, renewal, sender, instagram>>

Disconnect(u) ==
  /\ desk[u].at = "disconnect"
  /\ row' = [row EXCEPT ![desk[u].account].status = "DISCONNECTED"]
  /\ desk' = [desk EXCEPT ![u] = NoDesk]
  /\ UNCHANGED <<breaker, link, flow, renewal, sender, instagram, spent>>

(* syncProfile with credentials and a readable profile subscribes again;   *)
(* the preview columns it then writes are left out.                        *)
SyncProfile(u) ==
  LET a == desk[u].account
  IN  /\ desk[u].at = "sync"
      /\ hears' = IF HasCredentials(a) /\ Works(a, row[a].token) THEN hears \cup {a} ELSE hears
      /\ desk' = [desk EXCEPT ![u] = NoDesk]
      /\ UNCHANGED <<row, breaker, link, flow, renewal, sender, up, grant, spent>>

(* ---- TokenRefreshProcessor.process -------------------------------------- *)

(* findAccountsNeedingTokenRefresh.                                        *)
NeedingRefresh == {a \in Accounts : row[a].status = "ACTIVE" /\ row[a].due}

Scan ==
  /\ renewal.at = "idle" /\ NeedingRefresh # {}
  /\ renewal' = [NoScan EXCEPT !.at = "next", !.todo = NeedingRefresh,
                               !.seen = [a \in Accounts |-> IF a \in NeedingRefresh
                                                              THEN row[a].status ELSE "none"]]
  /\ UNCHANGED <<row, breaker, link, flow, sender, desk, instagram, spent>>

NextAccount ==
  IF renewal.todo = {} THEN NoScan
  ELSE [renewal EXCEPT !.at = "next", !.account = NoAccount, !.token = 0]

RefreshNext_Rethrows(a) ==
  /\ renewal.at = "next" /\ a \in renewal.todo
  /\ renewal' = IF a \in Unreadable
                  THEN NoScan
                  ELSE [renewal EXCEPT !.at = "ask", !.todo = @ \ {a}, !.account = a,
                                       !.token = row[a].token]
  /\ UNCHANGED <<row, breaker, link, flow, sender, desk, instagram, spent>>

(* One account of the list: a token that does not decrypt throws, which is *)
(* caught, and the loop goes on.                                           *)
RefreshNext(a) ==
  LET others == renewal.todo \ {a}
  IN  /\ renewal.at = "next" /\ a \in renewal.todo
      /\ renewal' =
           IF a \in Unreadable
             THEN IF others = {} THEN NoScan ELSE [renewal EXCEPT !.todo = others]
             ELSE [renewal EXCEPT !.at = "ask", !.todo = others, !.account = a,
                                  !.token = row[a].token]
      /\ UNCHANGED <<row, breaker, link, flow, sender, desk, instagram, spent>>

(* refresh_access_token: an answer that is not ok, a refusal or an error   *)
(* alike, expires the account; no answer throws.                           *)
AskForToken ==
  LET a == renewal.account
  IN  /\ renewal.at = "ask"
      /\ \/ Works(a, renewal.token) /\ renewal' = [renewal EXCEPT !.at = "save"]
         \/ ~Works(a, renewal.token) /\ renewal' = [renewal EXCEPT !.at = "expire"]
         \/ ~up[a] /\ renewal' = NextAccount
      /\ UNCHANGED <<row, breaker, link, flow, sender, desk, instagram, spent>>

MarkExpired ==
  /\ renewal.at = "expire"
  /\ row' = [row EXCEPT ![renewal.account].status = "TOKEN_EXPIRED"]
  /\ renewal' = NextAccount
  /\ UNCHANGED <<breaker, link, flow, sender, desk, instagram, spent>>

(* The token and its expiry only, whatever the row has become.             *)
SaveToken ==
  /\ renewal.at = "save"
  /\ row' = [row EXCEPT ![renewal.account].token = renewal.token,
                        ![renewal.account].due = FALSE]
  /\ renewal' = [renewal EXCEPT !.at = "sync"]
  /\ UNCHANGED <<breaker, link, flow, sender, desk, instagram, spent>>

RefreshProfile ==
  LET a == renewal.account
  IN  /\ renewal.at = "sync"
      /\ hears' = IF HasCredentials(a) /\ Works(a, row[a].token) THEN hears \cup {a} ELSE hears
      /\ renewal' = NextAccount
      /\ UNCHANGED <<row, breaker, link, flow, sender, desk, up, grant, spent>>

(* ---- sends: MessagingService.send around the circuit breaker ------------ *)

At(s, step) == sender[s].at = step
Go(s, step) == sender' = [sender EXCEPT ![s].at = step]
EndSend(s) == sender' = [sender EXCEPT ![s] = NoSend]

(* A message of the account comes up: new, retried or put in again by the  *)
(* scan of Sending, or an agent's.                                         *)
TakeSend(s) ==
  /\ At(s, "idle") /\ Go(s, "check")
  /\ UNCHANGED <<row, breaker, link, flow, renewal, desk, instagram, spent>>

IsOpen(s) ==
  /\ At(s, "check")
  /\ Go(s, IF breaker[OnAccount[s]].open THEN "idle" ELSE "credentials")
  /\ UNCHANGED <<row, breaker, link, flow, renewal, desk, instagram, spent>>

GetSendCredentials(s) ==
  LET a == OnAccount[s]
  IN  /\ At(s, "credentials")
      /\ IF HasCredentials(a)
           THEN sender' = [sender EXCEPT ![s] = [NoSend EXCEPT
                             !.at = "call", !.token = row[a].token,
                             !.gone = row[a].status = "DISCONNECTED"]]
           ELSE EndSend(s)
      /\ UNCHANGED <<row, breaker, link, flow, renewal, desk, instagram, spent>>

CallGraphApi(s) ==
  /\ At(s, "call")
  /\ Go(s, IF Works(OnAccount[s], sender[s].token) THEN "clear" ELSE "count")
  /\ UNCHANGED <<row, breaker, link, flow, renewal, desk, instagram, spent>>

(* recordSuccess: DEL both keys, then ACTIVE over any other status.        *)
ClearBreaker(s) ==
  /\ At(s, "clear")
  /\ breaker' = [breaker EXCEPT ![OnAccount[s]] = Closed]
  /\ Go(s, "activate")
  /\ UNCHANGED <<row, link, flow, renewal, desk, instagram, spent>>

Activate(s) ==
  /\ At(s, "activate")
  /\ row' = [row EXCEPT ![OnAccount[s]].status = "ACTIVE"]
  /\ EndSend(s)
  /\ UNCHANGED <<breaker, link, flow, renewal, desk, instagram, spent>>

AfterCount(count) == IF count >= Threshold THEN "trip" ELSE "idle"

CountFailure_ExpiresLate(s) ==
  LET a == OnAccount[s]
      n == IF breaker[a].fails = Threshold THEN Threshold ELSE breaker[a].fails + 1
  IN  /\ At(s, "count")
      /\ breaker' = [breaker EXCEPT ![a].fails = n]
      /\ sender' = [sender EXCEPT ![s].count = n,
                                  ![s].at = IF n = Threshold THEN "ttl" ELSE AfterCount(n)]
      /\ UNCHANGED <<row, link, flow, renewal, desk, instagram, spent>>

(* recordFailure: INCR, and by the count it returned EXPIRE, SET open and  *)
(* the status.  The counter is capped at the threshold.                    *)
CountFailure(s) ==
  LET a == OnAccount[s]
      n == IF breaker[a].fails = Threshold THEN Threshold ELSE breaker[a].fails + 1
  IN  /\ At(s, "count")
      /\ breaker' = [breaker EXCEPT ![a].fails = n]
      /\ sender' = [sender EXCEPT ![s].count = n, ![s].at = IF n = 1 THEN "ttl" ELSE AfterCount(n)]
      /\ UNCHANGED <<row, link, flow, renewal, desk, instagram, spent>>

ExpireCounter(s) ==
  LET a == OnAccount[s]
  IN  /\ At(s, "ttl")
      /\ breaker' = [breaker EXCEPT ![a].ttl = breaker[a].fails > 0, ![a].cut = FALSE]
      /\ Go(s, AfterCount(sender[s].count))
      /\ UNCHANGED <<row, link, flow, renewal, desk, instagram, spent>>

Trip(s) ==
  /\ At(s, "trip")
  /\ breaker' = [breaker EXCEPT ![OnAccount[s]].open = TRUE]
  /\ Go(s, "flag")
  /\ UNCHANGED <<row, link, flow, renewal, desk, instagram, spent>>

Flag(s) ==
  /\ At(s, "flag")
  /\ row' = [row EXCEPT ![OnAccount[s]].status = "RATE_LIMITED"]
  /\ EndSend(s)
  /\ UNCHANGED <<breaker, link, flow, renewal, desk, instagram, spent>>

(* A call of the attempt throws or its worker stops.  What throws in       *)
(* recordSuccess is caught and counted as a failure of the send; what      *)
(* throws in recordFailure is not caught.                                  *)
Interrupted(s) ==
  LET a == OnAccount[s]
      b == breaker[a]
      cut == b.cut \/ (At(s, "ttl") /\ b.fails > 0 /\ ~b.ttl)
  IN  /\ ~At(s, "idle") /\ Spend("mishap")
      /\ EndSend(s) \/ (sender[s].at \in {"clear", "activate"} /\ Go(s, "count"))
      /\ breaker' = [breaker EXCEPT ![a].cut = cut]
      /\ UNCHANGED <<row, link, flow, renewal, desk, instagram>>

(* ---- Redis, time, Instagram --------------------------------------------- *)

CooldownEnds(a) ==
  /\ breaker[a].open
  /\ breaker' = [breaker EXCEPT ![a].open = FALSE]
  /\ UNCHANGED <<row, link, flow, renewal, sender, desk, instagram, spent>>

StreakExpires(a) ==
  /\ breaker[a].ttl
  /\ breaker' = [breaker EXCEPT ![a].fails = 0, ![a].ttl = FALSE]
  /\ UNCHANGED <<row, link, flow, renewal, sender, desk, instagram, spent>>

TokenNears(a) ==
  /\ ~row[a].due
  /\ row' = [row EXCEPT ![a].due = TRUE]
  /\ UNCHANGED <<breaker, link, flow, renewal, sender, desk, instagram, spent>>

Outage(a) ==
  /\ up[a] /\ Spend("outage") /\ up' = [up EXCEPT ![a] = FALSE]
  /\ UNCHANGED <<row, breaker, link, flow, renewal, sender, desk, grant, hears>>

Recovery(a) ==
  /\ ~up[a] /\ up' = [up EXCEPT ![a] = TRUE]
  /\ UNCHANGED <<row, breaker, link, flow, renewal, sender, desk, grant, hears, spent>>

(* The person withdraws the app's access: every token so far is refused.   *)
Revoke(a) ==
  /\ Spend("revocation") /\ grant' = [grant EXCEPT ![a] = @ + 1] /\ hears' = hears \ {a}
  /\ UNCHANGED <<row, breaker, link, flow, renewal, sender, desk, up>>

Connecting(f) ==
  \/ DropState(f) \/ SaveAccount(f) \/ Subscribe(f) \/ \E a \in Lively : Exchange(f, a)

Renewing ==
  \/ \E a \in Accounts : RefreshNext(a)
  \/ AskForToken \/ MarkExpired \/ SaveToken \/ RefreshProfile

Attempt(s) ==
  \/ IsOpen(s) \/ GetSendCredentials(s) \/ CallGraphApi(s) \/ ClearBreaker(s) \/ Activate(s)
  \/ CountFailure(s) \/ ExpireCounter(s) \/ Trip(s) \/ Flag(s)

Next ==
  \/ \E s \in Links, w \in Workspaces : CreateAuthorizationUrl(s, w)
  \/ \E s \in Links : LinkExpires(s)
  \/ \E f \in Flows, s \in Links : Callback(f, s)
  \/ \E f \in Flows : Connecting(f)
  \/ \E u \in Users, w \in Workspaces, a \in Lively, step \in {"disconnect", "sync"} :
       Request(u, w, a, step)
  \/ \E u \in Users : Disconnect(u) \/ SyncProfile(u)
  \/ Scan \/ Renewing
  \/ \E s \in Senders : TakeSend(s) \/ Attempt(s) \/ Interrupted(s)
  \/ \E a \in Accounts :
       CooldownEnds(a) \/ StreakExpires(a) \/ TokenNears(a)
  \/ \E a \in Lively : Outage(a) \/ Recovery(a) \/ Revoke(a)

Spec == Init /\ [][Next]_vars

(* The scan comes every hour and its job runs on; a cooldown ends and a    *)
(* token nears its expiry as time passes; a worker goes on with the send   *)
(* it has taken.  Nothing has to be sent, and nobody has to connect,       *)
(* disconnect or recover.                                                  *)
FairSpec ==
  /\ Spec
  /\ WF_vars(Scan) /\ WF_vars(Renewing)
  /\ \A s \in Senders : WF_vars(Attempt(s))
  /\ \A a \in Accounts : WF_vars(CooldownEnds(a)) /\ WF_vars(TokenNears(a))

(* ---- properties --------------------------------------------------------- *)

(* A disconnected account comes back only by being connected again, or by  *)
(* a send or a renewal that had begun before it was disconnected.          *)
RevivedOnlyInFlight ==
  [][\A a \in Accounts :
       row[a].status = "DISCONNECTED" /\ row'[a].status # "DISCONNECTED" =>
         \/ \E f \in Flows : flow[f].at = "save" /\ flow[f].account = a
         \/ \E s \in Senders : /\ OnAccount[s] = a /\ sender[s] # sender'[s]
                               /\ ~sender[s].gone
         \/ renewal.account = a /\ renewal.seen[a] = "ACTIVE"]_vars

(* "Failure streaks don't count across long gaps": whatever sends, clears  *)
(* and counts overlap, a failure counter has a TTL, or a send is about to  *)
(* give it one, or the send that was to do so was cut off between the INCR *)
(* and the EXPIRE of this very counter.                                    *)
StreaksExpire ==
  \A a \in Accounts :
    breaker[a].fails > 0 /\ ~breaker[a].ttl =>
      breaker[a].cut \/ \E s \in Senders : OnAccount[s] = a /\ At(s, "ttl")

Honoured(a) == Works(a, row[a].token) /\ a \notin Unreadable

(* An account whose token Instagram honours from some time on and whose    *)
(* sends keep being taken up, by whatever workers, is not rate limited for *)
(* ever, as it was when its credentials were withheld; with nothing more   *)
(* to send the flag may stay.                                              *)
RateLimitedHeals ==
  \A a \in Accounts :
    LET tried == \E s \in Senders : OnAccount[s] = a /\ At(s, "check")
    IN  <>[]Honoured(a) /\ []<>tried => []<>(row[a].status # "RATE_LIMITED")

(* An active account whose token Instagram honours comes to hear the whole *)
(* field list, by the renewal of its token at the latest, whatever the     *)
(* tokens of other accounts.                                               *)
HearsInTheEnd ==
  \A a \in Accounts :
    <>[](Honoured(a) /\ row[a].status = "ACTIVE") => []<>(a \in hears)
=============================================================================
