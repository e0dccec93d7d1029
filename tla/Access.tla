-------------------------------- MODULE Access --------------------------------
(***************************************************************************)
(* Who is in which workspace and who is signed in: registration, sign-in   *)
(* with Google by invite or into a workspace of one's own                  *)
(* (auth.service.ts), invitations, roles and removal (team.service.ts),    *)
(* suspension by the platform (admin-users.service.ts), and the session of *)
(* one person's browser, whose tabs share the stored tokens (lib/auth.ts,  *)
(* lib/api.ts, lib/ticket-stream.ts, auth/callback/page.tsx).              *)
(*                                                                         *)
(* Every request is split where the code awaits. A token is the number of  *)
(* its Redis key and the row, workspace and role it was signed with;       *)
(* numbers nobody holds any more are used again. A person is an email.     *)
(* Only the Surfer has a browser; of the others the claims of the access    *)
(* tokens they were given are kept: a request is trusted for what its token *)
(* says, whatever became of the row since (jwt.strategy.ts).                *)
(* Passwords, signatures and the clock are data: a token expires when it   *)
(* does, and a person signs in only as who they are.                       *)
(***************************************************************************)
EXTENDS Naturals, FiniteSets

CONSTANTS
  People, Founder, Surfer,
  Invited,      \* who has a pending invite at the start, at most one
  Workspaces, Home,  \* Home is the Founder's
  Requests,     \* sign-ins and registrations under way
  Deeds,        \* changes of the team under way
  Tabs,         \* tabs of the Surfer's browser
  Calls,        \* what a tab asks the API for
  Stream,       \* the call among them that is the ticket stream
  MaxRows,      \* bound: user rows ever created
  MaxInvites,   \* bound: invites ever created
  MaxSpent,     \* bound: sign-ins, team changes, suspensions, calls, failures altogether
  Nobody, Nowhere, NoRow, NoInvite

ASSUME AccessAssumption ==
  /\ Founder \in People /\ Surfer \in People \ {Founder} /\ Home \in Workspaces
  /\ Invited \subseteq People \ {Founder, Surfer}
  /\ \A p, o \in Invited : p = o
  /\ Nobody \notin People /\ Nowhere \notin Workspaces
  /\ Stream \in Calls /\ IsFiniteSet(Tabs)
  /\ NoRow \notin [id : Nat, ws : Workspaces, role : {"OWNER", "ADMIN", "MEMBER"}, suspended : BOOLEAN]
  /\ {MaxRows, MaxInvites, MaxSpent} \subseteq Nat

VARIABLES
  user,         \* the user row of each email
  made,         \* workspaces that exist
  invites,      \* pending invites
  entry,        \* each sign-in or registration
  deed,         \* each team change
  live,         \* refresh tokens with a key in Redis
  code,         \* exchange code on its way to the callback page, with its tokens
  storage,      \* the browser's tokens
  signed,       \* claims of the access tokens given to the others
  call,         \* each call of each tab
  flight,       \* each tab's refresh
  consumed,     \* history: refresh tokens taken, by which tab, and what came of it
  spent         \* counters: rows, invites, and all bounded events

people   == <<user, made, invites>>
requests == <<entry, deed>>
session  == <<live, code, storage, signed, call, flight, consumed>>
vars     == <<people, requests, session, spent>>

Roles == {"OWNER", "ADMIN", "MEMBER"}

NoEntry  == [pc |-> "idle", who |-> Nobody, row |-> NoRow, invite |-> NoInvite, ws |-> Nowhere]
NoDeed   == [pc |-> "idle", kind |-> "invite", actor |-> NoRow, target |-> Nobody,
             member |-> NoRow, role |-> "MEMBER", since |-> 0]
NoTokens == [jti |-> 0, as |-> NoRow]
NoFlight == [pc |-> "idle", tokens |-> NoTokens, took |-> 0, cause |-> "none", row |-> NoRow]
LoggedOut == [access |-> "none", jti |-> 0, as |-> NoRow]
SignedIn(tokens) == [access |-> "fresh", jti |-> tokens.jti, as |-> tokens.as]

Exists(p) == user[p] # NoRow
Signature(row) == [id |-> row.id, ws |-> row.ws, role |-> row.role]

Init ==
  /\ user = [p \in People |->
       CASE p = Founder -> [id |-> 1, ws |-> Home, role |-> "OWNER", suspended |-> FALSE]
         [] p = Surfer  -> [id |-> 2, ws |-> Home, role |-> "MEMBER", suspended |-> FALSE]
         [] OTHER       -> NoRow]
  /\ made = {Home}
  /\ \E r \in {"ADMIN", "MEMBER"} :
       invites = {[id |-> 1, ws |-> Home, email |-> p, role |-> r, expired |-> FALSE] : p \in Invited}
  /\ entry = [q \in Requests |-> NoEntry]
  /\ deed = [d \in Deeds |-> NoDeed]
  /\ live = {1}
  /\ code = NoTokens
  /\ storage = [access |-> "fresh", jti |-> 1, as |-> Signature(user[Surfer])]
  /\ signed = {Signature(user[Founder])}
  /\ call = [t \in Tabs |-> [c \in Calls |-> "idle"]]
  /\ flight = [t \in Tabs |-> NoFlight]
  /\ consumed = {}
  /\ spent = [rows |-> 2, invites |-> 1, all |-> 0]

\* One more of the bounded events.
Spend == /\ spent.all < MaxSpent
         /\ spent' = [spent EXCEPT !.all = @ + 1]

-----------------------------------------------------------------------------
(* Tokens.                                                                 *)

\* Refresh tokens somebody could still present.
InSight == {storage.jti, code.jti} \cup {flight[t].tokens.jti : t \in Tabs}

freshJti == CHOOSE n \in 1..(Cardinality(InSight) + 1) : n \notin InSight

\* issueTokens: a new refresh token for a row as it was read.
Issued(row) == [jti |-> freshJti, as |-> Signature(row)]

Issues == /\ live' = (live \cap InSight) \cup {freshJti}
          /\ consumed' = {x \in consumed : x.jti \in InSight}

-----------------------------------------------------------------------------
(* Registration and sign-in.                                               *)

Enters(q, e) == entry' = [entry EXCEPT ![q] = e]

\* register finds no user with the email.
register(q, p) ==
  /\ entry[q] = NoEntry /\ ~Exists(p)
  /\ Enters(q, [NoEntry EXCEPT !.pc = "workspace", !.who = p])
  /\ Spend
  /\ UNCHANGED <<people, deed, session>>

\* login and loginOrRegisterWithGoogle of someone known and not suspended.
signIn(q, p) ==
  /\ entry[q] = NoEntry /\ Exists(p) /\ ~user[p].suspended
  /\ Enters(q, [NoEntry EXCEPT !.pc = "issue", !.who = p, !.row = user[p]])
  /\ Spend
  /\ UNCHANGED <<people, deed, session>>

\* A Google profile nobody has yet looks for an invite.
googleUnknown(q, p) ==
  /\ entry[q] = NoEntry /\ ~Exists(p)
  /\ Enters(q, [NoEntry EXCEPT !.pc = "invite", !.who = p])
  /\ Spend
  /\ UNCHANGED <<people, deed, session>>

\* The newest of the pending invites, or a workspace of one's own.
findInvite(q) ==
  LET mine == {i \in invites : i.email = entry[q].who /\ ~i.expired}
  IN  /\ entry[q].pc = "invite"
      /\ \/ mine = {} /\ Enters(q, [entry[q] EXCEPT !.pc = "workspace"])
         \/ \E i \in mine :
              /\ \A j \in mine : j.id <= i.id
              /\ Enters(q, [entry[q] EXCEPT !.pc = "join", !.invite = i])
      /\ UNCHANGED <<people, deed, session, spent>>

Created(p, ws, role) ==
  [id |-> spent.rows + 1, ws |-> ws, role |-> role, suspended |-> FALSE]

Claimable_Assumed(invite) == TRUE

\* The invite is still pending when the transaction claims it.
Claimable(invite) == \E i \in invites : i.id = invite.id

\* One transaction: claim the invite, create the user.
joinByInvite(q) ==
  LET e == entry[q]
      row == Created(e.who, e.invite.ws, e.invite.role)
  IN  /\ e.pc = "join"
      /\ \/ /\ Claimable(e.invite) /\ ~Exists(e.who)
            /\ spent.rows < MaxRows
            /\ invites' = {i \in invites : i.id # e.invite.id}
            /\ user' = [user EXCEPT ![e.who] = row]
            /\ spent' = [spent EXCEPT !.rows = @ + 1]
            /\ Enters(q, [e EXCEPT !.pc = "issue", !.row = row])
         \/ /\ ~Claimable(e.invite) \/ Exists(e.who)        \* rolled back
            /\ Enters(q, NoEntry)
            /\ UNCHANGED <<invites, user, spent>>
      /\ UNCHANGED <<made, deed, session>>

createWorkspace(q) ==
  /\ entry[q].pc = "workspace"
  /\ \E w \in Workspaces \ made :
       /\ made' = made \cup {w}
       /\ Enters(q, [entry[q] EXCEPT !.pc = "user", !.ws = w])
  /\ UNCHANGED <<user, invites, deed, session, spent>>

\* The email may be taken by now: the workspace stays, without anyone.
createOwner(q) ==
  LET e == entry[q]
      row == Created(e.who, e.ws, "OWNER")
  IN  /\ e.pc = "user"
      /\ \/ /\ ~Exists(e.who) /\ spent.rows < MaxRows
            /\ user' = [user EXCEPT ![e.who] = row]
            /\ spent' = [spent EXCEPT !.rows = @ + 1]
            /\ Enters(q, [e EXCEPT !.pc = "issue", !.row = row])
         \/ /\ Exists(e.who)
            /\ Enters(q, NoEntry)
            /\ UNCHANGED <<user, spent>>
      /\ UNCHANGED <<made, invites, deed, session>>

\* issueTokens for the row that was read, then issueExchangeCode for the
\* Surfer's browser.
issueCode(q) ==
  /\ entry[q].pc = "issue"
  /\ IF entry[q].who = Surfer
     THEN Issues /\ code' = Issued(entry[q].row) /\ UNCHANGED signed
     ELSE /\ signed' = signed \cup {Signature(entry[q].row)}
          /\ UNCHANGED <<live, consumed, code>>
  /\ Enters(q, NoEntry)
  /\ UNCHANGED <<people, deed, storage, call, flight, spent>>

\* consumeExchangeCode, and the callback page stores what it gets; or the
\* code runs out first.
exchange ==
  /\ code # NoTokens
  /\ code' = NoTokens
  /\ \/ storage' = SignedIn(code)
     \/ UNCHANGED storage
  /\ UNCHANGED <<people, requests, live, signed, call, flight, consumed, spent>>

-----------------------------------------------------------------------------
(* The team.                                                               *)

\* Whom an API call acts as: the row, workspace and role some access token
\* names. There is no clock, so any of the others' may still be good.
Acting == signed \cup IF storage.access = "fresh" THEN {storage.as} ELSE {}

Does(d, x) == deed' = [deed EXCEPT ![d] = x]

Managers == {"OWNER", "ADMIN"}

\* createInvite finds no user with the email, then replaces the pending invite.
createInvite(d) ==
  /\ deed[d] = NoDeed
  /\ \E a \in Acting, p \in People, r \in {"ADMIN", "MEMBER"} :
       /\ a.role \in Managers /\ (r = "ADMIN" => a.role = "OWNER")
       /\ ~Exists(p)
       /\ Does(d, [NoDeed EXCEPT !.pc = "replace", !.actor = a, !.target = p, !.role = r,
                            !.since = spent.invites])
  /\ Spend
  /\ UNCHANGED <<people, entry, session>>

\* Its transaction: it deletes what was committed before, and may miss the
\* invite of another that was under way at the same time. It is rolled back if
\* the row of whoever invites, to which the new invite refers, is gone.
replaceInvite(d) ==
  LET x == deed[d]
      n == spent.invites + 1
      older == {i \in invites : i.ws = x.actor.ws /\ i.email = x.target}
      inviter == {p \in People : Exists(p) /\ user[p].id = x.actor.id}
  IN  /\ x.pc = "replace"
      /\ \/ /\ inviter # {} /\ n <= MaxInvites
            /\ \E kept \in {{}} \cup {{i} : i \in {i \in older : i.id > x.since}} :
                 invites' = (invites \ older) \cup kept \cup
                   {[id |-> n, ws |-> x.actor.ws, email |-> x.target, role |-> x.role, expired |-> FALSE]}
            /\ spent' = [spent EXCEPT !.invites = n]
         \/ inviter = {} /\ UNCHANGED <<invites, spent>>
      /\ Does(d, NoDeed)
      /\ UNCHANGED <<user, made, entry, session>>

revokeInvite ==
  /\ \E a \in Acting, i \in invites :
       /\ a.role \in Managers /\ i.ws = a.ws
       /\ invites' = invites \ {i}
  /\ Spend
  /\ UNCHANGED <<user, made, requests, session>>

inviteExpires ==
  /\ \E i \in invites : ~i.expired /\ invites' = (invites \ {i}) \cup {[i EXCEPT !.expired = TRUE]}
  /\ UNCHANGED <<user, made, requests, session, spent>>

Protected_Nobody(member) == FALSE

\* The owner can neither be removed nor given another role.
Protected(member) == member.role = "OWNER"

\* updateRole and removeMember read the member first.
readMember(d) ==
  /\ deed[d] = NoDeed
  /\ \E a \in Acting, p \in People, kind \in {"role", "remove"}, r \in {"ADMIN", "MEMBER"} :
       /\ Exists(p) /\ user[p].ws = a.ws /\ user[p].id # a.id
       /\ ~Protected(user[p])
       /\ kind = "role" => a.role = "OWNER" /\ r # user[p].role
       /\ kind = "remove" => /\ a.role \in Managers /\ r = "MEMBER"
                             /\ user[p].role = "ADMIN" => a.role = "OWNER"
       /\ Does(d, [pc |-> "write", kind |-> kind, actor |-> a, target |-> p,
                   member |-> user[p], role |-> r, since |-> 0])
  /\ Spend
  /\ UNCHANGED <<people, entry, session>>

\* ... and write the row they read, if it is still there.
writeMember(d) ==
  LET x == deed[d]
  IN  /\ x.pc = "write"
      /\ user' = IF ~Exists(x.target) \/ user[x.target].id # x.member.id THEN user
                 ELSE [user EXCEPT ![x.target] =
                         IF x.kind = "role" THEN [@ EXCEPT !.role = x.role] ELSE NoRow]
      /\ Does(d, NoDeed)
      /\ UNCHANGED <<made, invites, entry, session, spent>>

setSuspended(p) ==
  /\ Exists(p)
  /\ user' = [user EXCEPT ![p].suspended = ~@]
  /\ Spend
  /\ UNCHANGED <<made, invites, requests, session>>

\* Someone else's browser renews its tokens, if the row may (refreshTokens).
renewElsewhere(p) ==
  /\ p # Surfer /\ Exists(p) /\ ~user[p].suspended
  /\ \E s \in signed : s.id = user[p].id
  /\ signed' = signed \cup {Signature(user[p])}
  /\ UNCHANGED <<people, requests, live, code, storage, call, flight, consumed, spent>>

-----------------------------------------------------------------------------
(* The browser.                                                            *)

clearTokens_AccessOnly == storage' = [storage EXCEPT !.access = "none"]

clearTokens == storage' = LoggedOut

accessExpires ==
  /\ storage.access = "fresh"
  /\ storage' = [storage EXCEPT !.access = "stale"]
  /\ UNCHANGED <<people, requests, live, signed, code, call, flight, consumed, spent>>

refreshExpires ==
  /\ storage.jti \in live
  /\ live' = live \ {storage.jti}
  /\ Spend
  /\ UNCHANGED <<people, requests, signed, code, storage, call, flight, consumed>>

handleLogout ==
  /\ storage # LoggedOut
  /\ clearTokens
  /\ Spend
  /\ UNCHANGED <<people, requests, live, signed, code, call, flight, consumed>>

\* authFetch or the stream's connect, with an access token that has expired.
Calling(t, c) ==
  /\ storage.access = "stale" /\ call[t][c] = "idle"
  /\ call' = [call EXCEPT ![t][c] = "sent"]
  /\ Spend
  /\ UNCHANGED <<people, requests, live, signed, code, storage, flight, consumed>>

Joins_Never(t) == FALSE

\* Another call of the tab is already renewing the tokens: wait for it.
Joins(t) == flight[t] # NoFlight

\* The 401 arrives: wait for the refresh under way or start one; with no
\* refresh token there is nothing to start and the tab goes to the login page.
Unauthorized(t, c) ==
  /\ call[t][c] = "sent"
  /\ IF Joins(t)
     THEN call' = [call EXCEPT ![t][c] = "waiting"] /\ UNCHANGED <<storage, flight>>
     ELSE IF storage.jti = 0
     THEN /\ call' = [call EXCEPT ![t] =
               IF c = Stream THEN [@ EXCEPT ![c] = "idle"] ELSE [k \in Calls |-> "idle"]]
          /\ IF c = Stream THEN UNCHANGED storage ELSE clearTokens
          /\ UNCHANGED flight
     ELSE /\ call' = [call EXCEPT ![t][c] = "waiting"]
          /\ flight' = [flight EXCEPT ![t] =
               [NoFlight EXCEPT !.pc = "sent",
                                !.tokens = [jti |-> storage.jti, as |-> storage.as]]]
          /\ UNCHANGED storage
  /\ UNCHANGED <<people, requests, live, signed, code, consumed, spent>>

\* What came of the token a tab took.
Fated(t, fate) ==
  {IF x.tab = t /\ x.jti = flight[t].took THEN [x EXCEPT !.fate = fate] ELSE x :
     x \in consumed}

Flies(t, f) == flight' = [flight EXCEPT ![t] = f]

\* Why Redis has no key for a token: it ran out, or one that took it was
\* refused or never heard, was another tab, or was this tab.
Why(t, j) ==
  LET taken == {x \in consumed : x.jti = j}
  IN  IF taken = {} THEN {"expired"}
      ELSE {x.fate : x \in {x \in taken : x.fate # "used"}} \cup
           {IF x.tab = t THEN "this tab" ELSE "other tab" : x \in {x \in taken : x.fate = "used"}}

refreshGets(t) ==
  LET j == flight[t].tokens.jti
  IN  /\ flight[t].pc = "sent"
      /\ \/ j \in live /\ Flies(t, [flight[t] EXCEPT !.pc = "found"])
         \/ /\ j \notin live
            /\ \E cause \in Why(t, j) :
                 Flies(t, [flight[t] EXCEPT !.pc = "refused", !.cause = cause])
      /\ UNCHANGED <<people, requests, live, signed, code, storage, call, consumed, spent>>

refreshDeletes(t) ==
  LET j == flight[t].tokens.jti
  IN  /\ flight[t].pc = "found"
      /\ live' = live \ {j}
      /\ consumed' = consumed \cup {[jti |-> j, tab |-> t, fate |-> "used"]}
      /\ Flies(t, [flight[t] EXCEPT !.pc = "taken", !.took = j])
      /\ UNCHANGED <<people, requests, signed, code, storage, call, spent>>

\* The user as they are now, not as the token says.
MayRenew(row) == row # NoRow /\ ~row.suspended

refreshReadsUser(t) ==
  LET found == {user[p] : p \in {p \in People : Exists(p) /\ user[p].id = flight[t].tokens.as.id}}
      row == IF found = {} THEN NoRow ELSE CHOOSE r \in found : TRUE
  IN  /\ flight[t].pc = "taken"
      /\ \/ /\ MayRenew(row)
            /\ Flies(t, [flight[t] EXCEPT !.pc = "read", !.row = row])
            /\ UNCHANGED consumed
         \/ /\ ~MayRenew(row)
            /\ Flies(t, [flight[t] EXCEPT !.pc = "refused", !.cause = "account"])
            /\ consumed' = Fated(t, "account")
      /\ UNCHANGED <<people, requests, live, signed, code, storage, call, spent>>

refreshIssues(t) ==
  /\ flight[t].pc = "read"
  /\ Issues
  /\ Flies(t, [flight[t] EXCEPT !.pc = "granted", !.row = NoRow,
                               !.tokens = Issued(flight[t].row)])
  /\ UNCHANGED <<people, requests, signed, code, storage, call, spent>>

\* The new pair is stored and every call that waited is sent again.
refreshGranted(t) ==
  /\ flight[t].pc = "granted"
  /\ storage' = SignedIn(flight[t].tokens)
  /\ call' = [call EXCEPT ![t] = [c \in Calls |-> IF @[c] = "waiting" THEN "idle" ELSE @[c]]]
  /\ Flies(t, NoFlight)
  /\ UNCHANGED <<people, requests, live, signed, code, consumed, spent>>

\* authFetch clears the tokens and leaves for the login page; the stream tries
\* again later.
GivesUp(t) ==
  IF \E c \in Calls \ {Stream} : call[t][c] = "waiting"
  THEN /\ clearTokens
       /\ call' = [call EXCEPT ![t] = [c \in Calls |-> "idle"]]
  ELSE /\ call' = [call EXCEPT ![t][Stream] = "idle"]
       /\ UNCHANGED storage

refreshRefused_OneHears(t) ==
  /\ flight[t].pc = "refused"
  /\ \E c \in Calls :
       /\ call[t][c] = "waiting"
       /\ call' = [call EXCEPT ![t][c] = "idle"]
       /\ IF c = Stream THEN UNCHANGED storage ELSE clearTokens
  /\ Flies(t, NoFlight)
  /\ UNCHANGED <<people, requests, live, signed, code, consumed, spent>>

refreshRefused(t) ==
  /\ flight[t].pc = "refused"
  /\ GivesUp(t)
  /\ Flies(t, NoFlight)
  /\ UNCHANGED <<people, requests, live, signed, code, consumed, spent>>

\* The network fails before the request or before its answer arrives.
refreshLost(t) ==
  /\ flight[t].pc \in {"sent", "refused", "granted"}
  /\ GivesUp(t)
  /\ consumed' = Fated(t, "lost")
  /\ Flies(t, NoFlight)
  /\ Spend
  /\ UNCHANGED <<people, requests, live, signed, code>>

-----------------------------------------------------------------------------

Entering(q) ==
  \/ \E p \in People : register(q, p) \/ signIn(q, p) \/ googleUnknown(q, p)
  \/ findInvite(q) \/ joinByInvite(q) \/ createWorkspace(q) \/ createOwner(q) \/ issueCode(q)

Managing(d) == createInvite(d) \/ replaceInvite(d) \/ readMember(d) \/ writeMember(d)

\* What the API and the browser do once a refresh has begun.
Renewing(t) ==
  \/ refreshGets(t) \/ refreshDeletes(t) \/ refreshReadsUser(t) \/ refreshIssues(t)
  \/ refreshGranted(t) \/ refreshRefused(t)

Next ==
  \/ \E q \in Requests : Entering(q)
  \/ \E d \in Deeds : Managing(d)
  \/ \E p \in People : setSuspended(p) \/ renewElsewhere(p)
  \/ \E t \in Tabs :
       Renewing(t) \/ refreshLost(t) \/ \E c \in Calls : Calling(t, c) \/ Unauthorized(t, c)
  \/ exchange \/ revokeInvite \/ inviteExpires
  \/ accessExpires \/ refreshExpires \/ handleLogout

Spec == Init /\ [][Next]_vars

\* Requests are answered and tabs take the answers. Nobody has to do anything
\* on their own.
FairSpec ==
  /\ Spec
  /\ \A t \in Tabs : WF_vars(Renewing(t)) /\ \A c \in Calls : WF_vars(Unauthorized(t, c))

-----------------------------------------------------------------------------
(* Properties.                                                             *)

\* Types; the two stored tokens are there together or not at all, and no two
\* rows share an id.
TypeOK ==
  /\ made \subseteq Workspaces
  /\ \A p \in People : Exists(p) =>
       /\ user[p].role \in Roles /\ user[p].ws \in made
       /\ \A o \in People \ {p} : Exists(o) => user[o].id # user[p].id
  /\ storage.access \in {"none", "fresh", "stale"}
  /\ storage.access = "none" <=> storage.jti = 0
  /\ \A t \in Tabs :
       /\ flight[t].pc \in {"idle", "sent", "found", "taken", "read", "granted", "refused"}
       /\ \A c \in Calls : call[t][c] \in {"idle", "sent", "waiting"}

\* A workspace has an owner and nobody else in it is one.
Owned(w) ==
  \E o \in People :
    /\ Exists(o) /\ user[o].ws = w /\ user[o].role = "OWNER"
    /\ \A q \in People \ {o} : Exists(q) /\ user[q].ws = w => user[q].role # "OWNER"

\* Whatever invitations, sign-ins, role changes and removals overlap, a
\* workspace that anyone is in has exactly one owner (TeamService.updateRole
\* and removeMember, AuthService.register).
OneOwner == \A p \in People : Exists(p) => Owned(user[p].ws)

\* Whoever enters a workspace that is not their own uses up an invite that was
\* pending at that moment, for that workspace and in that role: two sign-ins
\* that found the same invite bring a person in once, and whoever was removed
\* in between does not come back by it (loginOrRegisterWithGoogle).
JoinsByPendingInvite ==
  [][\A p \in People :
       /\ Exists(p)' /\ user'[p].role # "OWNER"
       /\ ~Exists(p) \/ user[p].id # user'[p].id
       => \E i \in invites \ invites' :
            i.email = p /\ i.ws = user'[p].ws /\ i.role = user'[p].role]_vars

\* A tab sends the Surfer to the login page only if the account was removed or
\* suspended, the refresh token ran out, another tab took it, or the network
\* failed: never because two calls of one tab spent it twice (refreshPromise).
SignedOutForACause ==
  [][\A t \in Tabs :
       flight[t].pc = "refused" /\ storage # LoggedOut /\ storage' = LoggedOut
       /\ flight'[t] = NoFlight => flight[t].cause # "this tab"]_vars

\* A call that meets an expired token is sent again with a new one or ends at
\* the login page, whatever the other calls and tabs do to the tokens meanwhile:
\* none is left waiting for a refresh that is over (refreshAccessToken).
CallsEnd == \A t \in Tabs, c \in Calls : call[t][c] # "idle" ~> call[t][c] = "idle"

=============================================================================
