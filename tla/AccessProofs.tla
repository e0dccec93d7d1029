---------------------------- MODULE AccessProofs ----------------------------
(***************************************************************************)
(* What holds of workspaces and sessions for every set of people, of       *)
(* workspaces, requests and tabs and every bound.                          *)
(***************************************************************************)
EXTENDS Access, TLAPS, FiniteSetTheorems

-----------------------------------------------------------------------------
(* The inductive invariant.                                                *)

Row    == [id : Nat, ws : Workspaces, role : Roles, suspended : BOOLEAN]
Sign   == [id : Nat, ws : Workspaces, role : Roles]
Lesser == {"ADMIN", "MEMBER"}
Invite == [id : Nat, ws : Workspaces, email : People, role : Lesser, expired : BOOLEAN]
Tokens == [jti : Nat, as : Sign \cup {NoRow}]
Causes == {"none", "expired", "other tab", "account", "lost"}

Entry == [pc : {"idle", "workspace", "issue", "invite", "join", "user"},
          who : People \cup {Nobody}, row : Row \cup {NoRow},
          invite : Invite \cup {NoInvite}, ws : Workspaces \cup {Nowhere}]
Deed == [pc : {"idle", "replace", "write"}, kind : {"invite", "role", "remove"},
         actor : Sign \cup {NoRow}, target : People \cup {Nobody},
         member : Row \cup {NoRow}, role : Lesser, since : Nat]
Storage == [access : {"none", "fresh", "stale"}, jti : Nat, as : Sign \cup {NoRow}]
Flight == [pc : {"idle", "sent", "found", "taken", "read", "granted", "refused"},
           tokens : Tokens, took : Nat, cause : Causes, row : Row \cup {NoRow}]
Consumption == [jti : Nat \ {0}, tab : Tabs, fate : {"used", "account", "lost"}]

\* Types. That "this tab" is no cause is part of them.
Typed ==
  /\ user \in [People -> Row \cup {NoRow}]
  /\ made \subseteq Workspaces
  /\ invites \subseteq Invite
  /\ entry \in [Requests -> Entry]
  /\ deed \in [Deeds -> Deed]
  /\ code \in Tokens
  /\ storage \in Storage
  /\ call \in [Tabs -> [Calls -> {"idle", "sent", "waiting"}]]
  /\ flight \in [Tabs -> Flight]
  /\ consumed \subseteq Consumption
  /\ spent \in [rows : Nat, invites : Nat, all : Nat]

\* Everyone is in a workspace with its one owner, under an id of their own
\* that was given out.
Settled ==
  /\ \A p \in People : Exists(p) =>
       user[p].id <= spent.rows /\ user[p].ws \in made /\ Owned(user[p].ws)
  /\ \A p, o \in People : Exists(p) /\ Exists(o) /\ user[p].id = user[o].id => p = o

\* An invite leads into a workspace that has an owner.
Standing ==
  /\ \A i \in invites : i.id <= spent.invites /\ Owned(i.ws)
  /\ \A i, j \in invites : i.id = j.id => i = j

\* What a sign-in remembers of the invite it found is what the invite says for
\* as long as it is pending; a workspace that still waits for its owner is
\* empty and nobody else's to own.
EntryOK(q) ==
  LET e == entry[q]
  IN  /\ e.pc # "idle" => e.who \in People
      /\ e.pc = "join" =>
           /\ e.invite \in Invite /\ e.invite.id <= spent.invites
           /\ \A i \in invites : i.id = e.invite.id =>
                i.ws = e.invite.ws /\ i.role = e.invite.role /\ i.email = e.who
      /\ e.pc = "user" =>
           /\ e.ws \in made
           /\ \A p \in People : Exists(p) => user[p].ws # e.ws
           /\ \A r \in Requests \ {q} : entry[r].pc = "user" => entry[r].ws # e.ws
      /\ e.pc = "issue" => e.row \in Row /\ Owned(e.row.ws)

\* An invite is made for a workspace with an owner; the row that a change of a
\* member is about is not the owner's when it is written.
DeedOK(d) ==
  LET x == deed[d]
  IN  /\ x.pc = "replace" => x.actor \in Sign /\ Owned(x.actor.ws) /\ x.target \in People
      /\ x.pc = "write" =>
           /\ x.target \in People /\ x.member \in Row /\ x.member.id <= spent.rows
           /\ Exists(x.target) /\ user[x.target].id = x.member.id =>
                user[x.target].role # "OWNER"

Team ==
  /\ Settled /\ Standing
  /\ \A q \in Requests : EntryOK(q)
  /\ \A d \in Deeds : DeedOK(d)

\* Tokens are signed for workspaces with an owner.
Signed ==
  /\ \A s \in signed : s \in Sign /\ Owned(s.ws)
  /\ storage.access = "fresh" => storage.as \in Sign /\ Owned(storage.as.ws)
  /\ code # NoTokens => code.as \in Sign /\ Owned(code.as.ws)
  /\ \A t \in Tabs :
       /\ flight[t].pc = "read" => flight[t].row \in Row /\ Owned(flight[t].row.ws)
       /\ flight[t].pc = "granted" =>
            flight[t].tokens.as \in Sign /\ Owned(flight[t].tokens.as.ws)

\* The tabs that may still present, or have just been given, a refresh token.
Holding == {t \in Tabs : flight[t].pc \in {"sent", "found", "granted"}}

\* A refresh token that has not been stored or taken yet.
Unseen(j) == j # 0 /\ j # storage.jti /\ \A x \in consumed : x.jti # j

\* A new refresh token is held once. If a tab took the stored one, it is still
\* at the refresh that took it.
Held ==
  /\ storage.access = "none" <=> storage.jti = 0
  /\ \A x \in consumed : x.fate = "used" /\ x.jti = storage.jti =>
       /\ flight[x.tab].pc \in {"taken", "read", "granted"}
       /\ flight[x.tab].took = x.jti
  /\ code # NoTokens =>
       /\ Unseen(code.jti)
       /\ \A t \in Holding : flight[t].tokens.jti # code.jti
  /\ \A t \in Holding : flight[t].tokens.jti # 0
  /\ \A t \in Tabs : flight[t].pc = "sent" =>
       \A x \in consumed : x.tab = t /\ x.jti = flight[t].tokens.jti => x.fate # "used"
  /\ \A t \in Tabs : flight[t].pc = "granted" =>
       /\ Unseen(flight[t].tokens.jti)
       /\ \A o \in Holding \ {t} : flight[o].tokens.jti # flight[t].tokens.jti

IInv == Typed /\ Team /\ Signed /\ Held

-----------------------------------------------------------------------------

(* The number of a new refresh token is not 0 and is nobody's: fewer       *)
(* numbers are in sight than it is chosen from.                            *)
LEMMA FreshToken ==
  ASSUME Typed
  PROVE  freshJti \in Nat \ {0} /\ freshJti \notin InSight
<1> DEFINE n == Cardinality(InSight) + 1
           J == {flight[t].tokens.jti : t \in Tabs}
           f == [t \in Tabs |-> flight[t].tokens.jti]
<1>1. IsFiniteSet(InSight)
  <2>1. f \in Surjection(Tabs, J)
    BY DEF Surjection
  <2>2. IsFiniteSet(J)
    BY <2>1, FS_Surjection, AccessAssumption
  <2>3. IsFiniteSet({storage.jti}) /\ IsFiniteSet({code.jti})
    BY FS_Singleton
  <2>4. IsFiniteSet({storage.jti} \cup {code.jti})
    BY <2>3, FS_Union
  <2>5. IsFiniteSet(({storage.jti} \cup {code.jti}) \cup J)
    BY <2>2, <2>4, FS_Union
  <2>6. InSight = ({storage.jti} \cup {code.jti}) \cup J
    BY DEF InSight
  <2>. QED BY <2>5, <2>6
<1>2. Cardinality(InSight) \in Nat
  BY <1>1, FS_CardinalityType
<1>3. Cardinality(1..n) = n
  BY <1>2, FS_Interval, 1 \in Int, n \in Int, n >= 1
<1>4. ~(1..n \subseteq InSight)
  <2>1. SUFFICES ASSUME 1..n \subseteq InSight PROVE FALSE
    OBVIOUS
  <2>2. Cardinality(1..n) <= Cardinality(InSight)
    BY <1>1, <2>1, FS_Subset
  <2>. QED BY <1>2, <1>3, <2>2
<1>5. \E j \in 1..n : j \notin InSight
  BY <1>4
<1>6. freshJti \in 1..n /\ freshJti \notin InSight
  BY <1>5 DEF freshJti
<1>. QED BY <1>2, <1>6

(* What owns a workspace still owns it after a step that changes no row.   *)
LEMMA OwnedFrame ==
  ASSUME UNCHANGED user
  PROVE  \A w \in Workspaces : Owned(w) => Owned(w)'
BY DEF Owned, Exists

(* A signature is one, and so are the tokens issued for a row.             *)
LEMMA IssueTyping ==
  ASSUME Typed, NEW row \in Row
  PROVE  /\ Signature(row) \in Sign /\ Signature(row).ws = row.ws
         /\ Issued(row) \in Tokens /\ Issued(row) # NoTokens
         /\ Issued(row).jti = freshJti /\ Issued(row).as = Signature(row)
         /\ Issues => consumed' \subseteq Consumption
<1>1. freshJti \in Nat \ {0}
  BY FreshToken
<1>2. Signature(row) \in Sign /\ Signature(row).ws = row.ws
  BY DEF Signature, Row, Sign
<1>3. Issued(row) \in Tokens /\ Issued(row) # NoTokens
  BY <1>1, <1>2 DEF Issued, Tokens, NoTokens
<1>4. Issues => consumed' \subseteq Consumption
  BY DEF Issues, Typed
<1>. QED BY <1>2, <1>3, <1>4 DEF Issued

(* A token that is gone was not taken by the tab that presents it.         *)
LEMMA WhyTyping ==
  ASSUME Typed, Held, NEW t \in Tabs, flight[t].pc = "sent"
  PROVE  Why(t, flight[t].tokens.jti) \subseteq Causes
<1> DEFINE taken == {x \in consumed : x.jti = flight[t].tokens.jti}
<1>1. \A x \in taken : x.tab = t => x.fate # "used"
  BY DEF Held
<1>2. \A x \in taken : x.fate \in {"used", "account", "lost"}
  BY DEF Typed, Consumption
<1>. QED BY <1>1, <1>2 DEF Why, Causes

(* One more bounded event.                                                 *)
LEMMA SpendTyping ==
  ASSUME Typed, Spend
  PROVE  /\ spent' \in [rows : Nat, invites : Nat, all : Nat]
         /\ spent'.rows = spent.rows /\ spent'.invites = spent.invites
BY DEF Typed, Spend

(* Whom an API call acts as, signed in to a workspace with its owner.      *)
LEMMA ActingSigned ==
  ASSUME Typed, Team, Signed, NEW a \in Acting
  PROVE  a \in Sign /\ Owned(a.ws)
<1>1. CASE storage.access = "fresh" /\ a = storage.as
  BY <1>1 DEF Signed
<1>2. CASE a \in signed
  BY <1>2 DEF Signed
<1>. QED BY <1>1, <1>2 DEF Acting

(* A record that goes on from another of its kind is of that kind.         *)
LEMMA EntryTyping ==
  ASSUME NEW e \in Entry
  PROVE  /\ [e EXCEPT !.pc = "workspace"] \in Entry
         /\ \A i \in Invite : [e EXCEPT !.pc = "join", !.invite = i] \in Entry
         /\ \A w \in Workspaces : [e EXCEPT !.pc = "user", !.ws = w] \in Entry
         /\ \A r \in Row : [e EXCEPT !.pc = "issue", !.row = r] \in Entry
         /\ NoEntry \in Entry
         /\ \A p \in People :
              /\ [NoEntry EXCEPT !.pc = "workspace", !.who = p] \in Entry
              /\ [NoEntry EXCEPT !.pc = "invite", !.who = p] \in Entry
              /\ \A r \in Row : [NoEntry EXCEPT !.pc = "issue", !.who = p, !.row = r] \in Entry
BY DEF Entry, NoEntry

(* A sign-in keeps the types.                                              *)
LEMMA EnteringTyping ==
  ASSUME IInv, NEW q \in Requests, Entering(q)
  PROVE  Typed'
<1> USE DEF people, requests, session
<1>1. Typed /\ EntryOK(q) /\ entry[q] \in Entry
  BY DEF IInv, Team, Typed
<1>2. ASSUME NEW e \in Entry, Enters(q, e)
      PROVE  entry' \in [Requests -> Entry]
  BY <1>1, <1>2 DEF Enters, Typed
<1>3. ASSUME NEW p \in People, register(q, p) \/ googleUnknown(q, p)
      PROVE  Typed'
  <2>1. spent' \in [rows : Nat, invites : Nat, all : Nat]
    BY <1>1, <1>3, SpendTyping DEF register, googleUnknown
  <2>2. entry' \in [Requests -> Entry]
    <3>1. CASE register(q, p)
      BY <1>1, <1>2, <3>1, EntryTyping DEF register
    <3>2. CASE googleUnknown(q, p)
      BY <1>1, <1>2, <3>2, EntryTyping DEF googleUnknown
    <3>. QED BY <1>3, <3>1, <3>2
  <2>. QED BY <1>1, <1>3, <2>1, <2>2 DEF register, googleUnknown, Typed
<1>4. ASSUME NEW p \in People, signIn(q, p)
      PROVE  Typed'
  <2>1. spent' \in [rows : Nat, invites : Nat, all : Nat]
    BY <1>1, <1>4, SpendTyping DEF signIn
  <2>2. entry' \in [Requests -> Entry]
    BY <1>1, <1>2, <1>4, EntryTyping DEF signIn, Exists, Typed
  <2>. QED BY <1>1, <1>4, <2>1, <2>2 DEF signIn, Typed
<1>5. CASE findInvite(q)
  <2>1. entry' \in [Requests -> Entry]
    BY <1>1, <1>2, <1>5, EntryTyping DEF findInvite, Typed
  <2>. QED BY <1>1, <1>5, <2>1 DEF findInvite, Typed
<1>6. CASE joinByInvite(q)
  <2> DEFINE row == Created(entry[q].who, entry[q].invite.ws, entry[q].invite.role)
  <2>1. row \in Row /\ entry[q].who \in People
    BY <1>1, <1>6 DEF joinByInvite, EntryOK, Created, Row, Invite, Lesser, Roles, Typed
  <2>2. entry' \in [Requests -> Entry]
    BY <1>1, <1>2, <1>6, <2>1, EntryTyping DEF joinByInvite
  <2>3. user' \in [People -> Row \cup {NoRow}]
    BY <1>1, <1>6, <2>1 DEF joinByInvite, Typed
  <2>. QED BY <1>1, <1>6, <2>2, <2>3 DEF joinByInvite, Typed
<1>7. CASE createWorkspace(q)
  <2>1. entry' \in [Requests -> Entry]
    BY <1>1, <1>2, <1>7, EntryTyping DEF createWorkspace
  <2>. QED BY <1>1, <1>7, <2>1 DEF createWorkspace, Typed
<1>8. CASE createOwner(q)
  <2> DEFINE row == Created(entry[q].who, entry[q].ws, "OWNER")
  <2>1. row \in Row /\ entry[q].who \in People
    BY <1>1, <1>8 DEF createOwner, EntryOK, Created, Row, Roles, Typed
  <2>2. entry' \in [Requests -> Entry]
    BY <1>1, <1>2, <1>8, <2>1, EntryTyping DEF createOwner
  <2>3. user' \in [People -> Row \cup {NoRow}]
    BY <1>1, <1>8, <2>1 DEF createOwner, Typed
  <2>. QED BY <1>1, <1>8, <2>2, <2>3 DEF createOwner, Typed
<1>9. CASE issueCode(q)
  <2>1. entry' \in [Requests -> Entry]
    BY <1>2, <1>9, EntryTyping, <1>1 DEF issueCode
  <2>2. code' \in Tokens /\ consumed' \subseteq Consumption
    BY <1>1, <1>9, IssueTyping DEF issueCode, EntryOK, Typed
  <2>. QED BY <1>1, <1>9, <2>1, <2>2 DEF issueCode, Typed
<1>. QED BY <1>3, <1>4, <1>5, <1>6, <1>7, <1>8, <1>9 DEF Entering

(* A change of the team keeps the types.                                   *)
LEMMA ManagingTyping ==
  ASSUME IInv, NEW d \in Deeds, Managing(d)
  PROVE  Typed'
<1> USE DEF people, requests, session
<1>1. Typed /\ DeedOK(d) /\ deed[d] \in Deed
  BY DEF IInv, Team, Typed
<1>2. NoDeed \in Deed
  BY DEF NoDeed, Deed, Lesser
<1>3. CASE createInvite(d)
  <2>1. spent' \in [rows : Nat, invites : Nat, all : Nat]
    BY <1>1, <1>3, SpendTyping DEF createInvite
  <2>2. PICK a \in Acting, p \in People, r \in Lesser :
          Does(d, [NoDeed EXCEPT !.pc = "replace", !.actor = a, !.target = p, !.role = r,
                            !.since = spent.invites])
    BY <1>3 DEF createInvite, Lesser
  <2>3. a \in Sign
    BY ActingSigned DEF IInv
  <2>4. deed' \in [Deeds -> Deed]
    BY <1>1, <2>2, <2>3 DEF Does, NoDeed, Deed, Typed
  <2>. QED BY <1>1, <1>3, <2>1, <2>4 DEF createInvite, Typed
<1>4. CASE replaceInvite(d)
  <2> DEFINE n == spent.invites + 1
             i == [id |-> n, ws |-> deed[d].actor.ws, email |-> deed[d].target,
                   role |-> deed[d].role, expired |-> FALSE]
  <2>1. i \in Invite
    BY <1>1, <1>4 DEF replaceInvite, DeedOK, Deed, Sign, Invite, Typed
  <2>2. invites' \subseteq invites \cup {i}
    BY <1>4 DEF replaceInvite
  <2>3. deed' \in [Deeds -> Deed]
    BY <1>1, <1>2, <1>4 DEF replaceInvite, Does, Typed
  <2>4. spent' \in [rows : Nat, invites : Nat, all : Nat]
    BY <1>1, <1>4 DEF replaceInvite, Typed
  <2>5. UNCHANGED <<user, made, entry, session>>
    BY <1>4 DEF replaceInvite
  <2>. QED BY <1>1, <2>1, <2>2, <2>3, <2>4, <2>5 DEF Typed
<1>5. CASE readMember(d)
  <2>1. spent' \in [rows : Nat, invites : Nat, all : Nat]
    BY <1>1, <1>5, SpendTyping DEF readMember
  <2>2. PICK a \in Acting, p \in People, kind \in {"role", "remove"}, r \in Lesser :
          /\ Exists(p)
          /\ Does(d, [pc |-> "write", kind |-> kind, actor |-> a, target |-> p,
                      member |-> user[p], role |-> r, since |-> 0])
    BY <1>5 DEF readMember, Lesser
  <2>3. a \in Sign
    BY ActingSigned DEF IInv
  <2>4. deed' \in [Deeds -> Deed]
    BY <1>1, <2>2, <2>3 DEF Does, Deed, Typed
  <2>. QED BY <1>1, <1>5, <2>1, <2>4 DEF readMember, Typed
<1>6. CASE writeMember(d)
  <2>1. deed' \in [Deeds -> Deed]
    BY <1>1, <1>2, <1>6 DEF writeMember, Does, Typed
  <2>2. user' \in [People -> Row \cup {NoRow}]
    BY <1>1, <1>6 DEF writeMember, DeedOK, Deed, Exists, Row, Lesser, Roles, Typed
  <2>. QED BY <1>1, <1>6, <2>1, <2>2 DEF writeMember, Typed
<1>. QED BY <1>3, <1>4, <1>5, <1>6 DEF Managing

(* So does every step of a tab.                                            *)
LEMMA TabTyping ==
  ASSUME IInv, NEW t \in Tabs,
         Renewing(t) \/ refreshLost(t) \/ \E c \in Calls : Calling(t, c) \/ Unauthorized(t, c)
  PROVE  Typed'
<1> USE DEF people, requests, session
<1>1. Typed /\ flight[t] \in Flight /\ call[t] \in [Calls -> {"idle", "sent", "waiting"}]
  BY DEF IInv, Typed
<1>2. NoFlight \in Flight /\ LoggedOut \in Storage
  BY DEF NoFlight, NoTokens, Flight, Tokens, Causes, LoggedOut, Storage
<1>3. \A tokens \in Tokens : SignedIn(tokens) \in Storage
  BY DEF SignedIn, Tokens, Storage
<1>4. GivesUp(t) => /\ storage' \in Storage
                    /\ call' \in [Tabs -> [Calls -> {"idle", "sent", "waiting"}]]
  <2>1. Stream \in Calls
    BY AccessAssumption
  <2>2. [call EXCEPT ![t] = [c \in Calls |-> "idle"]]
          \in [Tabs -> [Calls -> {"idle", "sent", "waiting"}]]
    BY <1>1 DEF Typed
  <2>3. [call[t] EXCEPT ![Stream] = "idle"] \in [Calls -> {"idle", "sent", "waiting"}]
    BY <1>1, <2>1
  <2>4. [call EXCEPT ![t][Stream] = "idle"]
          \in [Tabs -> [Calls -> {"idle", "sent", "waiting"}]]
    BY <1>1, <2>3 DEF Typed
  <2>. QED BY <1>1, <1>2, <2>2, <2>4 DEF GivesUp, clearTokens, Typed
<1>5. \A fate \in {"account", "lost"} : Fated(t, fate) \subseteq Consumption
  BY <1>1 DEF Fated, Consumption, Typed
<1>6. CASE refreshGets(t)
  <2>1. flight[t].pc = "sent" => Why(t, flight[t].tokens.jti) \subseteq Causes
    BY WhyTyping DEF IInv
  <2>2. flight' \in [Tabs -> Flight]
    <3>1. [flight[t] EXCEPT !.pc = "found"] \in Flight
      BY <1>1 DEF Flight
    <3>2. \A cause \in Causes : [flight[t] EXCEPT !.pc = "refused", !.cause = cause] \in Flight
      BY <1>1 DEF Flight
    <3>3. CASE Flies(t, [flight[t] EXCEPT !.pc = "found"])
      BY <1>1, <3>1, <3>3 DEF Flies, Typed
    <3>4. ASSUME NEW cause \in Causes,
                 Flies(t, [flight[t] EXCEPT !.pc = "refused", !.cause = cause])
          PROVE  flight' \in [Tabs -> Flight]
      BY <1>1, <3>2, <3>4 DEF Flies, Typed
    <3>. QED BY <1>6, <2>1, <3>3, <3>4 DEF refreshGets
  <2>. QED BY <1>1, <1>6, <2>2 DEF refreshGets, Typed
<1>7. CASE refreshDeletes(t)
  <2>1. flight[t].tokens.jti \in Nat \ {0}
    BY <1>1, <1>7 DEF refreshDeletes, Flight, Tokens, IInv, Held, Holding
  <2>2. flight' \in [Tabs -> Flight]
    BY <1>1, <1>7, <2>1 DEF refreshDeletes, Flies, Flight, Typed
  <2>3. consumed' \subseteq Consumption
    BY <1>1, <1>7, <2>1 DEF refreshDeletes, Consumption, Typed
  <2>. QED BY <1>1, <1>7, <2>2, <2>3 DEF refreshDeletes, Typed
<1>8. CASE refreshReadsUser(t)
  <2> DEFINE found == {user[p] : p \in {p \in People : Exists(p) /\ user[p].id = flight[t].tokens.as.id}}
             row == IF found = {} THEN NoRow ELSE CHOOSE r \in found : TRUE
  <2>1. row \in Row \cup {NoRow}
    BY <1>1 DEF Exists, Typed
  <2>2. flight' \in [Tabs -> Flight]
    <3>1. CASE Flies(t, [flight[t] EXCEPT !.pc = "read", !.row = row])
      BY <1>1, <2>1, <3>1 DEF Flies, Flight, Typed
    <3>2. CASE Flies(t, [flight[t] EXCEPT !.pc = "refused", !.cause = "account"])
      BY <1>1, <3>2 DEF Flies, Flight, Causes, Typed
    <3>. QED BY <1>8, <3>1, <3>2 DEF refreshReadsUser
  <2>3. consumed' \subseteq Consumption
    BY <1>1, <1>5, <1>8 DEF refreshReadsUser, Typed
  <2>. QED BY <1>1, <1>8, <2>2, <2>3 DEF refreshReadsUser, Typed
<1>9. CASE refreshIssues(t)
  <2>1. flight[t].row \in Row
    BY <1>9 DEF refreshIssues, IInv, Signed
  <2>2. Issued(flight[t].row) \in Tokens /\ consumed' \subseteq Consumption
    BY <1>1, <1>9, <2>1, IssueTyping DEF refreshIssues
  <2>3. flight' \in [Tabs -> Flight]
    BY <1>1, <1>9, <2>2 DEF refreshIssues, Flies, Flight, Typed
  <2>. QED BY <1>1, <1>9, <2>2, <2>3 DEF refreshIssues, Typed
<1>10. CASE refreshGranted(t)
  <2>1. storage' \in Storage
    BY <1>1, <1>3, <1>10 DEF refreshGranted, Flight
  <2>2. call' \in [Tabs -> [Calls -> {"idle", "sent", "waiting"}]]
    BY <1>1, <1>10 DEF refreshGranted, Typed
  <2>. QED BY <1>1, <1>2, <1>10, <2>1, <2>2 DEF refreshGranted, Flies, Typed
<1>11. CASE refreshRefused(t)
  BY <1>1, <1>2, <1>4, <1>11 DEF refreshRefused, Flies, Typed
<1>12. CASE refreshLost(t)
  <2>1. spent' \in [rows : Nat, invites : Nat, all : Nat]
    BY <1>1, <1>12, SpendTyping DEF refreshLost
  <2>. QED BY <1>1, <1>2, <1>4, <1>5, <1>12, <2>1 DEF refreshLost, Flies, Typed
<1>13. ASSUME NEW c \in Calls, Calling(t, c)
       PROVE  Typed'
  <2>1. spent' \in [rows : Nat, invites : Nat, all : Nat]
    BY <1>1, <1>13, SpendTyping DEF Calling
  <2>. QED BY <1>1, <1>13, <2>1 DEF Calling, Typed
<1>14. ASSUME NEW c \in Calls, Unauthorized(t, c)
       PROVE  Typed'
  <2>1. call' \in [Tabs -> [Calls -> {"idle", "sent", "waiting"}]]
    <3>1. \A v \in {"idle", "waiting"} :
            [call[t] EXCEPT ![c] = v] \in [Calls -> {"idle", "sent", "waiting"}]
      BY <1>1
    <3>2. [k \in Calls |-> "idle"] \in [Calls -> {"idle", "sent", "waiting"}]
      OBVIOUS
    <3>3. PICK f \in [Calls -> {"idle", "sent", "waiting"}] : call' = [call EXCEPT ![t] = f]
      <4>1. CASE call' = [call EXCEPT ![t][c] = "waiting"]
        BY <3>1, <4>1
      <4>2. CASE call' = [call EXCEPT ![t] =
                    IF c = Stream THEN [@ EXCEPT ![c] = "idle"] ELSE [k \in Calls |-> "idle"]]
        BY <3>1, <3>2, <4>2
      <4>. QED BY <1>14, <4>1, <4>2 DEF Unauthorized
    <3>. QED BY <1>1, <3>3 DEF Typed
  <2>2. [NoFlight EXCEPT !.pc = "sent", !.tokens = [jti |-> storage.jti, as |-> storage.as]]
          \in Flight
    BY <1>1 DEF NoFlight, NoTokens, Flight, Tokens, Causes, Storage, Typed
  <2>3. flight' \in [Tabs -> Flight] /\ storage' \in Storage
    BY <1>1, <1>2, <1>14, <2>2 DEF Unauthorized, clearTokens, Typed
  <2>. QED BY <1>1, <1>14, <2>1, <2>3 DEF Unauthorized, Typed
<1>. QED BY <1>6, <1>7, <1>8, <1>9, <1>10, <1>11, <1>12, <1>13, <1>14 DEF Renewing

(* And so does every step that is nobody's in particular.                  *)
LEMMA OtherTyping ==
  ASSUME IInv,
         \/ \E p \in People : setSuspended(p) \/ renewElsewhere(p)
         \/ exchange \/ revokeInvite \/ inviteExpires
         \/ accessExpires \/ refreshExpires \/ handleLogout
  PROVE  Typed'
<1> USE DEF people, requests, session
<1>1. Typed
  BY DEF IInv
<1>2. ASSUME NEW p \in People, setSuspended(p)
      PROVE  Typed'
  <2>1. spent' \in [rows : Nat, invites : Nat, all : Nat]
    BY <1>1, <1>2, SpendTyping DEF setSuspended
  <2>2. user' \in [People -> Row \cup {NoRow}]
    BY <1>1, <1>2 DEF setSuspended, Exists, Row, Typed
  <2>. QED BY <1>1, <1>2, <2>1, <2>2 DEF setSuspended, Typed
<1>3. CASE exchange
  <2>1. code' \in Tokens /\ storage' \in Storage
    BY <1>1, <1>3 DEF exchange, NoTokens, Tokens, SignedIn, Storage, Typed
  <2>. QED BY <1>1, <1>3, <2>1 DEF exchange, Typed
<1>4. CASE revokeInvite \/ refreshExpires \/ handleLogout
  <2>1. spent' \in [rows : Nat, invites : Nat, all : Nat]
    BY <1>1, <1>4, SpendTyping DEF revokeInvite, refreshExpires, handleLogout
  <2>2. storage' \in Storage /\ invites' \subseteq Invite
    BY <1>1, <1>4 DEF revokeInvite, refreshExpires, handleLogout, clearTokens, LoggedOut,
                      Storage, Typed
  <2>. QED BY <1>1, <1>4, <2>1, <2>2 DEF revokeInvite, refreshExpires, handleLogout, Typed
<1>5. CASE inviteExpires
  <2>1. invites' \subseteq Invite
    BY <1>1, <1>5 DEF inviteExpires, Invite, Typed
  <2>. QED BY <1>1, <1>5, <2>1 DEF inviteExpires, Typed
<1>6. CASE accessExpires
  BY <1>1, <1>6 DEF accessExpires, Storage, Typed
<1>7. ASSUME NEW p \in People, renewElsewhere(p)
      PROVE  Typed'
  BY <1>1, <1>7 DEF renewElsewhere, Typed
<1>. QED BY <1>2, <1>3, <1>4, <1>5, <1>6, <1>7

-----------------------------------------------------------------------------
(* Owners.                                                                 *)

\* No workspace with its one owner is left without.
OwnersStay == \A w \in Workspaces : Owned(w) => Owned(w)'

\* Rows change in nothing but what makes no owner, and no owner's row goes.
Steady ==
  /\ \A p \in People : Exists(p)' =>
       /\ Exists(p) /\ user'[p].id = user[p].id /\ user'[p].ws = user[p].ws
       /\ user'[p].role = "OWNER" <=> user[p].role = "OWNER"
  /\ \A p \in People : Exists(p) /\ user[p].role = "OWNER" => Exists(p)'

\* Every pending invite was one before or is new.
InvitesGoOn ==
  /\ spent'.invites \in Nat /\ spent'.invites >= spent.invites
  /\ \A i \in invites' :
       \/ \E k \in invites : k.id = i.id /\ k.ws = i.ws /\ k.role = i.role /\ k.email = i.email
       \/ i.id > spent.invites

(* Rows that are steady keep every owner and everyone settled.             *)
LEMMA SteadyRows ==
  ASSUME IInv, Steady, made \subseteq made', spent'.rows = spent.rows
  PROVE  OwnersStay /\ Settled'
<1>1. Typed /\ Settled
  BY DEF IInv, Team
<1>2. OwnersStay
  BY DEF OwnersStay, Owned, Steady
<1>3. \A p \in People : Exists(p) => user[p].ws \in Workspaces
  BY <1>1 DEF Typed, Exists, Row
<1>4. ASSUME NEW p \in People, Exists(p)'
      PROVE  user'[p].id <= spent'.rows /\ user'[p].ws \in made' /\ Owned(user[p].ws)'
  <2>1. Exists(p) /\ user'[p].id = user[p].id /\ user'[p].ws = user[p].ws
    BY <1>4 DEF Steady
  <2>2. Owned(user[p].ws) /\ user[p].ws \in Workspaces
    BY <1>1, <1>3, <2>1 DEF Settled
  <2>3. Owned(user[p].ws)'
    BY <1>2, <2>1, <2>2 DEF OwnersStay
  <2>4. user[p].id <= spent.rows /\ user[p].ws \in made
    BY <1>1, <2>1 DEF Settled
  <2>. QED BY <2>1, <2>3, <2>4
<1>5. \A p, o \in People : Exists(p)' /\ Exists(o)' /\ user'[p].id = user'[o].id => p = o
  BY <1>1 DEF Settled, Steady
<1>. QED BY <1>2, <1>4, <1>5 DEF Settled

(* Nothing about the rows changed.                                         *)
LEMMA SameRows ==
  ASSUME UNCHANGED user
  PROVE  Steady
BY DEF Steady, Exists

(* A new row, of an owner in an empty workspace or of anyone else in one   *)
(* with an owner.                                                          *)
LEMMA NewRow ==
  ASSUME IInv, NEW p \in People, ~Exists(p), NEW row \in Row, row.id = spent.rows + 1,
         row.ws \in made, made' = made,
         user' = [user EXCEPT ![p] = row], spent' = [spent EXCEPT !.rows = @ + 1],
         \/ row.role # "OWNER" /\ Owned(row.ws)
         \/ row.role = "OWNER" /\ \A o \in People : Exists(o) => user[o].ws # row.ws
  PROVE  /\ OwnersStay /\ Settled' /\ Owned(row.ws)'
         /\ spent'.rows = spent.rows + 1 /\ spent'.invites = spent.invites
         /\ \A o \in People : Exists(o)' => o = p \/ (Exists(o) /\ user'[o] = user[o])
         /\ user'[p] = row /\ Exists(p)'
<1>1. Typed /\ Settled
  BY DEF IInv, Team
<1>2. spent'.rows = spent.rows + 1 /\ spent'.invites = spent.invites /\ spent.rows \in Nat
  BY <1>1 DEF Typed
<1>3. row # NoRow
  BY AccessAssumption DEF Row, Roles
<1>4. user'[p] = row /\ \A o \in People \ {p} : user'[o] = user[o]
  BY <1>1 DEF Typed
<1>5. Exists(p)' /\ \A o \in People \ {p} : Exists(o)' <=> Exists(o)
  BY <1>3, <1>4 DEF Exists
<1>6. ASSUME NEW w \in Workspaces, Owned(w)
      PROVE  Owned(w)'
  <2>1. PICK o \in People :
          /\ Exists(o) /\ user[o].ws = w /\ user[o].role = "OWNER"
          /\ \A q \in People \ {o} : Exists(q) /\ user[q].ws = w => user[q].role # "OWNER"
    BY <1>6 DEF Owned
  <2>2. o # p /\ Exists(o)' /\ user'[o].ws = w /\ user'[o].role = "OWNER"
    BY <1>4, <1>5, <2>1
  <2>3. row.ws = w => row.role # "OWNER"
    BY <2>1
  <2>4. \A q \in People \ {o} : Exists(q)' /\ user'[q].ws = w => user'[q].role # "OWNER"
    BY <1>4, <1>5, <2>1, <2>3
  <2>. QED BY <2>2, <2>4 DEF Owned
<1>7. Owned(row.ws)'
  <2>1. row.ws \in Workspaces
    BY DEF Row
  <2>2. CASE Owned(row.ws)
    BY <1>6, <2>1, <2>2
  <2>3. CASE row.role = "OWNER" /\ \A o \in People : Exists(o) => user[o].ws # row.ws
    BY <1>4, <1>5, <2>3 DEF Owned
  <2>. QED BY <2>2, <2>3
<1>8. Settled'
  <2>1. ASSUME NEW o \in People, Exists(o)'
        PROVE  user'[o].id <= spent'.rows /\ user'[o].ws \in made' /\ Owned(user[o].ws)'
    <3>1. CASE o = p
      <4>1. user'[o].ws = row.ws /\ user'[o].id = spent'.rows
        BY <1>2, <1>4, <3>1
      <4>2. row.id \in Nat
        BY DEF Row
      <4>. QED BY <1>2, <1>4, <1>7, <3>1, <4>1, <4>2
    <3>2. CASE o # p
      <4>1. Exists(o) /\ user'[o] = user[o]
        BY <1>4, <1>5, <2>1, <3>2
      <4>2. user[o] \in Row
        BY <1>1, <4>1 DEF Typed, Exists
      <4>3. user[o].id \in Nat /\ user[o].ws \in Workspaces
        BY <4>2 DEF Row
      <4>4. user[o].id <= spent.rows /\ user[o].ws \in made /\ Owned(user[o].ws)
        BY <1>1, <4>1 DEF Settled
      <4>5. Owned(user[o].ws)'
        BY <1>6, <4>1, <4>3, <4>4
      <4>. QED BY <1>2, <4>1, <4>3, <4>4, <4>5
    <3>. QED BY <3>1, <3>2
  <2>2. \A o \in People \ {p} : Exists(o)' => user'[o].id < row.id
    <3>1. \A o \in People : Exists(o) => user[o].id \in Nat
      BY <1>1 DEF Typed, Exists, Row
    <3>. QED BY <1>1, <1>2, <1>4, <1>5, <3>1 DEF Settled
  <2>3. \A q, o \in People : Exists(q)' /\ Exists(o)' /\ user'[q].id = user'[o].id => q = o
    <3>1. row.id \in Nat
      BY DEF Row
    <3>. QED BY <1>1, <1>4, <1>5, <2>2, <3>1 DEF Settled
  <2>. QED BY <2>1, <2>3 DEF Settled
<1>9. OwnersStay
  BY <1>6 DEF OwnersStay
<1>10. \A o \in People : Exists(o)' => o = p \/ (Exists(o) /\ user'[o] = user[o])
  BY <1>4, <1>5
<1>. QED BY <1>2, <1>4, <1>5, <1>7, <1>8, <1>9, <1>10

(* A sign-in that does not move keeps what it relies on.                   *)
LEMMA EntryStays ==
  ASSUME Typed, OwnersStay, InvitesGoOn, made \subseteq made',
         NEW q \in Requests, EntryOK(q), entry'[q] = entry[q],
         entry[q].pc = "user" =>
           /\ \A p \in People : Exists(p)' => user'[p].ws # entry[q].ws
           /\ \A r \in Requests \ {q} : entry'[r].pc = "user" => entry'[r].ws # entry[q].ws
  PROVE  EntryOK(q)'
<1> DEFINE e == entry[q]
<1>1. e.pc = "join" =>
        /\ e.invite \in Invite /\ e.invite.id <= spent'.invites
        /\ \A i \in invites' : i.id = e.invite.id =>
             i.ws = e.invite.ws /\ i.role = e.invite.role /\ i.email = e.who
  <2>1. SUFFICES ASSUME e.pc = "join"
                 PROVE  /\ e.invite \in Invite /\ e.invite.id <= spent'.invites
                        /\ \A i \in invites' : i.id = e.invite.id =>
                             i.ws = e.invite.ws /\ i.role = e.invite.role /\ i.email = e.who
    OBVIOUS
  <2>2. /\ e.invite \in Invite /\ e.invite.id <= spent.invites
        /\ \A i \in invites : i.id = e.invite.id =>
             i.ws = e.invite.ws /\ i.role = e.invite.role /\ i.email = e.who
    BY <2>1 DEF EntryOK
  <2>3. /\ e.invite.id \in Nat /\ spent.invites \in Nat /\ spent'.invites \in Nat
        /\ spent'.invites >= spent.invites
    BY <2>2 DEF Invite, Typed, InvitesGoOn
  <2>. QED BY <2>2, <2>3 DEF InvitesGoOn
<1>2. e.pc = "issue" => e.row \in Row /\ Owned(e.row.ws)'
  <2>1. e.pc = "issue" => e.row \in Row /\ Owned(e.row.ws)
    BY DEF EntryOK
  <2>2. e.row \in Row => e.row.ws \in Workspaces
    BY DEF Row
  <2>. QED BY <2>1, <2>2 DEF OwnersStay
<1>3. e.pc = "user" => e.ws \in made'
  BY DEF EntryOK
<1>4. e.pc # "idle" => e.who \in People
  BY DEF EntryOK
<1>. QED BY <1>1, <1>2, <1>3, <1>4 DEF EntryOK

(* Nor does a change of the team that waits.                               *)
LEMMA DeedStays ==
  ASSUME Typed, OwnersStay, spent'.rows >= spent.rows, spent'.rows \in Nat,
         NEW d \in Deeds, DeedOK(d), deed'[d] = deed[d],
         \A p \in People : Exists(p)' =>
           \/ Exists(p) /\ user'[p].id = user[p].id /\ (user'[p].role = "OWNER" <=> user[p].role = "OWNER")
           \/ user'[p].id > spent.rows
  PROVE  DeedOK(d)'
<1> DEFINE x == deed[d]
<1>1. x.pc = "replace" => x.actor \in Sign /\ Owned(x.actor.ws)' /\ x.target \in People
  BY DEF DeedOK, OwnersStay, Sign
<1>2. x.pc = "write" =>
        /\ x.target \in People /\ x.member \in Row /\ x.member.id <= spent'.rows
        /\ Exists(x.target)' /\ user'[x.target].id = x.member.id =>
             user'[x.target].role # "OWNER"
  <2>1. SUFFICES ASSUME x.pc = "write"
                 PROVE  /\ x.target \in People /\ x.member \in Row /\ x.member.id <= spent'.rows
                        /\ Exists(x.target)' /\ user'[x.target].id = x.member.id =>
                             user'[x.target].role # "OWNER"
    OBVIOUS
  <2>2. /\ x.target \in People /\ x.member \in Row /\ x.member.id <= spent.rows
        /\ Exists(x.target) /\ user[x.target].id = x.member.id =>
             user[x.target].role # "OWNER"
    BY <2>1 DEF DeedOK
  <2>3. x.member.id \in Nat /\ spent.rows \in Nat
    BY <2>2 DEF Row, Typed
  <2>. QED BY <2>2, <2>3
<1>. QED BY <1>1, <1>2 DEF DeedOK

(* Nor does the session of the browser.                                    *)
LEMMA SignedStays ==
  ASSUME Typed, Signed, OwnersStay, UNCHANGED session
  PROVE  Signed'
<1>1. \A x \in Sign \cup Row : x.ws \in Workspaces
  BY DEF Sign, Row
<1>2. UNCHANGED <<storage, code, flight>>
  BY DEF session
<1>3. storage.access = "fresh" => storage.as \in Sign /\ Owned(storage.as.ws)'
  BY <1>1, <1>2 DEF Signed, OwnersStay
<1>4. code # NoTokens => code.as \in Sign /\ Owned(code.as.ws)'
  BY <1>1, <1>2 DEF Signed, OwnersStay
<1>5. ASSUME NEW t \in Tabs
      PROVE  /\ flight[t].pc = "read" => flight[t].row \in Row /\ Owned(flight[t].row.ws)'
             /\ flight[t].pc = "granted" =>
                  flight[t].tokens.as \in Sign /\ Owned(flight[t].tokens.as.ws)'
  BY <1>1, <1>2 DEF Signed, OwnersStay
<1>6. \A s \in signed' : s \in Sign /\ Owned(s.ws)'
  BY <1>1 DEF Signed, OwnersStay, session
<1>. QED BY <1>2, <1>3, <1>4, <1>5, <1>6 DEF Signed

-----------------------------------------------------------------------------
(* Sign-ins, the team and the session, one after another.                  *)

(* The invites that are left when none was added are as they were.         *)
LEMMA InvitesStay ==
  ASSUME IInv, OwnersStay, invites' \subseteq invites, spent'.invites = spent.invites
  PROVE  InvitesGoOn /\ Standing'
<1>1. Typed /\ Standing
  BY DEF IInv, Team
<1>2. InvitesGoOn
  BY <1>1 DEF InvitesGoOn, Typed
<1>3. \A i \in invites : i.ws \in Workspaces
  BY <1>1 DEF Typed, Invite
<1>4. ASSUME NEW i \in invites'
      PROVE  i.id <= spent'.invites /\ Owned(i.ws)'
  BY <1>1, <1>3, <1>4 DEF Standing, OwnersStay
<1>5. \A i, j \in invites' : i.id = j.id => i = j
  BY <1>1 DEF Standing
<1>. QED BY <1>2, <1>4, <1>5 DEF Standing

(* What a step of one sign-in leaves of the others and of the team.        *)
LEMMA EnterFrame ==
  ASSUME IInv, OwnersStay, InvitesGoOn, Settled', Standing', made \subseteq made',
         spent'.rows \in Nat, spent'.rows >= spent.rows, UNCHANGED deed,
         NEW q \in Requests, NEW e, Enters(q, e), EntryOK(q)',
         \A p \in People : Exists(p)' =>
           \/ /\ Exists(p) /\ user'[p].id = user[p].id /\ user'[p].ws = user[p].ws
              /\ user'[p].role = "OWNER" <=> user[p].role = "OWNER"
           \/ /\ user'[p].id > spent.rows
              /\ \A r \in Requests \ {q} : entry[r].pc = "user" => user'[p].ws # entry[r].ws,
         e.pc = "user" =>
           \A r \in Requests \ {q} : entry[r].pc = "user" => entry[r].ws # e.ws
  PROVE  Team'
<1>1. Typed /\ (\A r \in Requests : EntryOK(r)) /\ (\A d \in Deeds : DeedOK(d))
  BY DEF IInv, Team
<1>2. entry'[q] = e /\ \A r \in Requests \ {q} : entry'[r] = entry[r]
  BY <1>1 DEF Enters, Typed
<1>3. ASSUME NEW r \in Requests
      PROVE  EntryOK(r)'
  <2>1. CASE r = q
    BY <2>1
  <2>2. CASE r # q
    <3>1. ASSUME entry[r].pc = "user"
          PROVE  /\ \A p \in People : Exists(p)' => user'[p].ws # entry[r].ws
                 /\ \A o \in Requests \ {r} : entry'[o].pc = "user" => entry'[o].ws # entry[r].ws
      <4>1. /\ \A p \in People : Exists(p) => user[p].ws # entry[r].ws
            /\ \A o \in Requests \ {r} : entry[o].pc = "user" => entry[o].ws # entry[r].ws
        BY <1>1, <3>1 DEF EntryOK
      <4>. QED BY <1>2, <2>2, <3>1, <4>1
    <3>. QED BY <1>1, <1>2, <2>2, <3>1, EntryStays
  <2>. QED BY <2>1, <2>2
<1>4. ASSUME NEW d \in Deeds
      PROVE  DeedOK(d)'
  BY <1>1, DeedStays
<1>. QED BY <1>3, <1>4 DEF Team

(* What a step with steady rows leaves of the sign-ins.                    *)
LEMMA EntriesStay ==
  ASSUME IInv, Steady, InvitesGoOn, made' = made, spent'.rows = spent.rows,
         UNCHANGED entry
  PROVE  \A q \in Requests : EntryOK(q)'
<1>1. Typed /\ (\A r \in Requests : EntryOK(r)) /\ OwnersStay
  BY SteadyRows DEF IInv, Team
<1>2. ASSUME NEW q \in Requests
      PROVE  EntryOK(q)'
  <2>1. ASSUME entry[q].pc = "user"
        PROVE  /\ \A p \in People : Exists(p)' => user'[p].ws # entry[q].ws
               /\ \A o \in Requests \ {q} : entry'[o].pc = "user" => entry'[o].ws # entry[q].ws
    <3>1. /\ \A p \in People : Exists(p) => user[p].ws # entry[q].ws
          /\ \A o \in Requests \ {q} : entry[o].pc = "user" => entry[o].ws # entry[q].ws
      BY <1>1, <2>1 DEF EntryOK
    <3>. QED BY <3>1 DEF Steady
  <2>. QED BY <1>1, <2>1, EntryStays
<1>. QED BY <1>2

(* What a step with steady rows leaves of the team's changes.              *)
LEMMA DeedsStay ==
  ASSUME IInv, Steady, made' = made, spent'.rows = spent.rows,
         NEW d \in Deeds, deed'[d] = deed[d]
  PROVE  DeedOK(d)'
<1>1. Typed /\ DeedOK(d) /\ OwnersStay
  BY SteadyRows DEF IInv, Team
<1>2. spent.rows \in Nat
  BY <1>1 DEF Typed
<1>3. \A p \in People : Exists(p)' =>
        Exists(p) /\ user'[p].id = user[p].id /\ (user'[p].role = "OWNER" <=> user[p].role = "OWNER")
  BY DEF Steady
<1>. QED BY <1>1, <1>2, <1>3, DeedStays

(* A step that does nothing to the team.                                   *)
LEMMA TeamStays ==
  ASSUME IInv, Steady, made' = made, UNCHANGED requests, invites' \subseteq invites,
         spent'.rows = spent.rows, spent'.invites = spent.invites
  PROVE  Team' /\ OwnersStay
<1>1. OwnersStay /\ Settled'
  BY SteadyRows
<1>2. InvitesGoOn /\ Standing'
  BY <1>1, InvitesStay
<1>3. \A q \in Requests : EntryOK(q)'
  BY <1>2, EntriesStay DEF requests
<1>4. \A d \in Deeds : DeedOK(d)'
  BY DeedsStay DEF requests
<1>. QED BY <1>1, <1>2, <1>3, <1>4 DEF Team

(* Every step of a sign-in.                                                *)
LEMMA EnteringTeam ==
  ASSUME IInv, NEW q \in Requests, Entering(q)
  PROVE  Team' /\ Signed'
<1>1. /\ Typed /\ Settled /\ Standing /\ Signed
      /\ (\A r \in Requests : EntryOK(r)) /\ entry[q] \in Entry
      /\ spent.rows \in Nat /\ spent.invites \in Nat
  BY DEF IInv, Team, Typed
<1>2. ASSUME NEW e, Enters(q, e)
      PROVE  entry'[q] = e /\ \A r \in Requests \ {q} : entry'[r] = entry[r]
  BY <1>1, <1>2 DEF Enters, Typed
<1>3. ASSUME NEW e, Enters(q, e), e.pc # "user", UNCHANGED <<people, deed>>,
             spent'.rows = spent.rows, spent'.invites = spent.invites, EntryOK(q)'
      PROVE  Team' /\ OwnersStay
  <2>1. Steady /\ OwnersStay /\ Settled'
    BY <1>3, SameRows, SteadyRows DEF people
  <2>2. InvitesGoOn /\ Standing'
    BY <1>3, <2>1, InvitesStay DEF people
  <2>3. \A p \in People : Exists(p)' =>
          /\ Exists(p) /\ user'[p].id = user[p].id /\ user'[p].ws = user[p].ws
          /\ user'[p].role = "OWNER" <=> user[p].role = "OWNER"
    BY <2>1 DEF Steady
  <2>. QED BY <1>1, <1>3, <2>1, <2>2, <2>3, EnterFrame DEF people
<1>4. ASSUME NEW p \in People, register(q, p) \/ googleUnknown(q, p)
      PROVE  Team' /\ Signed'
  <2>1. PICK e \in {[NoEntry EXCEPT !.pc = "workspace", !.who = p],
                    [NoEntry EXCEPT !.pc = "invite", !.who = p]} : Enters(q, e)
    BY <1>4 DEF register, googleUnknown
  <2>2. e.pc \in {"workspace", "invite"} /\ e.who = p
    BY <2>1 DEF NoEntry
  <2>3. EntryOK(q)'
    BY <1>2, <2>1, <2>2 DEF EntryOK
  <2>4. Spend /\ UNCHANGED <<people, deed>> /\ UNCHANGED session
    BY <1>4 DEF register, googleUnknown
  <2>5. Team' /\ OwnersStay
    BY <1>1, <1>3, <2>1, <2>2, <2>3, <2>4, SpendTyping
  <2>. QED BY <1>1, <2>4, <2>5, SignedStays
<1>5. ASSUME NEW p \in People, signIn(q, p)
      PROVE  Team' /\ Signed'
  <2> DEFINE e == [NoEntry EXCEPT !.pc = "issue", !.who = p, !.row = user[p]]
  <2>1. Enters(q, e) /\ Exists(p) /\ Spend /\ UNCHANGED <<people, deed>> /\ UNCHANGED session
    BY <1>5 DEF signIn
  <2>2. e.pc = "issue" /\ e.who = p /\ e.row = user[p]
    BY DEF NoEntry
  <2>3. user[p] \in Row /\ user[p].ws \in Workspaces /\ Owned(user[p].ws)
    BY <1>1, <2>1 DEF Exists, Row, Settled, Typed
  <2>4. OwnersStay
    BY <1>1, <2>1, SpendTyping, SameRows, SteadyRows DEF people
  <2>5. Owned(user[p].ws)'
    BY <2>1, <2>3, <2>4 DEF OwnersStay, people
  <2>6. EntryOK(q)'
    <3>1. entry'[q] = e /\ user' = user
      BY <1>2, <2>1 DEF people
    <3>. QED BY <2>2, <2>3, <2>5, <3>1 DEF EntryOK
  <2>7. Team' /\ OwnersStay
    BY <1>1, <1>3, <2>1, <2>2, <2>6, SpendTyping
  <2>. QED BY <1>1, <2>1, <2>7, SignedStays
<1>6. CASE findInvite(q)
  <2>1. UNCHANGED <<people, deed>> /\ UNCHANGED session /\ UNCHANGED spent
        /\ entry[q].who \in People
    BY <1>1, <1>6 DEF findInvite, EntryOK
  <2>2. CASE Enters(q, [entry[q] EXCEPT !.pc = "workspace"])
    <3> DEFINE e == [entry[q] EXCEPT !.pc = "workspace"]
    <3>1. e.pc = "workspace" /\ e.who = entry[q].who
      BY <1>1 DEF Entry
    <3>2. EntryOK(q)'
      BY <1>2, <2>1, <2>2, <3>1 DEF EntryOK
    <3>3. Team' /\ OwnersStay
      BY <1>3, <2>1, <2>2, <3>1, <3>2
    <3>. QED BY <1>1, <2>1, <3>3, SignedStays
  <2>3. ASSUME NEW i \in invites, i.email = entry[q].who,
               Enters(q, [entry[q] EXCEPT !.pc = "join", !.invite = i])
        PROVE  Team' /\ Signed'
    <3> DEFINE e == [entry[q] EXCEPT !.pc = "join", !.invite = i]
    <3>1. e.pc = "join" /\ e.who = entry[q].who /\ e.invite = i
      BY <1>1 DEF Entry
    <3>2. /\ i \in Invite /\ i.id <= spent.invites
          /\ \A k \in invites : k.id = i.id => k = i
      BY <1>1, <2>3 DEF Standing, Typed
    <3>3. entry'[q] = e /\ invites' = invites /\ spent' = spent
      BY <1>2, <2>1, <2>3 DEF people
    <3>4. EntryOK(q)'
      BY <2>1, <2>3, <3>1, <3>2, <3>3 DEF EntryOK
    <3>5. Team' /\ OwnersStay
      BY <1>3, <2>1, <2>3, <3>1, <3>4
    <3>. QED BY <1>1, <2>1, <3>5, SignedStays
  <2>. QED BY <1>6, <2>2, <2>3 DEF findInvite
<1>7. CASE joinByInvite(q)
  <2>0. PICK e, row, joined :
          /\ e = entry[q] /\ row = Created(e.who, e.invite.ws, e.invite.role)
          /\ joined = [e EXCEPT !.pc = "issue", !.row = row]
    OBVIOUS
  <2>1. /\ e.pc = "join" /\ e.who \in People /\ e.invite \in Invite
        /\ \A i \in invites : i.id = e.invite.id => i.ws = e.invite.ws
    BY <1>1, <1>7, <2>0 DEF joinByInvite, EntryOK
  <2>2. UNCHANGED <<made, deed>> /\ UNCHANGED session
    BY <1>7 DEF joinByInvite
  <2>3. CASE /\ Claimable(e.invite) /\ ~Exists(e.who)
             /\ invites' = {i \in invites : i.id # e.invite.id}
             /\ user' = [user EXCEPT ![e.who] = row]
             /\ spent' = [spent EXCEPT !.rows = @ + 1]
             /\ Enters(q, joined)
    <3>1. /\ row \in Row /\ row.id = spent.rows + 1 /\ row.ws = e.invite.ws
          /\ row.role # "OWNER"
      BY <1>1, <2>0, <2>1 DEF Created, Row, Invite, Lesser, Roles
    <3>2. PICK i \in invites : i.id = e.invite.id
      BY <2>3 DEF Claimable
    <3>3. Owned(row.ws)
      BY <1>1, <2>1, <3>1, <3>2 DEF Standing
    <3>4. row.ws \in made
      BY <1>1, <3>3 DEF Owned, Settled
    <3>5. /\ OwnersStay /\ Settled' /\ Owned(row.ws)'
          /\ spent'.rows = spent.rows + 1 /\ spent'.invites = spent.invites
          /\ \A o \in People : Exists(o)' => o = e.who \/ (Exists(o) /\ user'[o] = user[o])
          /\ user'[e.who] = row
      BY <2>1, <2>2, <2>3, <3>1, <3>3, <3>4, NewRow
    <3>6. joined.pc = "issue" /\ joined.who = e.who /\ joined.row = row
      BY <1>1, <2>0 DEF Entry
    <3>7. EntryOK(q)'
      <4>1. entry'[q] = joined
        BY <1>2, <2>3
      <4>2. entry'[q].pc = "issue" /\ entry'[q].who = e.who /\ entry'[q].row = row
        BY <3>6, <4>1
      <4>. QED BY <2>1, <3>1, <3>5, <4>2 DEF EntryOK
    <3>8. InvitesGoOn /\ Standing'
      BY <2>3, <3>5, InvitesStay
    <3>9. \A r \in Requests : entry[r].pc = "user" => row.ws # entry[r].ws
      BY <1>1, <3>3 DEF Owned, EntryOK
    <3>10. Team'
      BY <1>1, <2>2, <2>3, <3>1, <3>5, <3>6, <3>7, <3>8, <3>9, EnterFrame
    <3>. QED BY <1>1, <2>2, <3>5, <3>10, SignedStays
  <2>4. CASE Enters(q, NoEntry) /\ UNCHANGED <<invites, user, spent>>
    <3>1. NoEntry.pc = "idle"
      BY DEF NoEntry
    <3>2. EntryOK(q)'
      BY <1>2, <2>4, <3>1 DEF EntryOK
    <3>3. Team' /\ OwnersStay
      BY <1>3, <2>2, <2>4, <3>1, <3>2 DEF people
    <3>. QED BY <1>1, <2>2, <3>3, SignedStays
  <2>. QED BY <1>7, <2>0, <2>3, <2>4 DEF joinByInvite
<1>8. CASE createWorkspace(q)
  <2>1. PICK w \in Workspaces \ made :
          made' = made \cup {w} /\ Enters(q, [entry[q] EXCEPT !.pc = "user", !.ws = w])
    BY <1>8 DEF createWorkspace
  <2>2. UNCHANGED <<user, invites, deed, spent>> /\ UNCHANGED session /\ entry[q].who \in People
    BY <1>1, <1>8 DEF createWorkspace, EntryOK
  <2>0. PICK e : e = [entry[q] EXCEPT !.pc = "user", !.ws = w]
    OBVIOUS
  <2>3. e.pc = "user" /\ e.who = entry[q].who /\ e.ws = w
    BY <1>1, <2>0 DEF Entry
  <2>4. Steady /\ OwnersStay /\ Settled'
    BY <2>1, <2>2, SameRows, SteadyRows
  <2>5. InvitesGoOn /\ Standing'
    BY <2>2, <2>4, InvitesStay
  <2>6. \A r \in Requests : entry[r].pc = "user" => entry[r].ws # w
    BY <1>1, <2>1 DEF EntryOK
  <2>7. \A p \in People : Exists(p)' => user'[p].ws # w
    BY <1>1, <2>1, <2>2 DEF Settled, Exists
  <2>8. EntryOK(q)'
    <3>1. entry'[q] = e /\ \A r \in Requests \ {q} : entry'[r] = entry[r]
      BY <1>2, <2>0, <2>1
    <3>. QED BY <2>1, <2>2, <2>3, <2>6, <2>7, <3>1 DEF EntryOK
  <2>9. \A p \in People : Exists(p)' =>
          /\ Exists(p) /\ user'[p].id = user[p].id /\ user'[p].ws = user[p].ws
          /\ user'[p].role = "OWNER" <=> user[p].role = "OWNER"
    BY <2>4 DEF Steady
  <2>10. Team'
    <3>1. /\ Enters(q, e) /\ made \subseteq made' /\ UNCHANGED deed
          /\ spent'.rows \in Nat /\ spent'.rows >= spent.rows
          /\ \A r \in Requests \ {q} : entry[r].pc = "user" => entry[r].ws # e.ws
      BY <1>1, <2>0, <2>1, <2>2, <2>3, <2>6
    <3>. QED BY <2>4, <2>5, <2>8, <2>9, <3>1, EnterFrame
  <2>. QED BY <1>1, <2>2, <2>4, <2>10, SignedStays
<1>9. CASE createOwner(q)
  <2>0. PICK e, row, owning :
          /\ e = entry[q] /\ row = Created(e.who, e.ws, "OWNER")
          /\ owning = [e EXCEPT !.pc = "issue", !.row = row]
    OBVIOUS
  <2>1. /\ e.pc = "user" /\ e.who \in People /\ e.ws \in made
        /\ \A p \in People : Exists(p) => user[p].ws # e.ws
        /\ \A r \in Requests \ {q} : entry[r].pc = "user" => entry[r].ws # e.ws
    BY <1>1, <1>9, <2>0 DEF createOwner, EntryOK
  <2>2. UNCHANGED <<made, invites, deed>> /\ UNCHANGED session
    BY <1>9 DEF createOwner
  <2>3. CASE /\ ~Exists(e.who)
             /\ user' = [user EXCEPT ![e.who] = row]
             /\ spent' = [spent EXCEPT !.rows = @ + 1]
             /\ Enters(q, owning)
    <3>1. /\ row \in Row /\ row.id = spent.rows + 1 /\ row.ws = e.ws
          /\ row.role = "OWNER"
      BY <1>1, <2>0, <2>1 DEF Created, Row, Roles, Typed
    <3>2. /\ OwnersStay /\ Settled' /\ Owned(row.ws)'
          /\ spent'.rows = spent.rows + 1 /\ spent'.invites = spent.invites
          /\ \A o \in People : Exists(o)' => o = e.who \/ (Exists(o) /\ user'[o] = user[o])
          /\ user'[e.who] = row
      <4>1. \A o \in People : Exists(o) => user[o].ws # row.ws
        BY <2>1, <3>1
      <4>2. row.ws \in made /\ made' = made
        BY <2>1, <2>2, <3>1
      <4>. QED BY <2>1, <2>3, <3>1, <4>1, <4>2, NewRow
    <3>3. owning.pc = "issue" /\ owning.who = e.who /\ owning.row = row
      BY <1>1, <2>0 DEF Entry
    <3>4. EntryOK(q)'
      <4>1. entry'[q] = owning
        BY <1>2, <2>3
      <4>2. entry'[q].pc = "issue" /\ entry'[q].who = e.who /\ entry'[q].row = row
        BY <3>3, <4>1
      <4>. QED BY <2>1, <3>1, <3>2, <4>2 DEF EntryOK
    <3>5. InvitesGoOn /\ Standing'
      BY <2>2, <3>2, InvitesStay
    <3>6. Team'
      BY <1>1, <2>1, <2>2, <2>3, <3>1, <3>2, <3>3, <3>4, <3>5, EnterFrame
    <3>. QED BY <1>1, <2>2, <3>2, <3>6, SignedStays
  <2>4. CASE Enters(q, NoEntry) /\ UNCHANGED <<user, spent>>
    <3>1. NoEntry.pc = "idle"
      BY DEF NoEntry
    <3>2. EntryOK(q)'
      BY <1>2, <2>4, <3>1 DEF EntryOK
    <3>3. Team' /\ OwnersStay
      BY <1>3, <2>2, <2>4, <3>1, <3>2 DEF people
    <3>. QED BY <1>1, <2>2, <3>3, SignedStays
  <2>. QED BY <1>9, <2>0, <2>3, <2>4 DEF createOwner
<1>10. CASE issueCode(q)
  <2>1. /\ Enters(q, NoEntry) /\ entry[q].pc = "issue"
        /\ UNCHANGED <<people, deed>> /\ UNCHANGED <<storage, flight, spent>>
        /\ code' = code \/ code' = Issued(entry[q].row)
    BY <1>10 DEF issueCode
  <2>2. NoEntry.pc = "idle"
    BY DEF NoEntry
  <2>3. EntryOK(q)'
    BY <1>2, <2>1, <2>2 DEF EntryOK
  <2>4. Team' /\ OwnersStay
    BY <1>3, <2>1, <2>2, <2>3
  <2>5. entry[q].row \in Row /\ Owned(entry[q].row.ws)
    BY <1>1, <2>1 DEF EntryOK
  <2>6. \A x \in Sign \cup Row : x.ws \in Workspaces
    BY DEF Sign, Row
  <2>7. code' # NoTokens => code'.as \in Sign /\ Owned(code.as.ws)'
    <3>1. CASE code' = code
      BY <1>1, <2>4, <2>6, <3>1 DEF Signed, OwnersStay
    <3>2. CASE code' = Issued(entry[q].row)
      <4>1. code'.as \in Sign /\ code'.as.ws = entry[q].row.ws
        BY <1>1, <2>5, <3>2, IssueTyping
      <4>. QED BY <2>4, <2>5, <2>6, <4>1 DEF OwnersStay
    <3>. QED BY <2>1, <3>1, <3>2
  <2>8. storage.access = "fresh" => storage.as \in Sign /\ Owned(storage.as.ws)'
    BY <1>1, <2>1, <2>4, <2>6 DEF Signed, OwnersStay
  <2>9. ASSUME NEW t \in Tabs
        PROVE  /\ flight[t].pc = "read" => flight[t].row \in Row /\ Owned(flight[t].row.ws)'
               /\ flight[t].pc = "granted" =>
                    flight[t].tokens.as \in Sign /\ Owned(flight[t].tokens.as.ws)'
    BY <1>1, <2>1, <2>4, <2>6 DEF Signed, OwnersStay
  <2>10. \A s \in signed' : s \in Sign /\ Owned(s.ws)'
    <3>1. \A s \in signed' : s \in signed \/ s = Signature(entry[q].row)
      BY <1>10 DEF issueCode
    <3>2. \A s \in signed' : s \in Sign /\ Owned(s.ws)
      BY <1>1, <2>5, <3>1, IssueTyping DEF Signed
    <3>. QED BY <2>4, <2>6, <3>2 DEF OwnersStay
  <2>. QED BY <2>1, <2>4, <2>7, <2>8, <2>9, <2>10 DEF Signed
<1>. QED BY <1>4, <1>5, <1>6, <1>7, <1>8, <1>9, <1>10 DEF Entering

(* Every change of the team.                                               *)
LEMMA ManagingTeam ==
  ASSUME IInv, NEW d \in Deeds, Managing(d)
  PROVE  Team' /\ Signed'
<1>1. /\ Typed /\ Settled /\ Standing /\ Signed /\ Team
      /\ DeedOK(d) /\ deed[d] \in Deed
      /\ spent.rows \in Nat /\ spent.invites \in Nat
  BY DEF IInv, Team, Typed
<1>2. ASSUME NEW x, Does(d, x), Steady, UNCHANGED <<made, entry, session>>,
             InvitesGoOn, Standing', spent'.rows = spent.rows, DeedOK(d)'
      PROVE  Team' /\ Signed'
  <2>1. OwnersStay /\ Settled'
    BY <1>2, SteadyRows
  <2>2. \A q \in Requests : EntryOK(q)'
    BY <1>2, EntriesStay
  <2>3. ASSUME NEW o \in Deeds
        PROVE  DeedOK(o)'
    <3>1. CASE o = d
      BY <1>2, <3>1
    <3>2. CASE o # d
      <4>1. deed'[o] = deed[o]
        BY <1>1, <1>2, <3>2 DEF Does, Typed
      <4>. QED BY <1>2, <4>1, DeedsStay
    <3>. QED BY <3>1, <3>2
  <2>4. Signed'
    BY <1>1, <1>2, <2>1, SignedStays
  <2>. QED BY <1>2, <2>1, <2>2, <2>3, <2>4 DEF Team
<1>3. ASSUME NEW x, Does(d, x)
      PROVE  deed'[d] = x
  BY <1>1, <1>3 DEF Does, Typed
<1>4. NoDeed.pc = "idle"
  BY DEF NoDeed
<1>5. CASE createInvite(d)
  <2>1. PICK a \in Acting, p \in People, r \in Lesser :
          Does(d, [NoDeed EXCEPT !.pc = "replace", !.actor = a, !.target = p, !.role = r,
                            !.since = spent.invites])
    BY <1>5 DEF createInvite, Lesser
  <2>0. PICK x : x = [NoDeed EXCEPT !.pc = "replace", !.actor = a, !.target = p, !.role = r,
                            !.since = spent.invites]
    OBVIOUS
  <2>2. x.pc = "replace" /\ x.actor = a /\ x.target = p
    BY <2>0 DEF NoDeed
  <2>3. a \in Sign /\ Owned(a.ws) /\ a.ws \in Workspaces
    BY <1>1, ActingSigned DEF Sign
  <2>4. Steady /\ UNCHANGED people /\ UNCHANGED <<made, entry, session>>
        /\ spent'.rows = spent.rows /\ spent'.invites = spent.invites
    BY <1>1, <1>5, SameRows, SpendTyping DEF createInvite, people
  <2>5. OwnersStay
    BY <2>4, SteadyRows
  <2>6. InvitesGoOn /\ Standing'
    BY <2>4, <2>5, InvitesStay DEF people
  <2>7. deed'[d] = x
    BY <1>3, <2>0, <2>1
  <2>8. Owned(a.ws)'
    BY <2>3, <2>5 DEF OwnersStay
  <2>9. DeedOK(d)'
    BY <2>2, <2>3, <2>7, <2>8 DEF DeedOK
  <2>. QED BY <1>2, <2>0, <2>1, <2>4, <2>6, <2>9
<1>9. CASE replaceInvite(d) /\ UNCHANGED <<invites, spent>>
  <2>1. Steady /\ UNCHANGED <<made, invites, entry, session, spent>> /\ Does(d, NoDeed)
    BY <1>9, SameRows DEF replaceInvite
  <2>2. OwnersStay /\ Settled'
    BY <2>1, SteadyRows
  <2>3. InvitesGoOn /\ Standing'
    BY <2>1, <2>2, InvitesStay
  <2>4. DeedOK(d)'
    BY <1>3, <1>4, <2>1 DEF DeedOK
  <2>. QED BY <1>2, <2>1, <2>2, <2>3, <2>4
<1>6. CASE replaceInvite(d) /\ ~UNCHANGED <<invites, spent>>
  <2>0. PICK i : i = [id |-> spent.invites + 1, ws |-> deed[d].actor.ws,
                      email |-> deed[d].target, role |-> deed[d].role, expired |-> FALSE]
    OBVIOUS
  <2>1. deed[d].actor \in Sign /\ Owned(deed[d].actor.ws) /\ deed[d].actor.ws \in Workspaces
    BY <1>1, <1>6 DEF replaceInvite, DeedOK, Sign
  <2>2. /\ i.id = spent.invites + 1 /\ i.ws \in Workspaces /\ Owned(i.ws)
        /\ invites' \subseteq invites \cup {i}
    BY <1>6, <2>0, <2>1 DEF replaceInvite
  <2>3. /\ Steady /\ UNCHANGED <<made, entry, session>> /\ Does(d, NoDeed)
        /\ spent'.rows = spent.rows /\ spent'.invites = spent.invites + 1
    BY <1>1, <1>6, SameRows DEF replaceInvite, Typed
  <2>4. OwnersStay
    BY <2>3, SteadyRows
  <2>5. InvitesGoOn
    BY <1>1, <2>2, <2>3 DEF InvitesGoOn
  <2>6. Standing'
    <3>1. \A k \in invites : k.id \in Nat /\ k.id <= spent.invites /\ k.ws \in Workspaces
      BY <1>1 DEF Standing, Invite, Typed
    <3>2. ASSUME NEW k \in invites'
          PROVE  k.id <= spent'.invites /\ Owned(k.ws)'
      <4>1. k.ws \in Workspaces /\ Owned(k.ws) /\ k.id <= spent.invites + 1
        BY <1>1, <2>2, <3>1, <3>2 DEF Standing
      <4>. QED BY <2>3, <2>4, <4>1 DEF OwnersStay
    <3>3. \A k, j \in invites' : k.id = j.id => k = j
      BY <1>1, <2>2, <3>1 DEF Standing
    <3>. QED BY <3>2, <3>3 DEF Standing
  <2>7. DeedOK(d)'
    BY <1>3, <1>4, <2>3 DEF DeedOK
  <2>. QED BY <1>2, <2>3, <2>5, <2>6, <2>7
<1>7. CASE readMember(d)
  <2>1. PICK a \in Acting, p \in People, kind \in {"role", "remove"}, r \in Lesser :
          /\ Exists(p) /\ ~Protected(user[p])
          /\ Does(d, [pc |-> "write", kind |-> kind, actor |-> a, target |-> p,
                      member |-> user[p], role |-> r, since |-> 0])
    BY <1>7 DEF readMember, Lesser
  <2>0. PICK x : x = [pc |-> "write", kind |-> kind, actor |-> a, target |-> p,
                      member |-> user[p], role |-> r, since |-> 0]
    OBVIOUS
  <2>2. x.pc = "write" /\ x.target = p /\ x.member = user[p]
    BY <2>0
  <2>3. user[p] \in Row /\ user[p].id <= spent.rows /\ user[p].role # "OWNER"
    BY <1>1, <2>1 DEF Exists, Settled, Protected, Typed
  <2>4. Steady /\ UNCHANGED people /\ UNCHANGED <<made, entry, session>>
        /\ spent'.rows = spent.rows /\ spent'.invites = spent.invites
    BY <1>1, <1>7, SameRows, SpendTyping DEF readMember, people
  <2>5. OwnersStay
    BY <2>4, SteadyRows
  <2>6. InvitesGoOn /\ Standing'
    BY <2>4, <2>5, InvitesStay DEF people
  <2>7. deed'[d] = x
    BY <1>3, <2>0, <2>1
  <2>8. DeedOK(d)'
    BY <2>2, <2>3, <2>4, <2>7 DEF DeedOK, people
  <2>. QED BY <1>2, <2>0, <2>1, <2>4, <2>6, <2>8
<1>8. CASE writeMember(d)
  <2> DEFINE x == deed[d]
  <2>1. /\ x.target \in People /\ x.role # "OWNER"
        /\ Exists(x.target) /\ user[x.target].id = x.member.id => user[x.target].role # "OWNER"
    BY <1>1, <1>8 DEF writeMember, DeedOK, Deed, Lesser
  <2>2. UNCHANGED <<made, entry, session, invites, spent>> /\ Does(d, NoDeed)
    BY <1>8 DEF writeMember
  <2>3. Steady
    <3>1. CASE user' = user
      BY <3>1, SameRows
    <3>2. CASE /\ Exists(x.target) /\ user[x.target].id = x.member.id
               /\ user' = [user EXCEPT ![x.target] = [@ EXCEPT !.role = x.role]]
      <4>1. user[x.target] \in Row
        BY <1>1, <2>1, <3>2 DEF Exists, Typed
      <4>2. /\ user'[x.target].id = user[x.target].id /\ user'[x.target].ws = user[x.target].ws
            /\ user'[x.target].role # "OWNER" /\ user[x.target].role # "OWNER"
        BY <1>1, <2>1, <3>2, <4>1 DEF Row, Typed
      <4>3. \A p \in People \ {x.target} : user'[p] = user[p]
        BY <1>1, <3>2 DEF Typed
      <4>. QED BY <3>2, <4>2, <4>3 DEF Steady, Exists
    <3>3. CASE /\ Exists(x.target) /\ user[x.target].id = x.member.id
               /\ user' = [user EXCEPT ![x.target] = NoRow]
      <4>1. user'[x.target] = NoRow /\ \A p \in People \ {x.target} : user'[p] = user[p]
        BY <1>1, <2>1, <3>3 DEF Typed
      <4>. QED BY <2>1, <3>3, <4>1 DEF Steady, Exists
    <3>. QED BY <1>8, <3>1, <3>2, <3>3 DEF writeMember
  <2>4. OwnersStay
    BY <2>2, <2>3, SteadyRows
  <2>5. InvitesGoOn /\ Standing'
    BY <2>2, <2>4, InvitesStay
  <2>6. DeedOK(d)'
    BY <1>3, <1>4, <2>2 DEF DeedOK
  <2>. QED BY <1>2, <2>2, <2>3, <2>5, <2>6
<1>. QED BY <1>5, <1>6, <1>7, <1>8, <1>9 DEF Managing

(* Every step of a tab and every step that is nobody's in particular.      *)
LEMMA SessionTeam ==
  ASSUME IInv,
         \/ \E p \in People : setSuspended(p) \/ renewElsewhere(p)
         \/ \E t \in Tabs :
              Renewing(t) \/ refreshLost(t) \/ \E c \in Calls : Calling(t, c) \/ Unauthorized(t, c)
         \/ exchange \/ revokeInvite \/ inviteExpires
         \/ accessExpires \/ refreshExpires \/ handleLogout
  PROVE  Team' /\ OwnersStay
<1>1. Typed /\ Settled /\ Standing /\ Team /\ spent.rows \in Nat /\ spent.invites \in Nat
  BY DEF IInv, Team, Typed
<1>2. CASE UNCHANGED <<people, requests>> /\ (Spend \/ UNCHANGED spent)
  <2>1. spent'.rows = spent.rows /\ spent'.invites = spent.invites
    BY <1>1, <1>2, SpendTyping
  <2>2. Steady
    BY <1>2, SameRows DEF people
  <2>. QED BY <1>2, <2>1, <2>2, TeamStays DEF people
<1>3. ASSUME NEW p \in People, setSuspended(p)
      PROVE  Team' /\ OwnersStay
  <2>1. UNCHANGED <<made, invites, requests>> /\ Spend /\ Exists(p)
        /\ user' = [user EXCEPT ![p].suspended = ~@]
    BY <1>3 DEF setSuspended
  <2>2. spent'.rows = spent.rows /\ spent'.invites = spent.invites
    BY <1>1, <2>1, SpendTyping
  <2>3. Steady
    <3>1. user[p] \in Row
      BY <1>1, <2>1 DEF Exists, Typed
    <3>2. /\ user'[p].id = user[p].id /\ user'[p].ws = user[p].ws /\ user'[p].role = user[p].role
          /\ \A o \in People \ {p} : user'[o] = user[o]
      BY <1>1, <2>1, <3>1 DEF Row, Typed
    <3>3. user'[p] # NoRow
      <4>1. user'[p] \in Row
        BY <1>1, <2>1, <3>1 DEF Row, Typed
      <4>. QED BY <4>1, AccessAssumption DEF Row, Roles
    <3>. QED BY <2>1, <3>2, <3>3 DEF Steady, Exists
  <2>. QED BY <2>1, <2>2, <2>3, TeamStays
<1>4. CASE revokeInvite
  <2>1. UNCHANGED <<user, made, requests>> /\ Spend /\ invites' \subseteq invites
    BY <1>4 DEF revokeInvite
  <2>2. spent'.rows = spent.rows /\ spent'.invites = spent.invites
    BY <1>1, <2>1, SpendTyping
  <2>. QED BY <2>1, <2>2, SameRows, TeamStays
<1>5. CASE inviteExpires
  <2>1. PICK i \in invites : invites' = (invites \ {i}) \cup {[i EXCEPT !.expired = TRUE]}
    BY <1>5 DEF inviteExpires
  <2>0. PICK n : n = [i EXCEPT !.expired = TRUE]
    OBVIOUS
  <2>2. UNCHANGED <<user, made, requests, spent>>
    BY <1>5 DEF inviteExpires
  <2>3. i \in Invite /\ n.id = i.id /\ n.ws = i.ws /\ n.role = i.role /\ n.email = i.email
    BY <1>1, <2>0 DEF Invite, Typed
  <2>4. Steady /\ OwnersStay /\ Settled'
    BY <2>2, SameRows, SteadyRows
  <2>9. \A k \in invites' : k \in invites \ {i} \/ k = n
    BY <2>0, <2>1
  <2>5. InvitesGoOn
    BY <1>1, <2>2, <2>3, <2>9 DEF InvitesGoOn
  <2>6. Standing'
    <3>1. \A k \in invites : k.ws \in Workspaces
      BY <1>1 DEF Invite, Typed
    <3>2. ASSUME NEW k \in invites'
          PROVE  k.id <= spent'.invites /\ Owned(k.ws)'
      <4>1. k.ws \in Workspaces /\ Owned(k.ws) /\ k.id <= spent.invites
        BY <1>1, <2>3, <2>9, <3>1, <3>2 DEF Standing
      <4>. QED BY <2>2, <2>4, <4>1 DEF OwnersStay
    <3>3. \A k, j \in invites' : k.id = j.id => k = j
      BY <1>1, <2>3, <2>9 DEF Standing
    <3>. QED BY <3>2, <3>3 DEF Standing
  <2>7. \A q \in Requests : EntryOK(q)'
    BY <2>2, <2>4, <2>5, EntriesStay DEF requests
  <2>8. \A d \in Deeds : DeedOK(d)'
    BY <2>2, <2>4, DeedsStay DEF requests
  <2>. QED BY <2>4, <2>6, <2>7, <2>8 DEF Team
<1>6. ASSUME NEW t \in Tabs,
             Renewing(t) \/ refreshLost(t) \/ \E c \in Calls : Calling(t, c) \/ Unauthorized(t, c)
      PROVE  Team' /\ OwnersStay
  <2>1. UNCHANGED <<people, requests>> /\ (Spend \/ UNCHANGED spent)
    BY <1>6 DEF Renewing, refreshGets, refreshDeletes, refreshReadsUser, refreshIssues,
                refreshGranted, refreshRefused, refreshLost, Calling, Unauthorized
  <2>. QED BY <1>2, <2>1
<1>7. CASE \/ exchange \/ accessExpires \/ refreshExpires \/ handleLogout
           \/ \E p \in People : renewElsewhere(p)
  <2>1. UNCHANGED <<people, requests>> /\ (Spend \/ UNCHANGED spent)
    BY <1>7 DEF exchange, accessExpires, refreshExpires, handleLogout, renewElsewhere
  <2>. QED BY <1>2, <2>1
<1>. QED BY <1>3, <1>4, <1>5, <1>6, <1>7

(* The tokens of the browser and of its tabs.                              *)
LEMMA SessionSigned ==
  ASSUME IInv, OwnersStay,
         \/ \E p \in People : setSuspended(p) \/ renewElsewhere(p)
         \/ \E t \in Tabs :
              Renewing(t) \/ refreshLost(t) \/ \E c \in Calls : Calling(t, c) \/ Unauthorized(t, c)
         \/ exchange \/ revokeInvite \/ inviteExpires
         \/ accessExpires \/ refreshExpires \/ handleLogout
  PROVE  Signed'
<1> DEFINE OthersOK == \A s \in signed : s \in Sign /\ Owned(s.ws)
           StorageOK == storage.access = "fresh" => storage.as \in Sign /\ Owned(storage.as.ws)
           CodeOK == code # NoTokens => code.as \in Sign /\ Owned(code.as.ws)
           FlightOK(t) ==
             /\ flight[t].pc = "read" => flight[t].row \in Row /\ Owned(flight[t].row.ws)
             /\ flight[t].pc = "granted" =>
                  flight[t].tokens.as \in Sign /\ Owned(flight[t].tokens.as.ws)
<1>1. /\ Typed /\ Settled /\ Signed
      /\ \A x \in Sign \cup Row : x.ws \in Workspaces
  BY DEF IInv, Team, Row, Sign
<1>2. UNCHANGED storage \/ storage' = LoggedOut => StorageOK'
  BY <1>1 DEF Signed, OwnersStay, LoggedOut
<1>3. UNCHANGED code => CodeOK'
  BY <1>1 DEF Signed, OwnersStay
<1>4. ASSUME NEW t \in Tabs, flight'[t] = flight[t]
      PROVE  FlightOK(t)'
  BY <1>1, <1>4 DEF Signed, OwnersStay
<1>5. ASSUME NEW t \in Tabs, NEW f, flight' = [flight EXCEPT ![t] = f],
             \/ f.pc \notin {"read", "granted"}
             \/ f.pc = "read" /\ f.row \in Row /\ Owned(f.row.ws)
             \/ f.pc = "granted" /\ f.tokens.as \in Sign /\ Owned(f.tokens.as.ws)
      PROVE  \A o \in Tabs : FlightOK(o)'
  <2>1. ASSUME NEW o \in Tabs
        PROVE  FlightOK(o)'
    <3>1. CASE o # t
      BY <1>1, <1>4, <1>5, <3>1 DEF Typed
    <3>2. CASE o = t
      <4>1. flight'[o] = f
        BY <1>1, <1>5, <3>2 DEF Typed
      <4>2. f.pc = "read" => f.row.ws \in Workspaces /\ Owned(f.row.ws)'
        BY <1>1, <1>5 DEF OwnersStay
      <4>3. f.pc = "granted" => f.tokens.as.ws \in Workspaces /\ Owned(f.tokens.as.ws)'
        BY <1>1, <1>5 DEF OwnersStay
      <4>. QED BY <1>5, <4>1, <4>2, <4>3
    <3>. QED BY <3>1, <3>2
  <2>. QED BY <2>1
<1>17. UNCHANGED signed => OthersOK'
  BY <1>1 DEF Signed, OwnersStay
<1>6. UNCHANGED signed /\ StorageOK' /\ CodeOK' /\ (\A t \in Tabs : FlightOK(t)') => Signed'
  BY <1>17 DEF Signed
<1>18. ASSUME NEW p \in People, renewElsewhere(p)
       PROVE  Signed'
  <2>1. UNCHANGED <<code, storage, flight>> /\ Exists(p)
        /\ signed' = signed \cup {Signature(user[p])}
    BY <1>18 DEF renewElsewhere
  <2>2. user[p] \in Row /\ Owned(user[p].ws)
    BY <1>1, <2>1 DEF Typed, Exists, Settled
  <2>3. \A s \in signed' : s \in Sign /\ Owned(s.ws)
    BY <1>1, <2>1, <2>2, IssueTyping DEF Signed
  <2>4. OthersOK'
    BY <1>1, <2>3 DEF OwnersStay
  <2>5. StorageOK' /\ CodeOK' /\ \A t \in Tabs : FlightOK(t)'
    BY <1>2, <1>3, <1>4, <2>1
  <2>. QED BY <2>4, <2>5 DEF Signed
<1> HIDE DEF OthersOK, StorageOK, CodeOK, FlightOK
<1>7. CASE \/ \E p \in People : setSuspended(p)
           \/ revokeInvite \/ inviteExpires \/ refreshExpires
           \/ \E t \in Tabs, c \in Calls : Calling(t, c)
  <2>1. UNCHANGED <<signed, storage, code, flight>>
    BY <1>7 DEF setSuspended, revokeInvite, inviteExpires, refreshExpires, Calling, session
  <2>. QED BY <1>2, <1>3, <1>4, <1>6, <2>1
<1>8. CASE exchange
  <2>1. code # NoTokens /\ code' = NoTokens /\ UNCHANGED <<signed, flight>>
        /\ (storage' = SignedIn(code) \/ UNCHANGED storage)
    BY <1>8 DEF exchange
  <2>2. CodeOK'
    BY <2>1 DEF CodeOK
  <2>3. StorageOK'
    <3>1. CASE storage' = SignedIn(code)
      <4>1. storage'.as = code.as /\ code.as \in Sign /\ Owned(code.as.ws)
        BY <1>1, <2>1, <3>1 DEF SignedIn, Signed
      <4>. QED BY <1>1, <4>1 DEF StorageOK, OwnersStay
    <3>. QED BY <1>2, <2>1, <3>1
  <2>. QED BY <1>4, <1>6, <2>1, <2>2, <2>3
<1>9. CASE accessExpires
  <2>1. storage' = [storage EXCEPT !.access = "stale"] /\ UNCHANGED <<signed, code, flight>>
    BY <1>9 DEF accessExpires
  <2>2. StorageOK'
    BY <1>1, <2>1 DEF StorageOK, Storage, Typed
  <2>. QED BY <1>3, <1>4, <1>6, <2>1, <2>2
<1>10. CASE handleLogout
  <2>1. storage' = LoggedOut /\ UNCHANGED <<signed, code, flight>>
    BY <1>10 DEF handleLogout, clearTokens
  <2>. QED BY <1>2, <1>3, <1>4, <1>6, <2>1
<1>11. ASSUME NEW t \in Tabs, NEW c \in Calls, Unauthorized(t, c)
       PROVE  Signed'
  <2>1. UNCHANGED <<signed, code>> /\ (UNCHANGED storage \/ storage' = LoggedOut)
    BY <1>11 DEF Unauthorized, clearTokens
  <2>2. \/ UNCHANGED flight
        \/ flight' = [flight EXCEPT ![t] =
             [NoFlight EXCEPT !.pc = "sent", !.tokens = [jti |-> storage.jti, as |-> storage.as]]]
    BY <1>11 DEF Unauthorized
  <2>3. [NoFlight EXCEPT !.pc = "sent", !.tokens = [jti |-> storage.jti, as |-> storage.as]].pc
          \notin {"read", "granted"}
    BY DEF NoFlight
  <2>. QED BY <1>2, <1>3, <1>4, <1>5, <1>6, <2>1, <2>2, <2>3
<1>12. ASSUME NEW t \in Tabs, refreshLost(t) \/ refreshRefused(t)
       PROVE  Signed'
  <2>1. /\ UNCHANGED <<signed, code>> /\ (UNCHANGED storage \/ storage' = LoggedOut)
        /\ flight' = [flight EXCEPT ![t] = NoFlight]
    BY <1>12 DEF refreshLost, refreshRefused, GivesUp, clearTokens, Flies
  <2>2. NoFlight.pc \notin {"read", "granted"}
    BY DEF NoFlight
  <2>. QED BY <1>2, <1>3, <1>5, <1>6, <2>1, <2>2
<1>13. ASSUME NEW t \in Tabs, refreshGets(t) \/ refreshDeletes(t)
       PROVE  Signed'
  <2>1. UNCHANGED <<signed, code, storage>>
    BY <1>13 DEF refreshGets, refreshDeletes
  <2>2. flight[t] \in Flight
    BY <1>1 DEF Typed
  <2>3. PICK f : flight' = [flight EXCEPT ![t] = f] /\ f.pc \notin {"read", "granted"}
    <3>1. CASE refreshDeletes(t)
      <4>1. [flight[t] EXCEPT !.pc = "taken", !.took = flight[t].tokens.jti].pc = "taken"
        BY <2>2 DEF Flight
      <4>. QED BY <3>1, <4>1 DEF refreshDeletes, Flies
    <3>2. CASE refreshGets(t)
      <4>1. [flight[t] EXCEPT !.pc = "found"].pc = "found"
        BY <2>2 DEF Flight
      <4>2. \A cause : [flight[t] EXCEPT !.pc = "refused", !.cause = cause].pc = "refused"
        BY <2>2 DEF Flight
      <4>. QED BY <3>2, <4>1, <4>2 DEF refreshGets, Flies
    <3>. QED BY <1>13, <3>1, <3>2
  <2>. QED BY <1>2, <1>3, <1>5, <1>6, <2>1, <2>3
<1>14. ASSUME NEW t \in Tabs, refreshReadsUser(t)
       PROVE  Signed'
  <2> DEFINE found == {user[p] : p \in {p \in People : Exists(p) /\ user[p].id = flight[t].tokens.as.id}}
             row == IF found = {} THEN NoRow ELSE CHOOSE r \in found : TRUE
  <2>1. UNCHANGED <<signed, code, storage>>
    BY <1>14 DEF refreshReadsUser
  <2>2. flight[t] \in Flight
    BY <1>1 DEF Typed
  <2>3. row # NoRow => row \in Row /\ Owned(row.ws)
    <3>1. row # NoRow => row \in found
      OBVIOUS
    <3>2. \A r \in found : r \in Row /\ Owned(r.ws)
      BY <1>1 DEF Exists, Settled, Typed
    <3>. QED BY <3>1, <3>2
  <2>4. PICK f : /\ flight' = [flight EXCEPT ![t] = f]
                 /\ \/ f.pc \notin {"read", "granted"}
                    \/ f.pc = "read" /\ f.row \in Row /\ Owned(f.row.ws)
    <3>1. CASE MayRenew(row) /\ Flies(t, [flight[t] EXCEPT !.pc = "read", !.row = row])
      <4>1. /\ [flight[t] EXCEPT !.pc = "read", !.row = row].pc = "read"
            /\ [flight[t] EXCEPT !.pc = "read", !.row = row].row = row
        BY <2>2 DEF Flight
      <4>2. row # NoRow
        BY <3>1 DEF MayRenew
      <4> HIDE DEF row
      <4>. QED BY <2>3, <3>1, <4>1, <4>2 DEF Flies
    <3>2. CASE Flies(t, [flight[t] EXCEPT !.pc = "refused", !.cause = "account"])
      <4>1. [flight[t] EXCEPT !.pc = "refused", !.cause = "account"].pc = "refused"
        BY <2>2 DEF Flight
      <4>. QED BY <3>2, <4>1 DEF Flies
    <3>. QED BY <1>14, <3>1, <3>2 DEF refreshReadsUser
  <2>. QED BY <1>2, <1>3, <1>5, <1>6, <2>1, <2>4
<1>15. ASSUME NEW t \in Tabs, refreshIssues(t)
       PROVE  Signed'
  <2>1. /\ UNCHANGED <<signed, code, storage>> /\ flight[t].pc = "read"
        /\ flight' = [flight EXCEPT ![t] =
             [flight[t] EXCEPT !.pc = "granted", !.row = NoRow, !.tokens = Issued(flight[t].row)]]
    BY <1>15 DEF refreshIssues, Flies
  <2>2. flight[t] \in Flight /\ flight[t].row \in Row /\ Owned(flight[t].row.ws)
    BY <1>1, <2>1 DEF Signed, Typed
  <2>3. /\ Issued(flight[t].row).as \in Sign
        /\ Issued(flight[t].row).as.ws = flight[t].row.ws
    BY <1>1, <2>2, IssueTyping
  <2>0. PICK f : f = [flight[t] EXCEPT !.pc = "granted", !.row = NoRow,
                                       !.tokens = Issued(flight[t].row)]
    OBVIOUS
  <2>4. f.pc = "granted" /\ f.tokens = Issued(flight[t].row)
    BY <2>0, <2>2 DEF Flight
  <2>5. f.tokens.as \in Sign /\ Owned(f.tokens.as.ws)
    BY <2>2, <2>3, <2>4
  <2>6. flight' = [flight EXCEPT ![t] = f]
    BY <2>0, <2>1
  <2>. QED BY <1>2, <1>3, <1>5, <1>6, <2>1, <2>4, <2>5, <2>6
<1>16. ASSUME NEW t \in Tabs, refreshGranted(t)
       PROVE  Signed'
  <2>1. /\ UNCHANGED <<signed, code>> /\ flight[t].pc = "granted" /\ storage' = SignedIn(flight[t].tokens)
        /\ flight' = [flight EXCEPT ![t] = NoFlight]
    BY <1>16 DEF refreshGranted, Flies
  <2>2. flight[t].tokens.as \in Sign /\ Owned(flight[t].tokens.as.ws)
    BY <1>1, <2>1 DEF Signed
  <2>3. storage'.as = flight[t].tokens.as
    BY <2>1 DEF SignedIn
  <2>4. StorageOK'
    BY <1>1, <2>2, <2>3 DEF StorageOK, OwnersStay
  <2>5. NoFlight.pc \notin {"read", "granted"}
    BY DEF NoFlight
  <2>. QED BY <1>3, <1>5, <1>6, <2>1, <2>4, <2>5
<1>. QED BY <1>7, <1>8, <1>9, <1>10, <1>11, <1>12, <1>13, <1>14, <1>15, <1>16, <1>18 DEF Renewing

-----------------------------------------------------------------------------
(* Refresh tokens.                                                         *)

(* A refresh token that is issued is new to everyone.                      *)
LEMMA IssueUnseen ==
  ASSUME Typed, Issues
  PROVE  /\ freshJti # 0 /\ freshJti # storage.jti /\ freshJti # code.jti
         /\ \A t \in Tabs : freshJti # flight[t].tokens.jti
         /\ consumed' \subseteq consumed
         /\ \A x \in consumed' : x.jti # freshJti
BY FreshToken DEF Issues, InSight

(* What became of a token changes nothing else about it.                   *)
LEMMA FatedTokens ==
  ASSUME Typed, NEW t \in Tabs, NEW fate \in {"account", "lost"}
  PROVE  \A y \in Fated(t, fate) : \E x \in consumed :
           /\ x.jti = y.jti /\ x.tab = y.tab
           /\ y.fate = "used" => x.fate = "used" /\ ~(x.tab = t /\ x.jti = flight[t].took)
<1> SUFFICES ASSUME NEW y \in Fated(t, fate)
             PROVE  \E x \in consumed :
                      /\ x.jti = y.jti /\ x.tab = y.tab
                      /\ y.fate = "used" => x.fate = "used" /\ ~(x.tab = t /\ x.jti = flight[t].took)
  OBVIOUS
<1>1. PICK x \in consumed :
        y = IF x.tab = t /\ x.jti = flight[t].took THEN [x EXCEPT !.fate = fate] ELSE x
  BY DEF Fated
<1>2. x \in Consumption
  BY DEF Typed
<1>3. CASE x.tab = t /\ x.jti = flight[t].took
  <2>1. y.jti = x.jti /\ y.tab = x.tab /\ y.fate = fate
    BY <1>1, <1>2, <1>3 DEF Consumption
  <2>. QED BY <2>1
<1>4. CASE ~(x.tab = t /\ x.jti = flight[t].took)
  BY <1>1, <1>4
<1>. QED BY <1>3, <1>4

(* A tab's refresh that is over, or was refused, holds nothing.            *)
LEMMA HeldStays ==
  ASSUME IInv, Typed', NEW t \in Tabs, NEW f, flight' = [flight EXCEPT ![t] = f],
         f.pc \in {"idle", "refused"},
         UNCHANGED storage \/ storage' = LoggedOut, UNCHANGED code,
         \A y \in consumed' : \E x \in consumed :
           /\ x.jti = y.jti /\ x.tab = y.tab
           /\ y.fate = "used" =>
                /\ x.fate = "used"
                /\ flight[t].pc \in {"taken", "read", "granted"} => ~(x.tab = t /\ x.jti = flight[t].took)
  PROVE  Held'
<1>1. Typed /\ Held
  BY DEF IInv
<1>2. flight'[t] = f /\ \A o \in Tabs \ {t} : flight'[o] = flight[o]
  BY <1>1 DEF Typed
<1>3. Holding' \subseteq Holding \ {t}
  BY <1>2 DEF Holding
<1>4. storage'.access = "none" <=> storage'.jti = 0
  BY <1>1 DEF Held, LoggedOut
<1>5. ASSUME NEW y \in consumed', y.fate = "used", y.jti = storage'.jti
      PROVE  flight'[y.tab].pc \in {"taken", "read", "granted"} /\ flight'[y.tab].took = y.jti
  <2>1. PICK x \in consumed :
          /\ x.jti = y.jti /\ x.tab = y.tab /\ x.fate = "used"
          /\ flight[t].pc \in {"taken", "read", "granted"} => ~(x.tab = t /\ x.jti = flight[t].took)
    BY <1>5
  <2>2. x.jti # 0 /\ x.tab \in Tabs
    BY <1>1 DEF Typed, Consumption
  <2>3. storage' = storage
    BY <1>5, <2>1, <2>2 DEF LoggedOut
  <2>4. flight[x.tab].pc \in {"taken", "read", "granted"} /\ flight[x.tab].took = x.jti
    BY <1>1, <1>5, <2>1, <2>3 DEF Held
  <2>. QED BY <1>2, <2>1, <2>2, <2>4
<1>6. \A j : Unseen(j) => Unseen(j)'
  BY DEF Unseen, LoggedOut
<1>7. code' # NoTokens =>
        /\ Unseen(code.jti)'
        /\ \A o \in Holding' : flight'[o].tokens.jti # code'.jti
  BY <1>1, <1>2, <1>3, <1>6 DEF Held
<1>8. \A o \in Holding' : flight'[o].tokens.jti # 0
  BY <1>1, <1>2, <1>3 DEF Held
<1>9. ASSUME NEW o \in Tabs, flight'[o].pc = "sent",
             NEW y \in consumed', y.tab = o, y.jti = flight'[o].tokens.jti
      PROVE  y.fate # "used"
  <2>1. o # t /\ flight'[o] = flight[o]
    BY <1>2, <1>9
  <2>. QED BY <1>1, <1>9, <2>1 DEF Held
<1>10. ASSUME NEW o \in Tabs, flight'[o].pc = "granted"
       PROVE  /\ Unseen(flight[o].tokens.jti)'
              /\ \A k \in Holding' \ {o} : flight'[k].tokens.jti # flight'[o].tokens.jti
  <2>1. o # t /\ flight'[o] = flight[o]
    BY <1>2, <1>10
  <2>2. Unseen(flight[o].tokens.jti)
    BY <1>1, <1>10, <2>1 DEF Held
  <2>3. \A k \in Holding' \ {o} : flight'[k].tokens.jti # flight'[o].tokens.jti
    BY <1>1, <1>2, <1>3, <1>10, <2>1 DEF Held
  <2>. QED BY <1>6, <2>1, <2>2, <2>3
<1>. QED BY <1>4, <1>5, <1>7, <1>8, <1>9, <1>10 DEF Held

(* Every step keeps every new refresh token held once.                     *)
LEMMA HeldStep ==
  ASSUME IInv, Typed', [Next]_vars
  PROVE  Held'
<1>1. Typed /\ Held /\ \A t \in Tabs : flight[t] \in Flight
  BY DEF IInv, Typed
<1> USE DEF people, requests, session
<1>2. CASE UNCHANGED <<storage, code, flight, consumed>>
  BY <1>1, <1>2 DEF Held, Unseen, Holding
<1>3. \A y \in consumed : \E x \in consumed : x.jti = y.jti /\ x.tab = y.tab /\ y.fate = x.fate
  OBVIOUS
<1>4. NoFlight.pc = "idle" /\ LoggedOut.jti = 0 /\ LoggedOut.access = "none"
  BY DEF NoFlight, LoggedOut
<1>5. ASSUME NEW q \in Requests, Entering(q)
      PROVE  Held'
  <2>1. CASE ~(entry[q].pc = "issue" /\ Issues /\ code' = Issued(entry[q].row) /\ issueCode(q))
    BY <1>2, <1>5, <2>1 DEF Entering, register, signIn, googleUnknown, findInvite, joinByInvite,
                            createWorkspace, createOwner, issueCode
  <2>2. CASE entry[q].pc = "issue" /\ Issues /\ code' = Issued(entry[q].row) /\ issueCode(q)
    <3>1. code'.jti = freshJti /\ UNCHANGED <<storage, flight>>
      BY <2>2 DEF issueCode, Issued
    <3>2. Holding' = Holding
      BY <3>1 DEF Holding
    <3>3. /\ freshJti # 0 /\ freshJti # storage.jti
          /\ \A t \in Tabs : freshJti # flight[t].tokens.jti
          /\ consumed' \subseteq consumed /\ \A x \in consumed' : x.jti # freshJti
      BY <1>1, <2>2, IssueUnseen
    <3>4. Unseen(code.jti)' /\ \A t \in Holding' : flight'[t].tokens.jti # code'.jti
      BY <3>1, <3>2, <3>3 DEF Unseen, Holding
    <3>5. ASSUME NEW t \in Tabs, flight[t].pc = "granted"
          PROVE  /\ Unseen(flight[t].tokens.jti)'
                 /\ \A o \in Holding' \ {t} : flight'[o].tokens.jti # flight'[t].tokens.jti
      BY <1>1, <3>1, <3>2, <3>3, <3>5 DEF Held, Unseen
    <3>. QED BY <1>1, <3>1, <3>2, <3>3, <3>4, <3>5 DEF Held
  <2>. QED BY <2>1, <2>2
<1>6. CASE exchange
  <2>1. /\ code # NoTokens /\ code' = NoTokens /\ UNCHANGED <<flight, consumed>>
        /\ storage' = SignedIn(code) \/ UNCHANGED storage
    BY <1>6 DEF exchange
  <2>2. CASE storage' = SignedIn(code)
    <3>1. storage'.jti = code.jti /\ storage'.access = "fresh" /\ Unseen(code.jti)
      BY <1>1, <2>1, <2>2 DEF SignedIn, Held
    <3>2. \A t \in Holding : flight[t].tokens.jti # code.jti
      BY <1>1, <2>1 DEF Held
    <3>3. \A t \in Tabs : flight[t].pc = "granted" => t \in Holding
      BY DEF Holding
    <3>. QED BY <1>1, <2>1, <3>1, <3>2, <3>3 DEF Held, Unseen, Holding
  <2>3. CASE UNCHANGED storage
    BY <1>1, <2>1, <2>3 DEF Held, Unseen, Holding
  <2>. QED BY <2>1, <2>2, <2>3
<1>7. CASE accessExpires
  <2>1. storage'.jti = storage.jti /\ storage'.access = "stale" /\ storage.access = "fresh"
        /\ UNCHANGED <<code, flight, consumed>>
    BY <1>1, <1>7 DEF accessExpires, Storage, Typed
  <2>. QED BY <1>1, <2>1 DEF Held, Unseen, Holding
<1>8. CASE storage' = LoggedOut /\ UNCHANGED <<code, flight, consumed>>
  <2>1. \A x \in consumed : x.jti # 0
    BY <1>1 DEF Typed, Consumption
  <2>. QED BY <1>1, <1>4, <1>8, <2>1 DEF Held, Unseen, Holding
<1>9. ASSUME NEW t \in Tabs, NEW c \in Calls, Unauthorized(t, c)
      PROVE  Held'
  <2>1. CASE UNCHANGED flight
    BY <1>2, <1>8, <1>9, <2>1 DEF Unauthorized, clearTokens
  <2>2. CASE /\ flight[t] = NoFlight /\ storage.jti # 0
             /\ UNCHANGED <<storage, code, consumed>>
             /\ flight' = [flight EXCEPT ![t] =
                  [NoFlight EXCEPT !.pc = "sent", !.tokens = [jti |-> storage.jti, as |-> storage.as]]]
    <3>1. /\ flight'[t].pc = "sent" /\ flight'[t].tokens.jti = storage.jti
          /\ \A o \in Tabs \ {t} : flight'[o] = flight[o]
      BY <1>1, <2>2 DEF NoFlight, Typed
    <3>2. Holding' = Holding \cup {t}
      BY <3>1 DEF Holding
    <3>3. flight[t].pc = "idle"
      BY <1>4, <2>2
    <3>4. \A x \in consumed : x.jti = storage.jti /\ x.fate = "used" => x.tab # t
      BY <1>1, <3>3 DEF Held
    <3>5. \A x \in consumed : x.fate = "used" /\ x.jti = storage'.jti =>
            flight'[x.tab].pc \in {"taken", "read", "granted"} /\ flight'[x.tab].took = x.jti
      <4>1. \A x \in consumed : x.tab \in Tabs
        BY <1>1 DEF Typed, Consumption
      <4>. QED BY <1>1, <2>2, <3>1, <3>4, <4>1 DEF Held
    <3>6. code' # NoTokens =>
            /\ Unseen(code.jti)'
            /\ \A o \in Holding' : flight'[o].tokens.jti # code'.jti
      BY <1>1, <2>2, <3>1, <3>2 DEF Held, Unseen, Holding
    <3>7. \A o \in Holding' : flight'[o].tokens.jti # 0
      BY <1>1, <2>2, <3>1, <3>2 DEF Held, Holding
    <3>8. ASSUME NEW o \in Tabs, flight'[o].pc = "sent",
                 NEW x \in consumed', x.tab = o, x.jti = flight'[o].tokens.jti
          PROVE  x.fate # "used"
      BY <1>1, <2>2, <3>1, <3>4, <3>8 DEF Held
    <3>9. ASSUME NEW o \in Tabs, flight'[o].pc = "granted"
          PROVE  /\ Unseen(flight[o].tokens.jti)'
                 /\ \A k \in Holding' \ {o} : flight'[k].tokens.jti # flight'[o].tokens.jti
      <4>1. o # t /\ flight'[o] = flight[o]
        BY <3>1, <3>9
      <4>2. Unseen(flight[o].tokens.jti)
            /\ \A k \in Holding \ {o} : flight[k].tokens.jti # flight[o].tokens.jti
        BY <1>1, <3>9, <4>1 DEF Held
      <4>. QED BY <2>2, <3>1, <3>2, <4>1, <4>2 DEF Unseen, Holding
    <3>. QED BY <1>1, <2>2, <3>5, <3>6, <3>7, <3>8, <3>9 DEF Held
  <2>. QED BY <1>9, <2>1, <2>2 DEF Unauthorized, Joins
<1>10. ASSUME NEW t \in Tabs, refreshRefused(t)
       PROVE  Held'
  <2>1. /\ flight[t].pc = "refused" /\ flight' = [flight EXCEPT ![t] = NoFlight]
        /\ UNCHANGED storage \/ storage' = LoggedOut
        /\ UNCHANGED code /\ consumed' = consumed
    BY <1>10 DEF refreshRefused, GivesUp, clearTokens, Flies
  <2>. QED BY <1>3, <1>4, <2>1, HeldStays
<1>11. ASSUME NEW t \in Tabs, refreshLost(t)
       PROVE  Held'
  <2>1. /\ flight' = [flight EXCEPT ![t] = NoFlight]
        /\ UNCHANGED storage \/ storage' = LoggedOut
        /\ UNCHANGED code /\ consumed' = Fated(t, "lost")
    BY <1>11 DEF refreshLost, GivesUp, clearTokens, Flies
  <2>2. \A y \in consumed' : \E x \in consumed :
          /\ x.jti = y.jti /\ x.tab = y.tab
          /\ y.fate = "used" =>
               /\ x.fate = "used"
               /\ flight[t].pc \in {"taken", "read", "granted"} => ~(x.tab = t /\ x.jti = flight[t].took)
    BY <1>1, <2>1, FatedTokens
  <2>. QED BY <1>4, <2>1, <2>2, HeldStays
<1>12. ASSUME NEW t \in Tabs, refreshReadsUser(t)
       PROVE  Held'
  <2>1. flight[t].pc = "taken" /\ UNCHANGED <<storage, code>>
    BY <1>12 DEF refreshReadsUser
  <2>2. CASE consumed' = Fated(t, "account")
             /\ Flies(t, [flight[t] EXCEPT !.pc = "refused", !.cause = "account"])
    <3>1. [flight[t] EXCEPT !.pc = "refused", !.cause = "account"].pc = "refused"
      BY <1>1 DEF Flight
    <3>2. \A y \in consumed' : \E x \in consumed :
            /\ x.jti = y.jti /\ x.tab = y.tab
            /\ y.fate = "used" =>
                 /\ x.fate = "used"
                 /\ flight[t].pc \in {"taken", "read", "granted"} => ~(x.tab = t /\ x.jti = flight[t].took)
      BY <1>1, <2>2, FatedTokens
    <3>. QED BY <2>1, <2>2, <3>1, <3>2, HeldStays DEF Flies
  <2>3. ASSUME NEW row, Flies(t, [flight[t] EXCEPT !.pc = "read", !.row = row]),
               UNCHANGED consumed
        PROVE  Held'
    <3>1. /\ flight'[t].pc = "read" /\ flight'[t].took = flight[t].took
          /\ \A o \in Tabs \ {t} : flight'[o] = flight[o]
      BY <1>1, <2>3 DEF Flies, Flight, Typed
    <3>2. Holding' = Holding
      BY <2>1, <3>1 DEF Holding
    <3>3. \A o \in Tabs : flight'[o].pc \in {"sent", "granted"} => o # t
      BY <3>1
    <3>4. \A x \in consumed : x.tab \in Tabs
      BY <1>1 DEF Typed, Consumption
    <3>5. t \notin Holding
      BY <2>1 DEF Holding
    <3>6. \A o \in Holding : flight'[o] = flight[o]
      BY <3>1, <3>5 DEF Holding
    <3>7. \A x \in consumed : x.fate = "used" /\ x.jti = storage'.jti =>
            flight'[x.tab].pc \in {"taken", "read", "granted"} /\ flight'[x.tab].took = x.jti
      BY <1>1, <2>1, <3>1, <3>4 DEF Held
    <3>8. \A j : Unseen(j) => Unseen(j)'
      BY <2>1, <2>3 DEF Unseen
    <3>9. ASSUME NEW o \in Tabs, flight'[o].pc = "granted"
          PROVE  /\ Unseen(flight[o].tokens.jti)'
                 /\ \A k \in Holding' \ {o} : flight'[k].tokens.jti # flight'[o].tokens.jti
      <4>1. flight'[o] = flight[o]
        BY <3>1, <3>3, <3>9
      <4>2. Unseen(flight[o].tokens.jti)
            /\ \A k \in Holding \ {o} : flight[k].tokens.jti # flight[o].tokens.jti
        BY <1>1, <3>9, <4>1 DEF Held
      <4>. QED BY <3>2, <3>6, <3>8, <4>1, <4>2
    <3>10. ASSUME NEW o \in Tabs, flight'[o].pc = "sent",
                  NEW x \in consumed', x.tab = o, x.jti = flight'[o].tokens.jti
           PROVE  x.fate # "used"
      BY <1>1, <2>3, <3>1, <3>3, <3>10 DEF Held
    <3>11. code' # NoTokens =>
             /\ Unseen(code.jti)'
             /\ \A o \in Holding' : flight'[o].tokens.jti # code'.jti
      BY <1>1, <2>1, <3>2, <3>6, <3>8 DEF Held
    <3>12. \A o \in Holding' : flight'[o].tokens.jti # 0
      BY <1>1, <3>2, <3>6 DEF Held
    <3>. QED BY <1>1, <2>1, <2>3, <3>7, <3>9, <3>10, <3>11, <3>12 DEF Held
  <2>. QED BY <1>12, <2>2, <2>3 DEF refreshReadsUser
<1>13. ASSUME NEW t \in Tabs, refreshGets(t)
       PROVE  Held'
  <2>1. flight[t].pc = "sent" /\ UNCHANGED <<storage, code, consumed>>
    BY <1>13 DEF refreshGets
  <2>2. CASE Flies(t, [flight[t] EXCEPT !.pc = "found"])
    <3>1. /\ flight'[t].pc = "found" /\ flight'[t].tokens = flight[t].tokens
          /\ \A o \in Tabs \ {t} : flight'[o] = flight[o]
      BY <1>1, <2>2 DEF Flies, Flight, Typed
    <3>2. Holding' = Holding /\ \A o \in Tabs : flight'[o].tokens = flight[o].tokens
      BY <2>1, <3>1 DEF Holding
    <3>3. \A o \in Tabs : flight'[o].pc \in {"sent", "taken", "read", "granted"} =>
            o # t /\ flight'[o] = flight[o]
      BY <3>1
    <3>4. \A x \in consumed : x.fate = "used" /\ x.jti = storage'.jti =>
            flight'[x.tab].pc \in {"taken", "read", "granted"} /\ flight'[x.tab].took = x.jti
      <4>1. \A x \in consumed : x.tab \in Tabs
        BY <1>1 DEF Typed, Consumption
      <4>. QED BY <1>1, <2>1, <3>1, <4>1 DEF Held
    <3>5. \A j : Unseen(j) => Unseen(j)'
      BY <2>1 DEF Unseen
    <3>6. code' # NoTokens =>
            /\ Unseen(code.jti)'
            /\ \A o \in Holding' : flight'[o].tokens.jti # code'.jti
      BY <1>1, <2>1, <3>2, <3>5 DEF Held, Holding
    <3>7. \A o \in Holding' : flight'[o].tokens.jti # 0
      BY <1>1, <3>2 DEF Held, Holding
    <3>8. ASSUME NEW o \in Tabs, flight'[o].pc = "sent",
                 NEW x \in consumed', x.tab = o, x.jti = flight'[o].tokens.jti
          PROVE  x.fate # "used"
      BY <1>1, <2>1, <3>3, <3>8 DEF Held
    <3>9. ASSUME NEW o \in Tabs, flight'[o].pc = "granted"
          PROVE  /\ Unseen(flight[o].tokens.jti)'
                 /\ \A k \in Holding' \ {o} : flight'[k].tokens.jti # flight'[o].tokens.jti
      <4>1. flight'[o] = flight[o]
        BY <3>3, <3>9
      <4>2. Unseen(flight[o].tokens.jti)
            /\ \A k \in Holding \ {o} : flight[k].tokens.jti # flight[o].tokens.jti
        BY <1>1, <3>9, <4>1 DEF Held
      <4>. QED BY <3>2, <3>5, <4>1, <4>2 DEF Holding
    <3>. QED BY <1>1, <2>1, <3>4, <3>6, <3>7, <3>8, <3>9 DEF Held
  <2>3. ASSUME NEW cause, Flies(t, [flight[t] EXCEPT !.pc = "refused", !.cause = cause])
        PROVE  Held'
    <3>1. [flight[t] EXCEPT !.pc = "refused", !.cause = cause].pc = "refused"
      BY <1>1 DEF Flight
    <3>. QED BY <1>3, <2>1, <2>3, <3>1, HeldStays DEF Flies
  <2>. QED BY <1>13, <2>2, <2>3 DEF refreshGets
<1>14. ASSUME NEW t \in Tabs, refreshDeletes(t)
       PROVE  Held'
  <2>0. PICK j : j = flight[t].tokens.jti
    OBVIOUS
  <2>1. /\ flight[t].pc = "found" /\ UNCHANGED <<storage, code>>
        /\ consumed' = consumed \cup {[jti |-> j, tab |-> t, fate |-> "used"]}
    BY <1>14, <2>0 DEF refreshDeletes
  <2>2. /\ flight'[t].pc = "taken" /\ flight'[t].took = j
        /\ \A o \in Tabs \ {t} : flight'[o] = flight[o]
    BY <1>1, <1>14, <2>0 DEF refreshDeletes, Flies, Flight, Typed
  <2>3. Holding' = Holding \ {t} /\ t \in Holding
    BY <2>1, <2>2 DEF Holding
  <2>4. \A x \in consumed' : x.fate = "used" /\ x.jti = storage'.jti =>
          flight'[x.tab].pc \in {"taken", "read", "granted"} /\ flight'[x.tab].took = x.jti
    <3>1. \A x \in consumed : x.tab \in Tabs
      BY <1>1 DEF Typed, Consumption
    <3>2. \A x \in consumed : x.fate = "used" /\ x.jti = storage.jti =>
            /\ x.tab # t
            /\ flight[x.tab].pc \in {"taken", "read", "granted"} /\ flight[x.tab].took = x.jti
      BY <1>1, <2>1 DEF Held
    <3>. QED BY <2>1, <2>2, <3>1, <3>2
  <2>5. code' # NoTokens =>
          /\ Unseen(code.jti)'
          /\ \A o \in Holding' : flight'[o].tokens.jti # code'.jti
    <3>1. code # NoTokens => code.jti # j
      BY <1>1, <2>0, <2>3 DEF Held
    <3>. QED BY <1>1, <2>1, <2>2, <2>3, <3>1 DEF Held, Unseen, Holding
  <2>6. \A o \in Holding' : flight'[o].tokens.jti # 0
    BY <1>1, <2>2, <2>3 DEF Held, Holding
  <2>7. ASSUME NEW o \in Tabs, flight'[o].pc = "sent",
               NEW x \in consumed', x.tab = o, x.jti = flight'[o].tokens.jti
        PROVE  x.fate # "used"
    <3>1. o # t /\ flight'[o] = flight[o]
      BY <2>2, <2>7
    <3>2. x \in consumed
      BY <2>1, <2>7, <3>1
    <3>. QED BY <1>1, <2>7, <3>1, <3>2 DEF Held
  <2>8. ASSUME NEW o \in Tabs, flight'[o].pc = "granted"
        PROVE  /\ Unseen(flight[o].tokens.jti)'
               /\ \A k \in Holding' \ {o} : flight'[k].tokens.jti # flight'[o].tokens.jti
    <3>1. o # t /\ flight'[o] = flight[o]
      BY <2>2, <2>8
    <3>2. Unseen(flight[o].tokens.jti)
          /\ \A k \in Holding \ {o} : flight[k].tokens.jti # flight[o].tokens.jti
      BY <1>1, <2>8, <3>1 DEF Held
    <3>3. flight[o].tokens.jti # j
      BY <2>0, <2>3, <3>1, <3>2
    <3>4. Unseen(flight[o].tokens.jti)'
      BY <2>1, <3>1, <3>2, <3>3 DEF Unseen
    <3>. QED BY <2>2, <2>3, <3>1, <3>2, <3>4 DEF Holding
  <2>. QED BY <1>1, <2>1, <2>4, <2>5, <2>6, <2>7, <2>8 DEF Held
<1>15. ASSUME NEW t \in Tabs, refreshIssues(t)
       PROVE  Held'
  <2>0. PICK n : n = freshJti
    OBVIOUS
  <2>1. flight[t].pc = "read" /\ UNCHANGED <<storage, code>> /\ Issues
    BY <1>15 DEF refreshIssues
  <2>2. /\ flight'[t].pc = "granted" /\ flight'[t].took = flight[t].took
        /\ flight'[t].tokens.jti = n
        /\ \A o \in Tabs \ {t} : flight'[o] = flight[o]
    BY <1>1, <1>15, <2>0 DEF refreshIssues, Flies, Flight, Issued, Typed
  <2>3. /\ n # 0 /\ n # storage.jti /\ n # code.jti
        /\ \A o \in Tabs : n # flight[o].tokens.jti
        /\ consumed' \subseteq consumed
        /\ \A x \in consumed' : x.jti # n
    BY <1>1, <2>0, <2>1, IssueUnseen
  <2>4. Holding' = Holding \cup {t} /\ t \notin Holding
    BY <2>1, <2>2 DEF Holding
  <2>5. \A x \in consumed' : x.fate = "used" /\ x.jti = storage'.jti =>
          flight'[x.tab].pc \in {"taken", "read", "granted"} /\ flight'[x.tab].took = x.jti
    <3>1. \A x \in consumed : x.tab \in Tabs
      BY <1>1 DEF Typed, Consumption
    <3>. QED BY <1>1, <2>1, <2>2, <2>3, <3>1 DEF Held
  <2>6. \A j : Unseen(j) => Unseen(j)'
    BY <2>1, <2>3 DEF Unseen
  <2>7. code' # NoTokens =>
          /\ Unseen(code.jti)'
          /\ \A o \in Holding' : flight'[o].tokens.jti # code'.jti
    BY <1>1, <2>1, <2>2, <2>3, <2>4, <2>6 DEF Held, Holding
  <2>8. \A o \in Holding' : flight'[o].tokens.jti # 0
    BY <1>1, <2>2, <2>3, <2>4 DEF Held, Holding
  <2>9. ASSUME NEW o \in Tabs, flight'[o].pc = "sent",
               NEW x \in consumed', x.tab = o, x.jti = flight'[o].tokens.jti
        PROVE  x.fate # "used"
    BY <1>1, <2>2, <2>3, <2>9 DEF Held
  <2>10. ASSUME NEW o \in Tabs, flight'[o].pc = "granted"
         PROVE  /\ Unseen(flight[o].tokens.jti)'
                /\ \A k \in Holding' \ {o} : flight'[k].tokens.jti # flight'[o].tokens.jti
    <3>1. CASE o = t
      <4>1. Unseen(flight[o].tokens.jti)'
        BY <2>1, <2>2, <2>3, <3>1 DEF Unseen
      <4>. QED BY <2>2, <2>3, <2>4, <3>1, <4>1 DEF Holding
    <3>2. CASE o # t
      <4>1. flight'[o] = flight[o]
        BY <2>2, <3>2
      <4>2. Unseen(flight[o].tokens.jti)
            /\ \A k \in Holding \ {o} : flight[k].tokens.jti # flight[o].tokens.jti
        BY <1>1, <2>10, <4>1 DEF Held
      <4>. QED BY <2>2, <2>3, <2>4, <2>6, <4>1, <4>2 DEF Holding
    <3>. QED BY <3>1, <3>2
  <2>. QED BY <1>1, <2>1, <2>5, <2>7, <2>8, <2>9, <2>10 DEF Held
<1>16. ASSUME NEW t \in Tabs, refreshGranted(t)
       PROVE  Held'
  <2>0. PICK j : j = flight[t].tokens.jti
    OBVIOUS
  <2>1. /\ flight[t].pc = "granted" /\ UNCHANGED <<code, consumed>>
        /\ storage'.jti = j /\ storage'.access = "fresh"
    BY <1>16, <2>0 DEF refreshGranted, SignedIn
  <2>2. flight'[t].pc = "idle" /\ \A o \in Tabs \ {t} : flight'[o] = flight[o]
    BY <1>1, <1>4, <1>16 DEF refreshGranted, Flies, Typed
  <2>3. /\ Unseen(j) /\ \A o \in Holding \ {t} : flight[o].tokens.jti # j
        /\ t \in Holding
    BY <1>1, <2>0, <2>1 DEF Held, Holding
  <2>4. Holding' = Holding \ {t}
    BY <2>2 DEF Holding
  <2>5. code # NoTokens => code.jti # j
    BY <1>1, <2>0, <2>3 DEF Held
  <2>6. code' # NoTokens =>
          /\ Unseen(code.jti)'
          /\ \A o \in Holding' : flight'[o].tokens.jti # code'.jti
    BY <1>1, <2>1, <2>2, <2>4, <2>5 DEF Held, Unseen, Holding
  <2>7. \A o \in Holding' : flight'[o].tokens.jti # 0
    BY <1>1, <2>2, <2>4 DEF Held, Holding
  <2>8. ASSUME NEW o \in Tabs, flight'[o].pc = "sent",
               NEW x \in consumed', x.tab = o, x.jti = flight'[o].tokens.jti
        PROVE  x.fate # "used"
    BY <1>1, <2>1, <2>2, <2>8 DEF Held
  <2>9. ASSUME NEW o \in Tabs, flight'[o].pc = "granted"
        PROVE  /\ Unseen(flight[o].tokens.jti)'
               /\ \A k \in Holding' \ {o} : flight'[k].tokens.jti # flight'[o].tokens.jti
    <3>1. o # t /\ flight'[o] = flight[o] /\ o \in Holding
      BY <2>2, <2>9 DEF Holding
    <3>2. Unseen(flight[o].tokens.jti)
          /\ \A k \in Holding \ {o} : flight[k].tokens.jti # flight[o].tokens.jti
      BY <1>1, <2>9, <3>1 DEF Held
    <3>3. flight[o].tokens.jti # j
      BY <2>3, <3>1
    <3>4. Unseen(flight[o].tokens.jti)'
      BY <2>1, <3>1, <3>2, <3>3 DEF Unseen
    <3>. QED BY <2>2, <2>4, <3>1, <3>2, <3>4 DEF Holding
  <2>10. \A x \in consumed' : x.jti # storage'.jti
    BY <2>1, <2>3 DEF Unseen
  <2>11. storage'.jti # 0
    BY <2>1, <2>3 DEF Unseen
  <2>. QED BY <2>1, <2>6, <2>7, <2>8, <2>9, <2>10, <2>11 DEF Held
<1>17. CASE \/ \E d \in Deeds : Managing(d)
            \/ \E p \in People : setSuspended(p) \/ renewElsewhere(p)
            \/ revokeInvite \/ inviteExpires \/ refreshExpires
            \/ \E t \in Tabs, c \in Calls : Calling(t, c)
  BY <1>2, <1>17 DEF Managing, createInvite, replaceInvite, readMember, writeMember,
                     setSuspended, renewElsewhere, revokeInvite, inviteExpires, refreshExpires,
                     Calling
<1>18. CASE handleLogout
  BY <1>8, <1>18 DEF handleLogout, clearTokens
<1>19. CASE UNCHANGED vars
  BY <1>2, <1>19 DEF vars
<1>. QED
  BY <1>5, <1>6, <1>7, <1>9, <1>10, <1>11, <1>12, <1>13, <1>14, <1>15, <1>16, <1>17, <1>18, <1>19
     DEF Next, Renewing

-----------------------------------------------------------------------------
(* The theorems.                                                           *)

(* The initial state is one of those the invariant describes.              *)
LEMMA InitIInv ==
  Init => IInv
<1> SUFFICES ASSUME Init PROVE IInv
  OBVIOUS
<1>1. /\ Founder \in People /\ Surfer \in People \ {Founder} /\ Home \in Workspaces
      /\ Invited \subseteq People \ {Founder, Surfer} /\ \A p, o \in Invited : p = o
  BY AccessAssumption
<1> DEFINE f == [id |-> 1, ws |-> Home, role |-> "OWNER", suspended |-> FALSE]
           s == [id |-> 2, ws |-> Home, role |-> "MEMBER", suspended |-> FALSE]
<1>2. f \in Row /\ s \in Row /\ f # NoRow /\ s # NoRow
  <2>1. f \in Row /\ s \in Row
    BY <1>1 DEF Row, Roles
  <2>. QED BY <2>1, AccessAssumption DEF Row, Roles
<1>3. user = [p \in People |-> IF p = Founder THEN f ELSE IF p = Surfer THEN s ELSE NoRow]
  <2>1. \A p \in People :
          (CASE p = Founder -> f [] p = Surfer -> s [] OTHER -> NoRow)
            = IF p = Founder THEN f ELSE IF p = Surfer THEN s ELSE NoRow
    BY <1>1, Zenon
  <2>. QED BY <2>1, Zenon DEF Init
<1>4. user[Founder] = f /\ user[Surfer] = s
      /\ \A p \in People \ {Founder, Surfer} : user[p] = NoRow
  BY <1>1, <1>3
<1>5. Signature(user[Surfer]) = [id |-> 2, ws |-> Home, role |-> "MEMBER"]
      /\ Signature(user[Surfer]) \in Sign
  BY <1>1, <1>4 DEF Signature, Sign, Roles
<1>6. Typed
  <2>1. user \in [People -> Row \cup {NoRow}]
    BY <1>2, <1>3
  <2>2. invites \subseteq Invite
    <3>1. \A p \in People, r \in Lesser : [id |-> 1, ws |-> Home, email |-> p, role |-> r,
                                          expired |-> FALSE] \in Invite
      BY <1>1 DEF Invite
    <3>. QED BY <1>1, <3>1 DEF Init, Lesser
  <2>3. entry \in [Requests -> Entry] /\ deed \in [Deeds -> Deed]
    BY DEF Init, NoEntry, Entry, NoDeed, Deed, Lesser
  <2>4. storage \in Storage
    BY <1>5 DEF Init, Storage
  <2>5. code \in Tokens /\ flight \in [Tabs -> Flight]
    BY DEF Init, NoTokens, Tokens, NoFlight, Flight, Causes
  <2>6. made \subseteq Workspaces /\ consumed \subseteq Consumption
        /\ call \in [Tabs -> [Calls -> {"idle", "sent", "waiting"}]]
        /\ spent \in [rows : Nat, invites : Nat, all : Nat]
    BY <1>1 DEF Init
  <2>. QED BY <2>1, <2>2, <2>3, <2>4, <2>5, <2>6 DEF Typed
<1>7. Owned(Home)
  BY <1>1, <1>2, <1>4 DEF Owned, Exists
<1>8. Settled
  <2>1. \A p \in People : Exists(p) => p \in {Founder, Surfer}
    BY <1>4 DEF Exists
  <2>2. made = {Home} /\ spent.rows = 2
    BY DEF Init
  <2>. QED BY <1>4, <1>7, <2>1, <2>2 DEF Settled
<1>9. Standing
  <2>1. \A i \in invites : i.id = 1 /\ i.ws = Home
    BY DEF Init
  <2>2. \A i, k \in invites : i = k
    BY <1>1 DEF Init
  <2>3. spent.invites = 1
    BY DEF Init
  <2>. QED BY <1>7, <2>1, <2>2, <2>3 DEF Standing
<1>10. (\A q \in Requests : EntryOK(q)) /\ (\A d \in Deeds : DeedOK(d))
  BY DEF Init, EntryOK, DeedOK, NoEntry, NoDeed
<1>11. Signed
  <2>0. storage.as = Signature(user[Surfer])
    BY DEF Init
  <2>1. storage.as \in Sign /\ Owned(storage.as.ws)
    BY <1>5, <1>7, <2>0
  <2>2. code = NoTokens /\ \A t \in Tabs : flight[t].pc = "idle"
    BY DEF Init, NoFlight
  <2>3. Signature(user[Founder]) \in Sign /\ Signature(user[Founder]).ws = Home
    BY <1>1, <1>4 DEF Signature, Sign, Roles
  <2>4. \A a \in signed : a \in Sign /\ Owned(a.ws)
    BY <1>7, <2>3 DEF Init
  <2>. QED BY <2>1, <2>2, <2>4 DEF Signed
<1>12. Held
  BY DEF Init, Held, Holding, NoFlight
<1>. QED BY <1>6, <1>8, <1>9, <1>10, <1>11, <1>12 DEF IInv, Team

(* Every step keeps the invariant.                                         *)
LEMMA NextIInv ==
  IInv /\ [Next]_vars => IInv'
<1> SUFFICES ASSUME IInv, [Next]_vars PROVE IInv'
  OBVIOUS
<1>1. CASE UNCHANGED vars
  <2>1. Typed' /\ Held'
    <3>1. Typed'
      BY <1>1 DEF IInv, Typed, vars, people, requests, session
    <3>. QED BY <1>1, <3>1, HeldStep
  <2>2. UNCHANGED <<people, requests>> /\ UNCHANGED session /\ UNCHANGED spent
    BY <1>1 DEF vars
  <2>3. Team' /\ OwnersStay
    BY <2>2, SameRows, TeamStays DEF people
  <2>4. Signed'
    BY <2>2, <2>3, SignedStays DEF IInv
  <2>. QED BY <2>1, <2>3, <2>4 DEF IInv
<1>2. ASSUME NEW q \in Requests, Entering(q)
      PROVE  IInv'
  BY <1>2, EnteringTyping, EnteringTeam, HeldStep DEF IInv
<1>3. ASSUME NEW d \in Deeds, Managing(d)
      PROVE  IInv'
  BY <1>3, ManagingTyping, ManagingTeam, HeldStep DEF IInv
<1>4. CASE \/ \E p \in People : setSuspended(p) \/ renewElsewhere(p)
           \/ \E t \in Tabs :
                Renewing(t) \/ refreshLost(t) \/ \E c \in Calls : Calling(t, c) \/ Unauthorized(t, c)
           \/ exchange \/ revokeInvite \/ inviteExpires
           \/ accessExpires \/ refreshExpires \/ handleLogout
  <2>1. Typed'
    BY <1>4, TabTyping, OtherTyping
  <2>2. Team' /\ OwnersStay
    BY <1>4, SessionTeam
  <2>3. Signed'
    BY <1>4, <2>2, SessionSigned
  <2>. QED BY <2>1, <2>2, <2>3, HeldStep DEF IInv
<1>. QED BY <1>1, <1>2, <1>3, <1>4 DEF Next

(* Whatever sign-ins, team changes and refreshes are under way.            *)
LEMMA Inductive ==
  Spec => []IInv
BY InitIInv, NextIInv, PTL DEF Spec

(* Types, distinct row ids, and tokens stored together or not at all       *)
(* (AuthService, TeamService, lib/api.ts).                                 *)
THEOREM AccessTypes ==
  Spec => []TypeOK
<1>1. IInv => TypeOK
  <2> SUFFICES ASSUME IInv PROVE TypeOK
    OBVIOUS
  <2>1. Typed /\ Settled /\ Held
    BY DEF IInv, Team
  <2>2. \A p \in People : Exists(p) => user[p] \in Row
    BY <2>1 DEF Typed, Exists
  <2>3. ASSUME NEW p \in People, Exists(p)
        PROVE  /\ user[p].role \in Roles /\ user[p].ws \in made
               /\ \A o \in People \ {p} : Exists(o) => user[o].id # user[p].id
    BY <2>1, <2>2, <2>3 DEF Settled, Row
  <2>4. storage.access \in {"none", "fresh", "stale"} /\ (storage.access = "none" <=> storage.jti = 0)
    BY <2>1 DEF Typed, Storage, Held
  <2>5. ASSUME NEW t \in Tabs
        PROVE  /\ flight[t].pc \in {"idle", "sent", "found", "taken", "read", "granted", "refused"}
               /\ \A c \in Calls : call[t][c] \in {"idle", "sent", "waiting"}
    BY <2>1 DEF Typed, Flight
  <2>6. made \subseteq Workspaces
    BY <2>1 DEF Typed
  <2>. QED BY <2>3, <2>4, <2>5, <2>6 DEF TypeOK
<1>. QED BY <1>1, Inductive, PTL

(* A workspace that anyone is in has exactly one owner, however invites,   *)
(* sign-ins, role changes and removals overlap (TeamService.updateRole and *)
(* removeMember, AuthService.register, loginOrRegisterWithGoogle).         *)
THEOREM WorkspacesOwned ==
  Spec => []OneOwner
<1>1. IInv => OneOwner
  BY DEF IInv, Team, Settled, OneOwner
<1>. QED BY <1>1, Inductive, PTL

(* Nobody comes into a workspace of another but by an invite that was      *)
(* pending until that moment, and it is used up                            *)
(* (AuthService.loginOrRegisterWithGoogle).                                *)
THEOREM JoiningUsesInvite ==
  Spec => JoinsByPendingInvite
<1> DEFINE Joining == \A p \in People :
             /\ Exists(p)' /\ user'[p].role # "OWNER"
             /\ ~Exists(p) \/ user[p].id # user'[p].id
             => \E i \in invites \ invites' :
                  i.email = p /\ i.ws = user'[p].ws /\ i.role = user'[p].role
<1>1. IInv /\ [Next]_vars => [Joining]_vars
  <2> SUFFICES ASSUME IInv, Next PROVE Joining
    OBVIOUS
  <2>1. Typed /\ (\A q \in Requests : EntryOK(q)) /\ \A d \in Deeds : DeedOK(d)
    BY DEF IInv, Team
  <2>2. CASE \A p \in People : Exists(p)' => Exists(p) /\ user'[p].id = user[p].id
    BY <2>2
  <2>3. ASSUME NEW q \in Requests, joinByInvite(q), ~UNCHANGED user
        PROVE  Joining
    <3>0. PICK e, row : e = entry[q] /\ row = Created(e.who, e.invite.ws, e.invite.role)
      OBVIOUS
    <3>1. /\ Claimable(e.invite) /\ invites' = {i \in invites : i.id # e.invite.id}
          /\ user' = [user EXCEPT ![e.who] = row]
      BY <2>3, <3>0 DEF joinByInvite
    <3>2. /\ e.who \in People
          /\ \A i \in invites : i.id = e.invite.id =>
               i.ws = e.invite.ws /\ i.role = e.invite.role /\ i.email = e.who
      BY <2>1, <2>3, <3>0 DEF joinByInvite, EntryOK
    <3>3. PICK i \in invites \ invites' :
            i.ws = e.invite.ws /\ i.role = e.invite.role /\ i.email = e.who
      BY <3>1, <3>2 DEF Claimable
    <3>4. row.ws = e.invite.ws /\ row.role = e.invite.role
      BY <3>0 DEF Created
    <3>5. user'[e.who] = row /\ \A p \in People \ {e.who} : user'[p] = user[p]
      BY <2>1, <3>1, <3>2 DEF Typed
    <3>. QED BY <3>3, <3>4, <3>5 DEF Exists
  <2>4. ASSUME NEW q \in Requests, createOwner(q), ~UNCHANGED user
        PROVE  Joining
    <3>0. PICK e, row : e = entry[q] /\ row = Created(e.who, e.ws, "OWNER")
      OBVIOUS
    <3>1. user' = [user EXCEPT ![e.who] = row] /\ e.who \in People /\ row.role = "OWNER"
      BY <2>1, <2>4, <3>0 DEF createOwner, EntryOK, Created
    <3>2. user'[e.who] = row /\ \A p \in People \ {e.who} : user'[p] = user[p]
      BY <2>1, <3>1 DEF Typed
    <3>. QED BY <3>1, <3>2 DEF Exists
  <2>5. ASSUME Steady
        PROVE  Joining
    BY <2>5 DEF Steady
  <2>6. UNCHANGED user => Joining
    BY <2>5, SameRows
  <2>7. ASSUME NEW q \in Requests, Entering(q)
        PROVE  Joining
    BY <2>3, <2>4, <2>6, <2>7 DEF Entering, register, signIn, googleUnknown, findInvite,
       createWorkspace, issueCode, people
  <2>8. ASSUME NEW p \in People, setSuspended(p)
        PROVE  Joining
    <3>1. Exists(p) /\ user' = [user EXCEPT ![p].suspended = ~@]
      BY <2>8 DEF setSuspended
    <3>2. user[p] \in Row
      BY <2>1, <3>1 DEF Typed, Exists
    <3>3. user'[p].id = user[p].id /\ \A o \in People \ {p} : user'[o] = user[o]
      BY <2>1, <3>1, <3>2 DEF Typed, Row
    <3>. QED BY <2>2, <3>1, <3>3 DEF Exists
  <2>9. ASSUME NEW d \in Deeds, writeMember(d)
        PROVE  Joining
    <3>0. PICK x : x = deed[d]
      OBVIOUS
    <3>1. x.target \in People
      BY <2>1, <2>9, <3>0 DEF writeMember, DeedOK
    <3>2. CASE user' = user
      BY <2>6, <3>2
    <3>3. CASE Exists(x.target) /\ user' = [user EXCEPT ![x.target] = [@ EXCEPT !.role = x.role]]
      <4>1. user[x.target] \in Row
        BY <2>1, <3>1, <3>3 DEF Typed, Exists
      <4>2. /\ user'[x.target].id = user[x.target].id
            /\ \A p \in People \ {x.target} : user'[p] = user[p]
        BY <2>1, <3>1, <3>3, <4>1 DEF Typed, Row
      <4>. QED BY <2>2, <3>3, <4>2 DEF Exists
    <3>4. CASE user' = [user EXCEPT ![x.target] = NoRow]
      <4>1. user'[x.target] = NoRow /\ \A p \in People \ {x.target} : user'[p] = user[p]
        BY <2>1, <3>1, <3>4 DEF Typed
      <4>. QED BY <2>2, <4>1 DEF Exists
    <3>. QED BY <2>9, <3>0, <3>2, <3>3, <3>4 DEF writeMember
  <2>10. CASE UNCHANGED user
    BY <2>6, <2>10
  <2>11. \A d \in Deeds : Managing(d) => UNCHANGED user \/ writeMember(d)
    BY DEF Managing, createInvite, replaceInvite, readMember, people
  <2>12. \A t \in Tabs :
           Renewing(t) \/ refreshLost(t) \/ (\E c \in Calls : Calling(t, c) \/ Unauthorized(t, c))
             => UNCHANGED user
    BY DEF Renewing, refreshGets, refreshDeletes, refreshReadsUser, refreshIssues, refreshGranted,
           refreshRefused, refreshLost, Calling, Unauthorized, people
  <2>13. \/ exchange \/ revokeInvite \/ inviteExpires \/ accessExpires \/ refreshExpires \/ handleLogout
         \/ \E p \in People : renewElsewhere(p)
         => UNCHANGED user
    BY DEF exchange, revokeInvite, inviteExpires, accessExpires, refreshExpires, handleLogout,
           renewElsewhere, people
  <2>. QED BY <2>6, <2>7, <2>8, <2>9, <2>11, <2>12, <2>13 DEF Next
<1>. QED BY <1>1, Inductive, PTL DEF Spec, JoinsByPendingInvite

(* Two calls of one tab never spend a refresh token twice and sign the     *)
(* Surfer out by it, whatever the other tabs, sign-ins and lost answers do *)
(* to the tokens meanwhile (refreshAccessToken).                           *)
THEOREM NoTabSignsItselfOut ==
  Spec => SignedOutForACause
<1> DEFINE Caused == \A t \in Tabs :
             flight[t].pc = "refused" /\ storage # LoggedOut /\ storage' = LoggedOut
             /\ flight'[t] = NoFlight => flight[t].cause # "this tab"
<1>1. IInv => Caused
  BY DEF IInv, Typed, Flight, Causes
<1>. QED BY <1>1, Inductive, PTL DEF SignedOutForACause

=============================================================================
