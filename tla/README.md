# Convozy: TLA+ verification project

Convozy answers Instagram comments and messages: Meta delivers webhooks, the
API queues them, workers match them against a creator's automations and send
replies through the Graph API; people build the automations, connect the
accounts, work on tickets and sign in. This directory models these parts, checks
them with TLC and proves every safety property it checks with TLAPS. Paths below are relative to
`src/apps/api/src/` unless they start with `src/`.

## 1. Inventory

```
Meta --POST--> WebhooksController.receive --SETNX, add--> webhook-events queue --+
                                          --SETNX, add--> postback-events queue -|-+
 +-------------------------------------------------------------------------------+ |
 +-> WebhookEventsProcessor: CommentEvent row, contact, ticket, add --> automation-match queue
 |                                                                                  |
 |   AutomationMatchProcessor / matchCommentEvent: pick automation, queue actions <-+
 |        add --> message-send queue (ai-processing queue: a stub)
 +-> PostbackEventsProcessor / resolvePostback: add --> message-send queue
     MessageSendProcessor / MessagingService.send: breaker, limiter, credentials, Graph API, log
     dead-letter scan (every 5 min): failed jobs --> message-send queue
```

All queues are BullMQ on Redis, with 5 attempts, exponential backoff and failed
jobs kept (`queues/queue.module.ts`). Two worker replicas consume them
(`src/docker-compose.prod.yml:42`); the API is a separate process.

| component | state it keeps | operations | what is hard | what makes it correct |
|---|---|---|---|---|
| webhook intake (`modules/webhooks`) | Redis dedup keys, queue jobs | `receive`, `enqueueIfNew`, `enqueuePostbackIfNew`, event mapping | redelivery until 200, duplicates, crash between SETNX and add, failing add or DEL, key expiry | a 200 means queued; nothing is matched twice |
| webhook and postback processors | `CommentEvent` rows | `process`, `resolvePostback` | retries after a partial run, lost locks, unique constraint | a recorded event reaches matching exactly once |
| matching engine (`modules/automations`) | event status, queued actions | `matchCommentEvent`, `dispatchActionTree` | retries of a half dispatched event, edits meanwhile, cooldown read then written | one automation answers, each action once, all of them before MATCHED |
| automation builder (`modules/automations`, `apps/web` components/automations) | the form, uploads, automation rows with triggers and step trees | edit, upload, save draft, publish, `create`, `update`, `createDraft`, `updateDraft`, `remove`, templates | late uploads, two validations that must agree, overlapping updates, ids reused by position, lost answers | what the form accepts the API accepts; a rule is whole; it reopens as saved; sent buttons keep working |
| outbound sending (`modules/messaging`, `message-send.processor.ts`) | message-send jobs, `MessageLog` | `send`, `sendManual`, `requeueFailedJobs` | non-idempotent remote call, failures after success, requeue by remove then add | posted at most once, never lost, always logged |
| breaker and limiter | Redis counters, open key, account status | `isOpen`, `recordSuccess`, `recordFailure`, `tryConsume` | two stores, two workers, key expiry, window boundary | a pause ends; the flag agrees with the breaker |
| Instagram accounts (`modules/instagram`) | account rows, tokens | connect, disconnect, refresh, profile sync | renewal and sends overwrite a disconnect or reconnect | a disconnect sticks; the newest token wins |
| tickets (`modules/tickets`) | tickets, messages, notes, participants | ingest, tagged posts, assign, update, reply | ingest without a transaction, several agents, reopen against resolve | one open ticket per conversation, no message lost |
| team, auth, browser sessions (`modules/team`, `modules/auth`, `apps/web` lib/api.ts) | users, invites, refresh tokens, exchange codes, stored tokens | invite, accept, role, remove, register, Google sign-in, rotate, logout | read then write, get then delete in Redis, tabs that share tokens but not the refresh under way | one owner per workspace, an invite brings one person in, nobody is signed out by their own second call |
| contacts, segments, custom fields | contact rows | record, tag, segment queries | rule combination overwriting another | a segment selects what its rules say |
| admin, entitlements, templates, media, activity, email, AI stub, health, web app | rows or none | CRUD, reads, file and mail I/O | none that interleaves | - |

Every component, with its status and the reason when it is left out, is a row of
`components` in `PROJECT.json`; the hazards found while reading are its `hazards`.

## 2. Modules

| module | models | state and actions |
|---|---|---|
| `BullMQ` | a job record (external library; attempts from `queue.module.ts`) | `NewJob`, `Added` (add is a no-op for a known id), `Claimed`, `Returned`, `Threw`, `Stalled` |
| `Intake` | `receive` to the match queue | a request is a program counter over its awaits (`walk`, which looks the account of each entry up before its events, `add`, `del`); a worker over `create`, `ticket`, `hand`, `done` |
| `Mapping` | what `receive` makes of a webhook body, and the guard against the account's own comments | operators without state: what `Intake` takes as `Content` and `Own` |
| `Answering` | the promise of matching, without workers or queues | `Queue`, `Match`, `Decline` |
| `Matching` | `matchCommentEvent` and `dispatchAction` | workers over `load`, `find`, `cooldown`, `dispatch`, `noMatch`, `done`; the user's `Toggle`, `EditTree`, `Delete`. `KeepsPromise` is `Answering` under a refinement mapping |
| `Choosing` | `automationMatches`, `matchesKeywords`, `conditionMatches`, the walk of `dispatchActionTree` | operators without state: what `Matching` takes as `Triggered`, `Plan` and `Skipped` |
| `Sending` | `MessagingService.send`, breaker, limiter, the scan | workers over `breaker`, `limit`, `credentials`, `post`, then `logSent`, `clear`, `activate` or `count`, `trip`, `flag`, `logFailed`; the scan over `walk`, `add` |
| `Accounts` | the status column and its writers: OAuth callback, disconnect, profile sync, token renewal, breaker | callbacks over `drop`, `exchange`, `save`, `subscribe`; the renewal over `next`, `ask`, `expire` or `save`, `sync`; senders over `check`, `call`, `clear`, `activate` or `count`, `ttl`, `trip`, `flag`, each of which `Interrupted` may break off; Instagram's `Outage`, `Recovery`, `Revoke` |
| `Tickets` | `TicketsService` and `sendManual` | workers over `find`, `assign`, `number`, `create`, `duplicate`, `participant`, `message`, `touch`; agents' `Update`, `AddNote`, `Reply`, `Send`, `MarkPrivate`, `Advance` and the tagged-posts sync; the list and count queries as operators |
| `Builder` | the builder form, drafts, uploads, and `AutomationsService` behind them | edits of a form, `PickFile` .. `UploadDone`, `saveDraft` .. `DraftAnswered`, `submitAutomation` .. `SubmitAnswered`; an update reads, opens its transaction and commits; validation and (de)serialisation of a step tree, with what each conversion loses: a body a client sends need not be one the form could send (`SPECIFIC_STORIES`, keywords with commas, AI labels, a condition's delay). A tree is written out in the order the code walks it, a step before its branches, each with the conditions and branches it is under (`path`) |
| `Access` | `AuthService`, `TeamService`, `setSuspended`, and the browser's session | sign-ins over `workspace`, `invite`, `join`, `user`, `issue`; team changes over `replace`, `write`, by whoever holds a token that names the role and workspace, however old the claim (`signed`, `renewElsewhere`); tabs that call, renew (`sent`, `found`, `taken`, `read`, `granted`, `refused`) and wait |
| `MC*` | small instances | constants and symmetry sets |
| `*Proofs` | proofs about `Intake`, `Access`, `Matching`, `Sending`, `Accounts`, `Tickets`, `Builder` | - |

The modules meet where the components do. The match job that `Intake` hands on is the job `Matching`
claims; the send job `Matching` adds is the job `Sending` claims. The account status that `Sending` takes
from its environment (`Block`, `Reconnect`) is what `Accounts` produces, where a send in turn is reduced to
what it does to the account. `sendManual` is in `Tickets` because an agent waits for its answer. The automation
that `Matching` loads is one that `Builder` saved whole (`RulesAreWhole`).

How the code is read:

- **One await, one step.** Each `await` of a handler ends an action, so every
  interleaving of requests, workers, scans, tabs and users at awaits is there.
  Where two awaits are one action (a log row and the throw behind it, the
  status check and the remove of the scan) nothing else reads or writes in between
  what the second one touches, and the action's comment says so. A transaction is one
  step when it takes its locks first; where it reads before it locks (`update`,
  `createInvite`) what it may miss is part of the action.
- **Failure.** `FaultSites` names the calls that may throw and the processes
  that may stop, `MaxFaults` how many of them do. A throwing write may have had
  its effect or not. A worker that stops, or whose lock expires while it goes
  on (`LockLost`), leaves its job to be run again: BullMQ is at-least-once.
- **Data.** Message bodies, names, times and tokens do not appear. An event is
  its id; which ids a body maps to (`Content`), which automation matches an event
  (`Triggered`) and which actions a saved tree reaches (`Plan`) are constants, so
  the checks hold for each choice given and the proofs for all of them. The choice `MCMatching`
  gives is what `Choosing` computes from two automations, a tree with a CONDITION and two
  messages, and `MCIntake`'s bodies are what `Mapping` makes of comments, taps and messages; their
  `ASSUME`s (`ChosenByTheRules`, `MappedByReceive`) say so. A token is the
  number of its Redis key or, for Instagram's, of the grant it was minted under.
- **Histories.** Some variables record what was done, are read by properties, and let or forbid no step of
  the code: `handed`, `finished`, `ignored`, `trusted`, `leaked`, `cut` (`Intake`); `adds`, `answers`,
  `shifted`, `overlapped`, `brokenOff`, `aged` (`Matching`); `calls`, `posts`, `mishaps`, `dropped`
  (`Sending`); `cause` and, but for the events that still wait, `fate` (`Tickets`); a breaker's `cut` and a
  sender's `gone` (`Accounts`); `consumed` (`Access`); `overlapped` (`Builder`).
- **Exceptions.** Where a promise of the code has a hole, the property names it: it says that nothing else
  breaks the promise, and the history of the exception grows only in the step that breaks it.
- **External.** BullMQ, Redis, Postgres and Meta are modelled from how `src/` uses them:
  `add` with a known custom id is a no-op; a custom id containing a colon is
  refused (`modules/automations/automations.service.ts:753`); `getFailed` lists
  the newest failures first; a Graph API call may be carried out although its
  answer is an error or is lost; a unique constraint lets one of two creates through.

Names ending in `_Something` (`ReleaseKey_Forgotten`, `Claim_AnyState`, ...) are
deliberately wrong variants of the action they are named after. No
specification uses them; they show that a property notices that mistake.

## 3. Runs

Passing runs (all invariants and temporal properties hold):

| run | question | bounds, and why they are enough |
|---|---|---|
| `intake_safety` | Can redelivery, duplicates, retries, crashes and lost locks match an event twice, and what can a 200 or a row lose? | 2 handlers, 2 workers, a body with a tap and a comment in two entries, 2 attempts, any 2 failures at all 8 sites, one duplicate, expiry, purge and disconnect, 4 of them in all. Two workers on one job after a lost lock and two requests on one body are the races of the code; a third actor repeats one of them. Two entries are what a disconnect in between needs. |
| `intake_live` | Does every delivered event reach matching? | 1 request at a time, 1 worker, 2 bodies sharing a message, an own comment, an event without its account, a refused referral, any failure at all 8 sites, one expiry, one disconnect, 3 in all. |
| `match_retries` | Is each action queued once, by one automation, and does matching do what `Answering` promises? | 2 workers, 2 automations matching one event, 3 failures of any kind, 3 attempts: enough to exhaust a job. |
| `match_edits` | Do edits or a second worker break "MATCHED means answered", "one automation", the cooldown, or progress? | 2 workers, 2 messages of one customer, an edit of any kind, a failure of any kind, one aged event, one forgotten send job. Two messages under way at once are the race of the cooldown, one edit between two attempts is that of the choice. |
| `send_safety` | Is a message posted at most once, and is it always one job? | 2 workers and the scan, a message, 2 attempts, 1 requeue round, every outcome of a call, 2 failures anywhere, threshold 2 and limit 1 so that breaker and limiter both bite. What repeats a post repeats that of one message; that others add nothing is what `SentAtMostOnce` and `MessagesKeepTheirJob` prove. |
| `send_live` | Is a message logged when done, and settled in the end? | 1 worker, 2 messages, 1 attempt, 1 round, one failure anywhere, one disconnect or rejected token, batch as large as the failed set, threshold above the failures possible. |
| `tickets_ingest` | Which races lose a message? Does a resolved post stay resolved? Is every message ingested? | 2 workers, 2 comments of one person on one post, a direct message, a stranger's tagged post, 1 agent; of a failure at any of 8 calls, an edit, a reply, a sync, a removal and an expired window, one happens (`MaxSpent`). Two comments of one person on one post are the smallest case where ticket, number and participant row are all contended. |
| `tickets_desk` | Does the resolution date follow the status, and do the tabs count what they list? | 2 agents and 1 worker, 2 edits, 2 replies and one of each other step, 3 of them in all. Two agents and an inbound message are the three writers of a status. |
| `accounts` | What revives a disconnected account? Do failure counters expire? Does a healthy account recover? | an account with 2 senders and one that cannot be decrypted in the same scan, starting from every status a row may have, threshold 2, one of a revocation, an outage or a user's request (connect, disconnect, sync), and a send that throws or whose worker stops anywhere. That a disconnect and a reconnect in one history add nothing is what `CountersExpire` and `NothingElseRevives` prove for any number of them. Two senders are what a clear and a count need to overlap; a threshold of 2 separates counting from tripping. |
| `builder` | Does the form accept what the API accepts? Is a rule whole, and does it reopen as saved? Do sent buttons keep their ids? | 2 tabs, 4 rules (one live, one a draft; the live one saved by the form, or by another client in two ways), depth 2, 1 edit, 1 file, 2 saves, 1 lost answer, 3 of them in all; the tabs and the unborn rules are symmetric. Depth 2 has a step inside a branch and one beside it. |
| `access` | One owner per workspace? One person per invite? Who is signed out, and does a call ever hang? | the founder, the owner of the browser and one invited person, 2 sign-ins and 2 team changes under way, 2 tabs with 2 calls each, 4 rows, 3 invites (so that two for one person can be pending at once), an invite of either role pending at the start, 3 steps that somebody has to decide on. |

`match_retries` and `match_edits` also evaluate the `ASSUME`s of `Choosing`: for every text and up to two
keywords, a match that is exact also contains and ignoring case loses none (`KeywordsAgree`); for every small
tree, the walk reaches exactly the actions whose every ancestor took their branch, in the order of the tree
(`WalkReachesBranches`). The runs of `Intake` evaluate those of `Mapping`: over pairs of some four hundred
messaging events, different events never share an id, so that deduplication drops redeliveries only
(`IdsTellEventsApart`), and a visible message is one conversation event behind its referral, any other none
(`EveryMessageOnce`).

The run that refutes something the repository says (the quotes are in `findings` of
`PROJECT.json`):

| run | what TLC shows |
|---|---|
| `retry_lost` | `webhook-events.processor.ts:80`: the add to the match queue fails once, the retry takes its own row for a duplicate and completes the job; the event stays PENDING for ever. |

The exceptions a property names are the disagreements with the source that TLC reaches
within the run, and `findings` quotes what the source says. They are:

- `AckMeansTaken`, `EveryEventIsMatched`: an entry looked up while the account was disconnected (`ignored`),
  and a key that outlived its request (`leaked`): a SET or DEL that threw after it took effect, an API that
  stopped between SETNX and add (`webhooks.service.ts:70`), a key released that a duplicate's 200 relied on.
- `EveryEventIsMatched` also: what a body has behind an event BullMQ refuses
  (`modules/webhooks/webhooks.controller.ts:206`; `Before`), and `cut`, the events `retry_lost` is about.
  `OnlyCutsLoseRows` says that a row is lost in no other way.
- `OneAutomationAnswers`: an edit between two attempts that puts another automation first (`shifted`,
  `modules/automations/automations.service.ts:573`).
- `OneAnswerPerWindow`: two messages checked before either is marked (`overlapped`), and one whose answer
  broke off before its row said so (`brokenOff`; `automations.service.ts:592`).
- `PostedAtMostOnce`: an answer lost on its way, a write that fails after it
  (`modules/messaging/messaging.service.ts:92`), a worker that stops or loses its lock: each may repeat a
  post once (`mishaps`).
- `OneJobPerMessage`, `EverySendSettles`: a scan cut off between remove and add (`dropped`).
- `LostOnlyToARace`: the participant row another worker created first; or a call that failed or a member
  removed, which BullMQ does not retry (`cause`). `RevivedOnlyInFlight`: a send or renewal under way.
  `StreaksExpire`: a send cut off between INCR and EXPIRE (`cut`).
- `FormMirrorsApi`: patterns, delays and addresses, which the API alone checks. `ReopensAsSaved`: what the
  form has no field for. `RulesAreWhole`: overlapping updates. `OnlyUploadsMix`: the late upload.
  `SignedOutForACause`: the other tab.

Three statements hold in no such form; each is violated when the constants named are changed:

- `EverySendSettles` with `Threshold = 1`: RATE_LIMITED is cleared only by a send, and the scan requeues
  only for ACTIVE accounts (`message-send.processor.ts:105`). For the same reason `RateLimitedHeals` asks
  that sends of the account keep being taken up.
- `EverySendSettles` with `BatchSize = 1` and two messages: a given-up job stays first in the failed set and
  hides the other.
- `GivenUpAfterACall` (`Sending`) in `send_safety`: refusals of the local limiter use up attempts and rounds
  within one window (`message-send.processor.ts:99`).

### Bounds

Every counter that could grow is bounded in a guard by a named constant (`MaxAttempts` and
`MaxNumberTries` are the code's own): failures, duplicates, expiries, purges, edits, replies, rows,
invites, files, saves. `MaxSpent` bounds several of them together, where the interesting cases need a few
steps of any kind and not all of every kind; `MaxMishaps` does so for the failures, duplicates, expiries,
purges and disconnects of `Intake`, and bounds the interrupted sends of `Accounts`.

### Fairness

Each `FairSpec` assumes weak fairness of steps scheduled by a process that goes on by itself:

- `Intake`: Meta redelivering a body it has no 200 for, each step of a request or a worker that has one,
  BullMQ handing out a waiting job.
- `Matching`, `Sending`: the workers, BullMQ, the cron that starts and continues the dead-letter scan, the
  expiry of the breaker's key.
- `Tickets`: a worker takes a waiting event and goes on with it.
- `Accounts`: the hourly renewal and its job, a cooldown that ends and a token that nears its expiry as
  time passes, and a worker going on with the send it has taken. That there is anything to send is assumed by
  `RateLimitedHeals` itself and by nothing else.
- `Access`: a refresh under way is answered and taken by its tab, and a call that met an expired token goes
  on.

Nothing obliges a failure, a crash, a duplicate, an expiry of a dedup key, a new hourly window, an agent,
a connection, a recovery of Instagram, or any other act of a user. `CHECK_DEADLOCK FALSE` is set where a
finished instance (everything answered, matched or sent, all budgets spent) has no next step; `builder`
checks for deadlock, with a step `Done` for tabs that have nothing left to do.

## 4. Proofs

The theorems hold for all constants that satisfy the module's assumption: any number of workers,
events, messages, accounts, people, any limits and bounds.

| theorem | says | needs beyond the assumption |
|---|---|---|
| `IntakeProofs!TypeCorrect`, `IntakeInvariant`, `NeverHandedTwice` | types, `HandoverInv`, `HandedAtMostOnce` | - |
| `OnlyCutsLose`, `AckIsTaken` | `OnlyCutsLoseRows`, `AckMeansTaken` | - (every failure, duplicate, expiry and disconnect of the model) |
| `MatchingProofs!MatchingTypes`, `QueuedOnce`, `VerdictComesLast` | types, `EachActionOnce`, `MatchedMeansAnswered` | - (any edits, forgotten jobs, failures) |
| `OneAutomationPerEvent`, `CooldownKept` | `OneAutomationAnswers`, `OneAnswerPerWindow` | - (any number of workers and edits) |
| `MatchingKeepsPromise` | `KeepsPromise`: `Matching` implements `Answering` | `Undisturbed`: no edits, nothing forgotten, no message under the cooldown; `Answering` knows none of them |
| `SendingProofs!SendingTypes`, `LogTellsTheEnd` | types, `LoggedAsItEnded` | - (every fault of the model) |
| `MessagesKeepTheirJob`, `SentAtMostOnce` | `OneJobPerMessage`, `PostedAtMostOnce` | - (every fault of the model) |
| `AccountsProofs!AccountTypes`, `CountersExpire`, `NothingElseRevives` | types, `StreaksExpire`, `RevivedOnlyInFlight` | - |
| `AccessProofs!AccessTypes`, `WorkspacesOwned`, `JoiningUsesInvite`, `NoTabSignsItselfOut` | types, `OneOwner`, `JoinsByPendingInvite`, `SignedOutForACause` | - |
| `TicketsProofs!TicketTypes`, `DateFollowsStatus`, `ResolvedPostsStayResolved` | types, `DatedWhenResolved`, `ClosedPostsStayClosed` | - |
| `LossesExplained` | a lost message had a call fail, its assignee removed, or its sender's row created first by another worker; or the ticket numbers have reached the number of tries | - |
| `LostOnlyInTheRace` | `LostOnlyToARace`: the same without the last | a finite set of conversations, fewer than `MaxNumberTries` |
| `TabsAgree` | `TabsCountWhatTheyList` | a finite set of conversations (a cardinality means nothing otherwise) |
| `BuilderProofs!BuilderInvariant`, `BuilderTypes`, `BuilderMirrors`, `BuilderRulesWhole`, `BuilderReopens` | the invariant, types, `FormMirrorsApi`, `RulesAreWhole`, `ReopensAsSaved` | - (trees of every size and depth) |
| `BuilderKeepsButtons`, `BuilderMixes` | `KeepsSentButtons`, `OnlyUploadsMix` | - |

None of these properties is inductive as it stands. What the invariants add:

- **Intake**, `HandoverInv`: a worker past the create (`Past`) carries an event whose row exists and that
  has not been handed on, no two such workers carry the same event, and an event without a row was never
  handed on. The step that makes a worker `Past` is the create, which the unique constraint allows once. For
  `AckMeansTaken`, `DoorInv`: a key in Redis stands for a job that was added, is held by the request that set
  it, or is leaked (`KeysHeld`); whatever a request has walked past is settled (`WalkedSettled`), and so is
  what was answered with 200 (`AckedSettled`).
- **Matching**, `IInv == Typed /\ Counted /\ Covered`: a job BullMQ knows was added once more than it was
  forgotten (`Counted`); of some tree the automation had, each action is still to be dispatched by the
  worker, or was, or cannot be (`Covered`), which at the final write is the property. For the refinement
  `Kept` adds that a worker answers with the first automation that matches and that what is queued is that
  automation's, so that each `add` maps to `Queue`, each final write to `Match` or `Decline`, and every
  other step to a stutter. For `OneAutomationAnswers`, `Led` says of an event no edit has shifted that
  whoever answers or answered it is the first automation that matches. For the cooldown, `Cooled` says of a
  message whose answer did not break off that one worker has it, under its lock (`Sound`), and that an answer
  to it is under way or recorded in its row (`Known`); two messages answered or being answered, neither of
  them broken off or aged, overlapped (`Committed`, `Excepted`).
- **Sending**, `IInv == Typed /\ Requeueing /\ Logged`: one round of a message has a job, the failed set and
  what the scan still has to look at list failed jobs once (`Requeueing`); a worker about to finish a job has
  written its row (`Logged`). `Present` adds that a message has a job unless it was dropped. For
  `PostedAtMostOnce` the workers that may still post are counted: what was posted, the workers engaged and one
  more if a job is ready for another are at most one and the mishaps (`Accounted`); a worker adds to the left
  side only what it takes from it, or a mishap.
- **Accounts**, `IInv == Typed /\ StreaksExpire`: the typing carries what a handler knows at each program
  counter (a renewal goes only over accounts it saw active, a send under way saw credentials), from which
  `RevivedOnlyInFlight` follows step by step.
- **Access**, `IInv == Typed /\ Team /\ Signed /\ Held`: everyone is in a workspace with its one owner, and
  what a sign-in or a team change remembers from its read still leads there when it writes (`Team`); every
  token anyone was given, old or new, names such a workspace (`Signed`); a new refresh token is held once, and a token that a tab took
  and that is still stored belongs to the refresh that took it (`Held`), which is why a tab's second call
  never finds its own token gone.
- **Tickets**, `IInv`: rows are dated (`Dated`), and a worker that writes to the ticket of a post found it
  open or had a number in hand to create it (`LookedUp`). For `LostOnlyToARace`, `LInv` says what a worker
  that keeps clashing has met: after n tries some ticket bears a number of at least n (`Allotted`), so that
  all tries fail only where numbers have come that far (`Crowded`); each worker has an event of its own
  (`OneEach`), one whose create must fail has met a race (`RaceSeen`), and whoever a worker is to assign is of
  the team or was removed meanwhile (`RemovalSeen`); and `Dense` bounds the highest number by
  the tickets there are, which with fewer conversations than tries excludes that. The code tries five times
  (`createTicket`); where a worker's every try clashes, its event is lost with an error in the log.
- **Builder**, `IInv`, seven parts beside the types. Every form is a whole tree (`FormsHold`): its keys
  differ, some step is at the top, and a step stands under steps of the tree and under whatever those stand
  under. So is what a draft save carries (`SavesHold`) and what a draft stores. What is under way to the API
  passed the form, and what is being stored passed the API (`SubmitsHold`). The rows of a live rule are
  what a client of the API may store (`Keepable`), open as steps the form could send as they are (`Ready`) and
  are the steps that were saved but for what opening loses (`Faithful`), and the steps above a row are rows of the
  same save (`RulesHold`). An open transaction found the rows of a save together or not at all
  (`FoundHold`). Of a rule whose updates never overlapped at most one transaction is open, on the rows there
  are (`AloneHold`), and all of them are of one save (`OneSaveHolds`). The first half of the module is about
  trees alone: each operation of the editor keeps a tree whole, and a serialised tree is whole again.

The layout is the same in each module: a lemma for each group of steps (a worker's, an agent's, the
environment's), with one step per action, then `InitIInv`, `NextIInv`, `Inductive`, and the theorems.

Only model-checked:

- liveness (`EveryEventIsMatched`, `EveryEventSettles`, `EverySendSettles`, `EveryMessageSettles`,
  `RateLimitedHeals`, `HearsInTheEnd`, `CallsEnd`): the prover does not reason about fairness;
- `Choosing`, whose walk of a tree is a RECURSIVE operator, for which the prover has no backend, and the
  `ASSUME`s of `Mapping`, which TLC evaluates over bounded bodies.

Every invariant and action property of a passing run is stated by a theorem. Induction in the proofs is the
library's well-founded minimum of a set of naturals (`NatInd` in `BuilderProofs`), since theorems that take
an operator as a parameter cannot be instantiated; it serves the few recursive functions there are
(`Among`, which keeps the elements of a sequence that are in a set).

## 5. Not modelled, and why

- **Pure functions of a message**: merge tags and request bodies are data; so are the signature check and
  the parsing of a body before `receive`. A regular expression is the text it finds, or one that is refused.
- **Contacts, tags, custom fields, segments**: one-row writes, and queries whose WHERE clause is built from
  a rule. Reading it showed that `Object.assign` in `listContacts` (`modules/contacts/contacts.service.ts`)
  replaces the tag filter when the segment's rule is itself a tag; the case is not modelled.
- **Tickets**: participants' deletion, saved replies and settings changes (row-level CRUD; `Settings` is a
  constant), and the event stream to the browser, which carries no state.
- **Authentication**: password hashing and the admins' own login. An invite is taken up by the
  Google sign-in only; there is no other endpoint for it.
- **Accounts**: listing media, stories and comments, and sender profiles: reads of the Graph API.
- **Editing triggers during a match** (`Triggered` is constant): pausing an automation has the same effect.
- **Administration, entitlements, activity, mail, the AI stub, health, configuration**: reads, guards
  that pass for the plan of the instance, or I/O without state.
- **The web application** beyond the builder, the automations list, the session and the tabs of the tickets
  page: marketing pages, settings forms and layouts render what the API returns. Most of the source lines
  no definition is mapped to are these.

## 6. What is left

1. A composition of `Matching` and `Sending` for a send job that is added again under its first id while the
   dead-letter scan has renamed it: `EachActionOnce` allows the second job after a forgotten id; whether both
   copies are posted takes both modules.
2. Segment rules as operators, against a reference definition.
3. `Choosing`'s walk of a tree in the form `Builder` has it, so that what `MCMatching` takes as `Plan` could be
   proved to be the steps whose conditions took their branch.
