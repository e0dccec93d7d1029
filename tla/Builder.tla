------------------------------- MODULE Builder -------------------------------
(***************************************************************************)
(* The automation builder: the dashboard form that edits an automation's   *)
(* scope, triggers and tree of steps (automation-form.tsx and              *)
(* action-step-editor.tsx), the drafts it saves on the way, the uploads it *)
(* waits for, and the API that validates and stores the result             *)
(* (automations.service.ts, dto/, media.service.ts).                       *)
(*                                                                         *)
(* Every request is split where the code awaits: a draft update reads the  *)
(* status and then writes; an automation update reads, opens a transaction *)
(* whose first statement locks the trigger rows, and commits; an answer    *)
(* may be lost after the server has done the work.                         *)
(*                                                                         *)
(* Texts, links and keywords are data: a message is written or not, titles *)
(* and addresses of buttons are taken as filled in, and a keyword test is  *)
(* "plain", a REGEX without a pattern, or a REGEX that does not parse once *)
(* its text is split at the commas. What other clients of the API stored   *)
(* may be a test that text cannot hold: keywords that have a comma in them *)
(* ("commas"; "commaPattern" if they are a REGEX that is cut by it), or an *)
(* AI_INTENT with its label ("intent").                                    *)
(* "COMMENT" stands for the comment sources and "DM" for the sources tied  *)
(* to neither a post nor a story.                                          *)
(*                                                                         *)
(* A tree of steps is written out in the order the code walks it, a step   *)
(* before its THEN and its ELSE branch, each with the branches it is in.   *)
(***************************************************************************)
EXTENDS Naturals, FiniteSets, SequencesExt

CONSTANTS
  Tabs,         \* browser tabs with a builder in them
  Rules,        \* automation rows, at most this many are created (bound)
  NoRule,       \* no automation
  Seeded,       \* rows that are live at the start
  Drafted,      \* rows that are drafts at the start
  MaxDepth,     \* MAX_ACTION_TREE_DEPTH
  MaxEdits,     \* bound: edits made over all tabs
  MaxFiles,     \* bound: files picked over all tabs
  MaxSaves,     \* bound: draft saves and submissions sent over all tabs
  MaxLost,      \* bound: answers the network loses
  MaxSpent      \* bound: the four of them together

ASSUME BuilderAssumption ==
  /\ IsFiniteSet(Rules) /\ NoRule \notin Rules /\ Seeded \cup Drafted \subseteq Rules
  /\ Cardinality(Seeded \cup Drafted) + MaxSaves <= Cardinality(Rules)
  /\ {MaxDepth, MaxEdits, MaxFiles, MaxSaves, MaxLost, MaxSpent} \subseteq Nat
  /\ MaxDepth > 1

VARIABLES
  form,         \* what each tab's builder holds
  upload,       \* the file each tab is uploading
  save,         \* each tab's draft save
  submit,       \* each tab's submission
  rule,         \* the automation rows
  used,         \* counters: action ids, stored bodies, edits, files, saves, lost answers
  overlapped    \* history: rules two update transactions were open on at once

vars == <<form, upload, save, submit, rule, used, overlapped>>

-----------------------------------------------------------------------------
(* The form's tree of steps.                                               *)

MaxButtons == 3
Scopes  == {"ALL_POSTS", "SPECIFIC_POSTS", "ALL_STORIES"}
Sources == {"COMMENT", "STORY_REPLY", "DM"}
ScopesStored == Scopes \cup {"SPECIFIC_STORIES"}
Tests   == {"plain", "noPattern", "badPattern"}
Respelled == {"commas", "commaPattern", "intent"}
TestsStored == Tests \cup Respelled
Delays  == {"none", "some", "odd"}   \* "odd": a number, negative or a fraction
Links   == {"none", "sound", "odd"}  \* "odd": http(s)://, but no address @IsUrl takes
Types   == {"SEND_DM", "REPLY_COMMENT", "HIDE_COMMENT", "CONDITION"}
Kinds   == {"WEB_URL", "POSTBACK", "FOLLOW_PROFILE"}
Replies == {"unlocked", "locked"}
Branches == {"then", "else"}

NoReply == [text |-> FALSE, media |-> FALSE, links |-> "none"]

emptyButton(key, kind) ==
  [key |-> key, kind |-> kind, requireFollow |-> FALSE,
   unlocked |-> NoReply, locked |-> NoReply]

\* The path of a step: the conditions it stands under and the branch of each
\* it is in, the outermost first.
emptyActionStep(key, type, path) ==
  [key |-> key, type |-> type, test |-> "plain", delay |-> "none", text |-> FALSE,
   media |-> FALSE, buttons |-> <<>>, path |-> path]

emptyTrigger == [source |-> "COMMENT", test |-> "plain"]

Above(n) == {n.path[i][1] : i \in DOMAIN n.path}
depth(n) == Len(n.path) + 1

\* The elements of a sequence that are in a set, in their order.
Among(s, T) ==
  LET F[i \in 0..Len(s)] ==
        IF i = 0 THEN <<>> ELSE IF s[i] \in T THEN Append(F[i - 1], s[i]) ELSE F[i - 1]
  IN  F[Len(s)]

updateActionStep(steps, node) ==
  [i \in DOMAIN steps |-> IF steps[i].key = node.key THEN node ELSE steps[i]]

removeActionStep(steps, key) ==
  Among(steps, {n \in ToSet(steps) : n.key # key /\ key \notin Above(n)})

\* Where the last step of a branch of n is, or n itself.
BranchEnd(steps, n, branch) ==
  Max({i \in DOMAIN steps :
         \/ steps[i].key = n.key
         \/ \E b \in {"then", branch} : <<n.key, b>> \in ToSet(steps[i].path)})

addActionStep(steps, n, branch, key, type) ==
  InsertAt(steps, BranchEnd(steps, n, branch) + 1,
           emptyActionStep(key, type, Append(n.path, <<n.key, branch>>)))

\* The i-th step, at the top level, and its branches change places with the
\* top-level step before it.
MovedUp(steps, i) ==
  LET before == Max({j \in 1..(i - 1) : steps[j].path = <<>>})
      last == Max({j \in DOMAIN steps : j = i \/ steps[i].key \in Above(steps[j])})
  IN  SubSeq(steps, 1, before - 1) \o SubSeq(steps, i, last)
        \o SubSeq(steps, before, i - 1) \o SubSeq(steps, last + 1, Len(steps))

\* A step whose type is no longer CONDITION keeps its branches, unseen.
Shown(steps) ==
  {n \in ToSet(steps) :
     \A key \in Above(n) : \E m \in ToSet(steps) : m.key = key /\ m.type = "CONDITION"}

-----------------------------------------------------------------------------
(* What the form checks before it submits: postsError and buildError.      *)

ReplyOk(reply) == reply.text # reply.media

validateButton_Unlocked(b) == b.kind = "POSTBACK" => ReplyOk(b.unlocked)

validateButton(b) ==
  b.kind = "POSTBACK" =>
    /\ ReplyOk(b.unlocked)
    /\ b.requireFollow => ReplyOk(b.locked)

validateActionSteps(steps) ==
  /\ MaxDepth > 0
  /\ \A n \in Shown(steps) :
       IF n.type = "CONDITION"
       THEN n.test = "plain" /\ depth(n) < MaxDepth
       ELSE /\ n.type = "HIDE_COMMENT" \/ n.media \/ n.text
            /\ n.media => n.type = "SEND_DM" /\ n.buttons = <<>>
            /\ Len(n.buttons) <= MaxButtons
            /\ \A b \in ToSet(n.buttons) : validateButton(b)

FormOk(f) ==
  /\ f.scope = "SPECIFIC_POSTS" => f.picked
  /\ \A tr \in ToSet(f.triggers) : tr.test # "noPattern"
  /\ validateActionSteps(f.steps)
  /\ f.scope = "SPECIFIC_POSTS" => \E tr \in ToSet(f.triggers) : tr.source = "COMMENT"
  /\ f.scope = "ALL_STORIES" => \E tr \in ToSet(f.triggers) : tr.source = "STORY_REPLY"

-----------------------------------------------------------------------------
(* What it sends: fields the step's type does not use are left out, and a  *)
(* delay goes as the number that was typed.                                *)

SerializeReply(reply) == IF reply.media THEN [NoReply EXCEPT !.media = TRUE] ELSE reply

SerializeButton(b) ==
  IF b.kind = "POSTBACK"
  THEN [b EXCEPT !.unlocked = SerializeReply(@),
                 !.locked = IF b.requireFollow THEN SerializeReply(@) ELSE NoReply]
  ELSE emptyButton(b.key, b.kind)

SerializeStep(n) ==
  LET bare == emptyActionStep(n.key, n.type, n.path)
  IN  CASE n.type = "CONDITION" -> [bare EXCEPT !.test = n.test]
        [] n.type = "HIDE_COMMENT" -> [bare EXCEPT !.delay = n.delay]
        [] OTHER ->
             IF n.media THEN [bare EXCEPT !.delay = n.delay, !.media = TRUE]
             ELSE [bare EXCEPT
                     !.delay = n.delay, !.text = n.text,
                     !.buttons = [j \in DOMAIN n.buttons |-> SerializeButton(n.buttons[j])]]

serializeActionSteps(steps) ==
  LET shown == Among(steps, Shown(steps))
  IN  [i \in DOMAIN shown |-> SerializeStep(shown[i])]

Body(f) ==
  [scope |-> f.scope, picked |-> f.scope = "SPECIFIC_POSTS" /\ f.picked,
   triggers |-> f.triggers, steps |-> serializeActionSteps(f.steps)]

-----------------------------------------------------------------------------
(* What the API accepts: the DTOs, then validateTriggers, validateScope and *)
(* validateActionTree.                                                     *)

Parses(test) == test \notin {"noPattern", "badPattern"}

ReplyAccepted(reply) == /\ reply.text # reply.media
                        /\ reply.links # "none" => reply.text
                        /\ reply.links # "odd"

validateActionTree(steps) ==
  /\ MaxDepth > 0
  /\ \A n \in ToSet(steps) :
       IF n.type = "CONDITION"
       THEN Parses(n.test) /\ depth(n) < MaxDepth
       ELSE /\ n.delay # "odd"
            /\ n.type # "HIDE_COMMENT" => n.media \/ n.text
            /\ n.media => n.type = "SEND_DM" /\ n.buttons = <<>>
            /\ Len(n.buttons) <= MaxButtons
            /\ \A b \in ToSet(n.buttons) :
                 b.kind = "POSTBACK" =>
                   /\ ReplyAccepted(b.unlocked)
                   /\ b.requireFollow => ReplyAccepted(b.locked)

validateScope(scope, triggers) ==
  LET sources == {tr.source : tr \in ToSet(triggers)}
  IN  /\ scope \in {"ALL_STORIES", "SPECIFIC_STORIES"} => "STORY_REPLY" \in sources
      /\ scope = "SPECIFIC_POSTS" => "COMMENT" \in sources

ApiOk(body) ==
  /\ body.triggers # <<>> /\ body.steps # <<>>
  /\ \A tr \in ToSet(body.triggers) : Parses(tr.test)
  /\ validateScope(body.scope, body.triggers)
  /\ validateActionTree(body.steps)

-----------------------------------------------------------------------------
(* What it stores, as rows numbered by the save that made them. An action  *)
(* row is a step of the body with an id; the key it keeps is history: it   *)
(* names the step across edits, which nothing in the code does.            *)

Keys(steps) == [i \in DOMAIN steps |-> steps[i].key]
Ids(rows) == [i \in DOMAIN rows |-> rows[i].id]

\* The ids and types of the rows, in the order the tree was created.
collectActionIdPool(rows) ==
  [i \in DOMAIN rows |-> [id |-> rows[i].id, type |-> rows[i].type]]

ReusedId_Never(pool, i, step, fresh) == fresh + i

\* The id of the i-th step of the new tree: that of the old row in the same
\* place if it is of the same type, else one never used before.
ReusedId(pool, i, step, fresh) ==
  IF i <= Len(pool) /\ pool[i].type = step.type THEN pool[i].id ELSE fresh + i

ActionRow(n, id, by) ==
  [by |-> by, id |-> id, key |-> n.key, type |-> n.type, test |-> n.test, delay |-> n.delay,
   text |-> n.text, media |-> n.media, buttons |-> n.buttons, path |-> n.path]

createActionTree(steps, pool, fresh, by) ==
  [i \in DOMAIN steps |-> ActionRow(steps[i], ReusedId(pool, i, steps[i], fresh), by)]

\* The test whose text is the stored keywords, joined by commas, without the
\* label of an AI_INTENT.
TestOpened(test) ==
  IF test = "commaPattern" THEN "badPattern" ELSE IF test \in Respelled THEN "plain" ELSE test

OpenedStep_NoLocked(row) ==
  LET bare == emptyActionStep(row.key, row.type, row.path)
  IN  IF row.type = "CONDITION" THEN [bare EXCEPT !.test = TestOpened(row.test)]
      ELSE [bare EXCEPT !.delay = row.delay, !.text = row.text, !.media = row.media,
                        !.buttons = [j \in DOMAIN row.buttons |->
                                       [row.buttons[j] EXCEPT !.locked = NoReply]]]

\* The step the editor opens a row as.
OpenedStep(row) ==
  LET bare == emptyActionStep(row.key, row.type, row.path)
  IN  IF row.type = "CONDITION" THEN [bare EXCEPT !.test = TestOpened(row.test)]
      ELSE [bare EXCEPT !.delay = row.delay, !.text = row.text, !.media = row.media,
                        !.buttons = row.buttons]

deserializeActionSteps(rows) == [i \in DOMAIN rows |-> OpenedStep(rows[i])]

TriggerRows(triggers, by) ==
  [i \in DOMAIN triggers |-> [by |-> by, at |-> i, trigger |-> triggers[i]]]

automationToTriggerRows(rows) ==
  [i \in DOMAIN rows |-> [source |-> rows[i].trigger.source,
                          test |-> TestOpened(rows[i].trigger.test)]]

\* The builder no longer offers SPECIFIC_STORIES.
normalizeScopeType(scope) == IF scope = "SPECIFIC_STORIES" THEN "ALL_STORIES" ELSE scope

NoContent == <<>>

Row(status, scope, picked, triggers, steps, draft) ==
  [status |-> status, scope |-> scope, picked |-> picked,
   triggers |-> triggers, steps |-> steps, draft |-> draft]

NeverMade == Row("NONE", "ALL_POSTS", FALSE, <<>>, <<>>, NoContent)
Deleted   == [NeverMade EXCEPT !.status = "DELETED"]

\* Automation.create: triggers and steps of a body, in one transaction.
NewRule(body, by, fresh) ==
  Row("ACTIVE", body.scope, body.picked, TriggerRows(body.triggers, by),
      createActionTree(body.steps, <<>>, fresh, by), NoContent)

Live(r) == rule[r].status \in {"ACTIVE", "PAUSED"}
Exists(r) == Live(r) \/ rule[r].status = "DRAFT"

-----------------------------------------------------------------------------
(* Tabs, requests and initial states.                                      *)

Content(f) == [scope |-> f.scope, picked |-> f.picked,
               triggers |-> f.triggers, steps |-> f.steps]

Form(isEdit, r, content) ==
  [open |-> TRUE, isEdit |-> isEdit, rule |-> r, scope |-> content.scope,
   picked |-> content.picked, triggers |-> content.triggers, steps |-> content.steps]

BlankContent(key) ==
  [scope |-> "ALL_POSTS", picked |-> FALSE, triggers |-> <<emptyTrigger>>,
   steps |-> <<emptyActionStep(key, "SEND_DM", <<>>)>>]

Closed == [Form(FALSE, NoRule, BlankContent(0)) EXCEPT !.open = FALSE]

\* A seed template: its triggers, and steps that carry a text only.
TemplateContent(key) ==
  [BlankContent(key) EXCEPT
     !.steps = <<[emptyActionStep(key, "SEND_DM", <<>>) EXCEPT !.text = TRUE],
                 [emptyActionStep(key + 1, "REPLY_COMMENT", <<>>) EXCEPT !.text = TRUE]>>]

\* What an automation saved earlier may hold: to who passes a condition, a
\* message with a button that answers, or tells who does not follow to; to the
\* others an attachment.
SavedContent ==
  LET reply == [NoReply EXCEPT !.text = TRUE]
      ask == [emptyActionStep(2, "SEND_DM", <<<<1, "then">>>>) EXCEPT
                !.text = TRUE,
                !.buttons = <<[emptyButton(3, "POSTBACK") EXCEPT
                   !.requireFollow = TRUE, !.unlocked = reply, !.locked = reply]>>]
      show == [emptyActionStep(4, "SEND_DM", <<<<1, "else">>>>) EXCEPT !.media = TRUE]
  IN  [BlankContent(1) EXCEPT
         !.scope = "SPECIFIC_POSTS", !.picked = TRUE,
         !.steps = <<emptyActionStep(1, "CONDITION", <<>>), ask, show>>]

\* And what only another client of the API saved: a text sent late on some
\* stories, if a test passes that the form cannot write.
OlderContent(test) ==
  LET cond == [emptyActionStep(1, "CONDITION", <<>>) EXCEPT !.test = test, !.delay = "some"]
      send == [emptyActionStep(2, "SEND_DM", <<<<1, "then">>>>) EXCEPT
                 !.text = TRUE, !.delay = "some"]
  IN  [scope |-> "SPECIFIC_STORIES", picked |-> TRUE,
       triggers |-> <<[source |-> "STORY_REPLY", test |-> "intent"]>>,
       steps |-> <<cond, send>>]

SavedBodies == {Body(SavedContent), OlderContent("commas"), OlderContent("commaPattern")}

NoUpload == [step |-> 0, button |-> 0, reply |-> "unlocked", buttons |-> <<>>]
NoSave   == [pc |-> "idle", rule |-> NoRule, data |-> NoContent]
NoSubmit == [pc |-> "idle", rule |-> NoRule, isEdit |-> FALSE, body |-> NoContent,
             publishing |-> FALSE, triggers |-> <<>>, found |-> {}, waits |-> {}]

Init ==
  /\ form = [t \in Tabs |-> Closed]
  /\ upload = [t \in Tabs |-> NoUpload]
  /\ save = [t \in Tabs |-> NoSave]
  /\ submit = [t \in Tabs |-> NoSubmit]
  /\ \E body \in SavedBodies :
       rule = [r \in Rules |->
                 IF r \in Seeded THEN NewRule(body, 0, 0)
                 ELSE IF r \in Drafted
                 THEN [NeverMade EXCEPT !.status = "DRAFT", !.draft = TemplateContent(1)]
                 ELSE NeverMade]
  /\ used = [id |-> 10, by |-> 1, edits |-> 0, files |-> 0, saves |-> 0, lost |-> 0]
  /\ overlapped = {}

requests == <<upload, save, submit>>

\* Whether one more thing of a bounded kind may happen.
May(kind, bound) ==
  /\ used[kind] < bound
  /\ used.edits + used.files + used.saves + used.lost < MaxSpent

KeysIn(steps) ==
  UNION {{n.key} \cup {b.key : b \in ToSet(n.buttons)} : n \in ToSet(steps)}

nextKey_Counts(t) == 1 + Len(form[t].steps)

\* A client key no step or button in sight has.
nextKey(t) ==
  1 + Max(KeysIn(form[t].steps) \cup (UNION {KeysIn(rule[r].steps) : r \in Rules})
          \cup {upload[t].step, upload[t].button})

Opens(t, f) ==
  /\ ~form[t].open /\ save[t] = NoSave /\ submit[t] = NoSubmit
  /\ form' = [form EXCEPT ![t] = f]
  /\ UNCHANGED <<requests, rule, used, overlapped>>

OpenNew(t) == Opens(t, Form(FALSE, NoRule, BlankContent(nextKey(t))))

\* The form an automation is edited in: a draft's own content, or the rows.
Opened(r) ==
  IF rule[r].status = "DRAFT" THEN Form(FALSE, r, rule[r].draft)
  ELSE Form(TRUE, r, [scope |-> normalizeScopeType(rule[r].scope), picked |-> rule[r].picked,
                      triggers |-> automationToTriggerRows(rule[r].triggers),
                      steps |-> deserializeActionSteps(rule[r].steps)])

\* An automation whose steps two overlapping updates doubled is not followed
\* further: its history no longer names each step (bound).
OpenRule(t, r) ==
  /\ Exists(r) /\ IsInjective(Keys(rule[r].steps))
  /\ Opens(t, Opened(r))

\* Cancel, or any way off the page: what is still uploading is dropped.
Leave(t) ==
  /\ form[t].open
  /\ form' = [form EXCEPT ![t] = Closed]
  /\ upload' = [upload EXCEPT ![t] = NoUpload]
  /\ UNCHANGED <<save, submit, rule, used, overlapped>>

-----------------------------------------------------------------------------
(* Edits.                                                                  *)

Edit(t, f) ==
  /\ form[t].open /\ May("edits", MaxEdits)
  /\ form' = [form EXCEPT ![t] = f]
  /\ used' = [used EXCEPT !.edits = @ + 1]
  /\ UNCHANGED <<requests, rule, overlapped>>

\* Choosing what to watch turns the triggers of the other kind into this one's.
syncTriggerSourcesToScope(triggers, scope) ==
  LET to == IF scope = "ALL_STORIES" THEN "STORY_REPLY" ELSE "COMMENT"
  IN  [i \in DOMAIN triggers |->
         [triggers[i] EXCEPT !.source = IF @ = "DM" THEN @ ELSE to]]

EditScope(t) ==
  \/ \E s \in Scopes \ {form[t].scope} :
       Edit(t, [form[t] EXCEPT !.scope = s, !.picked = FALSE,
                               !.triggers = syncTriggerSourcesToScope(@, s)])
  \/ /\ form[t].scope = "SPECIFIC_POSTS"
     /\ Edit(t, [form[t] EXCEPT !.picked = ~@])

\* A trigger's new source decides the scope's kind, the other way round.
updateTrigger(f, i, source) ==
  LET g == [f EXCEPT !.triggers[i].source = source]
  IN  CASE source = "STORY_REPLY" /\ f.scope # "ALL_STORIES" ->
             [g EXCEPT !.scope = "ALL_STORIES", !.picked = FALSE]
        [] source = "COMMENT" /\ f.scope = "ALL_STORIES" ->
             [g EXCEPT !.scope = "ALL_POSTS", !.picked = FALSE]
        [] OTHER -> g

EditTrigger(t) ==
  LET f == form[t]
  IN  \/ \E i \in DOMAIN f.triggers :
           \/ \E s \in Sources \ {f.triggers[i].source} : Edit(t, updateTrigger(f, i, s))
           \/ \E test \in Tests \ {f.triggers[i].test} :
                Edit(t, [f EXCEPT !.triggers[i].test = test])
           \/ Len(f.triggers) > 1 /\ Edit(t, [f EXCEPT !.triggers = RemoveAt(@, i)])
      \/ Edit(t, [f EXCEPT !.triggers = Append(@, emptyTrigger)])

\* Add a step at the end or in a branch, remove one, move a top-level one.
EditSteps(t) ==
  LET f == form[t]
      Steps(steps) == Edit(t, [f EXCEPT !.steps = steps])
  IN  \/ \E type \in {"SEND_DM", "CONDITION"} :
           Steps(Append(f.steps, emptyActionStep(nextKey(t), type, <<>>)))
      \/ \E n \in ToSet(f.steps), branch \in Branches, type \in {"SEND_DM", "CONDITION"} :
           /\ n.type = "CONDITION"
           /\ type = "CONDITION" => depth(n) + 1 < MaxDepth
           /\ Steps(addActionStep(f.steps, n, branch, nextKey(t), type))
      \/ \E n \in ToSet(f.steps) :
           /\ n.path = <<>> => \E m \in ToSet(f.steps) \ {n} : m.path = <<>>
           /\ Steps(removeActionStep(f.steps, n.key))
      \/ \E j, i \in DOMAIN f.steps :
           /\ j < i /\ f.steps[j].path = <<>> /\ f.steps[i].path = <<>>
           /\ Steps(MovedUp(f.steps, i))

\* What the fields of one button can be turned into.
ButtonEdits(b) ==
  {[b EXCEPT !.kind = k] : k \in Kinds \ {b.kind}}
  \cup (IF b.kind # "POSTBACK" THEN {}
        ELSE {[b EXCEPT !.requireFollow = ~@]}
             \cup (UNION {{[b EXCEPT ![w].text = ~@]}
                            \cup {[b EXCEPT ![w].links = x] : x \in Links \ {b[w].links}} :
                   w \in {w \in Replies : ~b[w].media /\ (w = "locked" => b.requireFollow)}})
             \cup {[b EXCEPT ![w].media = FALSE] : w \in {w \in Replies : b[w].media}})

ButtonsShown_Always(n) == n.type = "SEND_DM"

\* The button editor, which an attachment hides.
ButtonsShown(n) == n.type = "SEND_DM" /\ ~n.media

\* What the fields of one step can be turned into. The type is all that
\* changes when another is chosen: what it hides stays. Buttons show while
\* there is no attachment, and the attachment while there are no buttons.
StepEdits(t, n) ==
  {[n EXCEPT !.type = ty] :
     ty \in {ty \in Types \ {n.type} : ty = "CONDITION" => depth(n) < MaxDepth}}
  \cup (IF n.type = "CONDITION" THEN {[n EXCEPT !.test = x] : x \in Tests \ {n.test}}
        ELSE {[n EXCEPT !.delay = x] : x \in Delays \ {n.delay}})
  \cup (IF n.type \in {"SEND_DM", "REPLY_COMMENT"} /\ ~n.media
        THEN {[n EXCEPT !.text = ~@]} ELSE {})
  \cup (IF n.type = "SEND_DM" /\ n.media /\ n.buttons = <<>>
        THEN {[n EXCEPT !.media = FALSE]} ELSE {})
  \cup (IF ~ButtonsShown(n) THEN {}
        ELSE (UNION {{[n EXCEPT !.buttons[i] = b] : b \in ButtonEdits(n.buttons[i])}
                     \cup {[n EXCEPT !.buttons = RemoveAt(@, i)]} : i \in DOMAIN n.buttons})
             \cup {[n EXCEPT !.buttons = Append(@, emptyButton(nextKey(t), k))] :
                   k \in {k \in {"WEB_URL", "FOLLOW_PROFILE"} : Len(n.buttons) < MaxButtons}})

EditStep(t) ==
  \E n \in ToSet(form[t].steps) : \E m \in StepEdits(t, n) :
    Edit(t, [form[t] EXCEPT !.steps = updateActionStep(@, m)])

\* Starting from a template replaces all but the account and the draft; clearing
\* it leaves a blank trigger and step.
UseTemplate(t) ==
  /\ ~form[t].isEdit
  /\ \/ Edit(t, Form(FALSE, form[t].rule, TemplateContent(nextKey(t))))
     \/ Edit(t, [form[t] EXCEPT !.triggers = BlankContent(nextKey(t)).triggers,
                                !.steps = BlankContent(nextKey(t)).steps])

-----------------------------------------------------------------------------
(* Uploads: the handler keeps the step's buttons as they were when the     *)
(* file was picked, and writes them back with the answer.                  *)

PickFile(t) ==
  /\ form[t].open /\ upload[t] = NoUpload /\ May("files", MaxFiles)
  /\ \E n \in ToSet(form[t].steps) :
       /\ n.type = "SEND_DM" /\ ~n.media
       /\ \/ /\ n.buttons = <<>>
             /\ upload' = [upload EXCEPT ![t] = [NoUpload EXCEPT !.step = n.key]]
          \/ \E b \in ToSet(n.buttons), w \in Replies :
               /\ b.kind = "POSTBACK" /\ ~b[w].media
               /\ w = "locked" => b.requireFollow
               /\ upload' = [upload EXCEPT ![t] =
                    [step |-> n.key, button |-> b.key, reply |-> w, buttons |-> n.buttons]]
  /\ used' = [used EXCEPT !.files = @ + 1]
  /\ UNCHANGED <<form, save, submit, rule, overlapped>>

Attach(n, u) ==
  IF u.button = 0 THEN [n EXCEPT !.media = TRUE, !.text = FALSE]
  ELSE [n EXCEPT !.buttons =
          [i \in DOMAIN u.buttons |->
             IF u.buttons[i].key = u.button
             THEN [u.buttons[i] EXCEPT ![u.reply] = [NoReply EXCEPT !.media = TRUE]]
             ELSE u.buttons[i]]]

UploadDone(t) ==
  LET u == upload[t]
      target == {n \in ToSet(form[t].steps) : n.key = u.step}
  IN  /\ u # NoUpload
      /\ upload' = [upload EXCEPT ![t] = NoUpload]
      /\ \/ form' = [form EXCEPT ![t].steps =
                       IF target = {} THEN @
                       ELSE updateActionStep(@, Attach(CHOOSE n \in target : TRUE, u))]
         \/ UNCHANGED form                                  \* refused or failed
      /\ UNCHANGED <<save, submit, rule, used, overlapped>>

-----------------------------------------------------------------------------
(* Drafts.                                                                 *)

Saving(t, s) == save' = [save EXCEPT ![t] = s]

saveDraft(t) ==
  /\ form[t].open /\ ~form[t].isEdit
  /\ save[t] = NoSave /\ May("saves", MaxSaves)
  /\ Saving(t, [pc |-> "sent", rule |-> form[t].rule, data |-> Content(form[t])])
  /\ used' = [used EXCEPT !.saves = @ + 1]
  /\ UNCHANGED <<form, upload, submit, rule, overlapped>>

createDraft(t) ==
  /\ save[t].pc = "sent" /\ save[t].rule = NoRule
  /\ \E r \in Rules :
       /\ rule[r] = NeverMade
       /\ rule' = [rule EXCEPT ![r] = [NeverMade EXCEPT !.status = "DRAFT",
                                                        !.draft = save[t].data]]
       /\ Saving(t, [save[t] EXCEPT !.pc = "saved", !.rule = r])
  /\ UNCHANGED <<form, upload, submit, used, overlapped>>

updateDraftReads(t) ==
  /\ save[t].pc = "sent" /\ save[t].rule # NoRule
  /\ Saving(t, [save[t] EXCEPT !.pc =
       IF rule[save[t].rule].status = "DRAFT" THEN "checked" ELSE "failed"])
  /\ UNCHANGED <<form, upload, submit, rule, used, overlapped>>

updateDraftWrites(t) ==
  /\ save[t].pc = "checked"
  /\ IF Exists(save[t].rule)
     THEN /\ rule' = [rule EXCEPT ![save[t].rule].draft = save[t].data]
          /\ Saving(t, [save[t] EXCEPT !.pc = "saved"])
     ELSE Saving(t, [save[t] EXCEPT !.pc = "failed"]) /\ UNCHANGED rule
  /\ UNCHANGED <<form, upload, submit, used, overlapped>>

\* The form learns the draft's id, unless it is gone or never hears.
DraftAnswered(t) ==
  /\ save[t].pc \in {"saved", "failed"}
  /\ Saving(t, NoSave)
  /\ \/ /\ form' = IF form[t].open /\ save[t].pc = "saved"
                   THEN [form EXCEPT ![t].rule = save[t].rule] ELSE form
        /\ UNCHANGED used
     \/ /\ May("lost", MaxLost)
        /\ used' = [used EXCEPT !.lost = @ + 1]
        /\ UNCHANGED form
  /\ UNCHANGED <<upload, submit, rule, overlapped>>

-----------------------------------------------------------------------------
(* Publishing and saving changes.                                          *)

Submitting(t, s) == submit' = [submit EXCEPT ![t] = s]

submitAutomation(t) ==
  /\ form[t].open /\ FormOk(form[t])
  /\ submit[t] = NoSubmit /\ May("saves", MaxSaves)
  /\ Submitting(t, [NoSubmit EXCEPT !.pc = "sent", !.rule = form[t].rule,
                                    !.isEdit = form[t].isEdit, !.body = Body(form[t])])
  /\ used' = [used EXCEPT !.saves = @ + 1]
  /\ UNCHANGED <<form, upload, save, rule, overlapped>>

\* Ids and save numbers a stored body takes.
Numbered(body) == [used EXCEPT !.id = @ + Len(body.steps), !.by = @ + 1]

create(t) ==
  LET body == submit[t].body
  IN  /\ submit[t].pc = "sent" /\ submit[t].rule = NoRule
      /\ \/ /\ ApiOk(body)
            /\ \E r \in Rules :
                 /\ rule[r] = NeverMade
                 /\ rule' = [rule EXCEPT ![r] = NewRule(body, used.by, used.id)]
            /\ used' = Numbered(body)
            /\ Submitting(t, [submit[t] EXCEPT !.pc = "done"])
         \/ /\ ~ApiOk(body)
            /\ Submitting(t, [submit[t] EXCEPT !.pc = "failed"])
            /\ UNCHANGED <<rule, used>>
      /\ UNCHANGED <<form, upload, save, overlapped>>

\* A template installed through the API takes the path of a new automation.
install ==
  LET body == Body(TemplateContent(1))
  IN  /\ May("saves", MaxSaves)
      /\ \E r \in Rules :
           /\ rule[r] = NeverMade
           /\ rule' = [rule EXCEPT ![r] = NewRule(body, used.by, used.id)]
      /\ used' = [Numbered(body) EXCEPT !.saves = @ + 1]
      /\ UNCHANGED <<form, requests, overlapped>>

updateReads(t) ==
  LET r == submit[t].rule
  IN  /\ submit[t].pc = "sent" /\ r # NoRule
      /\ Submitting(t, IF Exists(r) /\ ApiOk(submit[t].body)
                       THEN [submit[t] EXCEPT !.pc = "read",
                               !.publishing = rule[r].status = "DRAFT" /\ ~submit[t].isEdit]
                       ELSE [submit[t] EXCEPT !.pc = "failed"])
      /\ UNCHANGED <<form, upload, save, rule, used, overlapped>>

\* The tabs whose transaction is open on a rule.
OpenOn(r) == {t \in Tabs : submit[t].pc = "open" /\ submit[t].rule = r}

\* trigger.deleteMany starts: it sees the rows committed now, and waits for
\* whoever already deletes some of them. A transaction that does not wait may
\* find the steps of now even when another commits before it deletes them.
updateOpens(t) ==
  LET r == submit[t].rule
      ahead == {u \in OpenOn(r) : ToSet(submit[u].triggers) \cap ToSet(rule[r].triggers) # {}}
  IN  /\ submit[t].pc = "read"
      /\ Submitting(t, [submit[t] EXCEPT
           !.pc = "open", !.triggers = rule[r].triggers, !.waits = ahead,
           !.found = IF ahead = {} THEN {rule[r].steps} ELSE {}])
      /\ overlapped' = IF OpenOn(r) = {} THEN overlapped ELSE overlapped \cup {r}
      /\ UNCHANGED <<form, upload, save, rule, used>>

Replaced_Merges(row, s, found) ==
  [row EXCEPT
     !.status = IF s.isEdit THEN @ ELSE "ACTIVE",
     !.draft  = IF s.publishing THEN NoContent ELSE @,
     !.scope  = s.body.scope, !.picked = s.body.picked,
     !.triggers = @ \o TriggerRows(s.body.triggers, used.by),
     !.steps = createActionTree(s.body.steps, collectActionIdPool(found), used.id, used.by)]

\* The rows that are not among those a transaction found.
Others(rows, found) == Among(rows, ToSet(rows) \ ToSet(found))

\* The rest of the transaction: the triggers it saw and the steps it found
\* are replaced.
Replaced(row, s, found) ==
  [row EXCEPT
     !.status = IF s.isEdit THEN @ ELSE "ACTIVE",
     !.draft  = IF s.publishing THEN NoContent ELSE @,
     !.scope  = s.body.scope, !.picked = s.body.picked,
     !.triggers = Others(@, s.triggers) \o TriggerRows(s.body.triggers, used.by),
     !.steps = Others(@, found)
               \o createActionTree(s.body.steps, collectActionIdPool(found), used.id, used.by)]

Ends(t, pc) ==
  submit' = [u \in Tabs |-> IF u = t THEN [submit[t] EXCEPT !.pc = pc]
                            ELSE [submit[u] EXCEPT !.waits = @ \ {t}]]

updateCommits(t) ==
  LET s == submit[t]
      r == s.rule
  IN  /\ s.pc = "open" /\ s.waits = {}
      /\ \E found \in s.found \cup {rule[r].steps} :
           LET row == Replaced(rule[r], s, found)
           IN  IF Exists(r) /\ IsInjective(Ids(row.steps))
               THEN /\ rule' = [rule EXCEPT ![r] = row]
                    /\ used' = Numbered(s.body)
                    /\ Ends(t, "done")
               ELSE \* gone, or an id it reuses is taken: rolled back
                    /\ Ends(t, "failed")
                    /\ UNCHANGED <<rule, used>>
      /\ UNCHANGED <<form, upload, save, overlapped>>

\* Success leaves the page; a failure, or an answer that is lost, stays on it.
SubmitAnswered(t) ==
  /\ submit[t].pc \in {"done", "failed"}
  /\ Submitting(t, NoSubmit)
  /\ \/ /\ submit[t].pc = "done"
        /\ form' = [form EXCEPT ![t] = Closed]
        /\ upload' = [upload EXCEPT ![t] = NoUpload]
        /\ UNCHANGED used
     \/ /\ submit[t].pc = "failed"
        /\ UNCHANGED <<form, upload, used>>
     \/ /\ submit[t].pc = "done" /\ May("lost", MaxLost)
        /\ used' = [used EXCEPT !.lost = @ + 1]
        /\ UNCHANGED <<form, upload>>
  /\ UNCHANGED <<save, rule, overlapped>>

\* The list's switch and its delete button.
ListEdit(row, r) ==
  /\ Exists(r) /\ May("edits", MaxEdits)
  /\ rule' = [rule EXCEPT ![r] = row]
  /\ used' = [used EXCEPT !.edits = @ + 1]
  /\ UNCHANGED <<form, requests, overlapped>>

handleToggle(r) ==
  /\ Live(r)
  /\ ListEdit([rule[r] EXCEPT !.status = IF @ = "ACTIVE" THEN "PAUSED" ELSE "ACTIVE"], r)

handleDelete(r) == ListEdit(Deleted, r)

Done ==
  /\ \A t \in Tabs : ~form[t].open /\ save[t] = NoSave /\ submit[t] = NoSubmit
  /\ UNCHANGED vars

Next ==
  \/ \E t \in Tabs :
       \/ OpenNew(t) \/ Leave(t)
       \/ \E r \in Rules : OpenRule(t, r)
       \/ EditScope(t) \/ EditTrigger(t) \/ EditSteps(t) \/ EditStep(t) \/ UseTemplate(t)
       \/ PickFile(t) \/ UploadDone(t)
       \/ saveDraft(t) \/ createDraft(t) \/ updateDraftReads(t) \/ updateDraftWrites(t)
       \/ DraftAnswered(t)
       \/ submitAutomation(t) \/ create(t) \/ updateReads(t) \/ updateOpens(t)
       \/ updateCommits(t) \/ SubmitAnswered(t)
  \/ \E r \in Rules : handleToggle(r) \/ handleDelete(r)
  \/ install
  \/ Done

Spec == Init /\ [][Next]_vars

-----------------------------------------------------------------------------
(* Properties.                                                             *)

Reply   == [text : BOOLEAN, media : BOOLEAN, links : Links]
Button  == [key : Nat, kind : Kinds, requireFollow : BOOLEAN, unlocked : Reply, locked : Reply]
Path    == Seq(Nat \X Branches)
Step    == [key : Nat, type : Types, test : Tests, delay : Delays, text : BOOLEAN,
            media : BOOLEAN, buttons : Seq(Button), path : Path]
Trigger == [source : Sources, test : Tests]
Contents == [scope : Scopes, picked : BOOLEAN, triggers : Seq(Trigger), steps : Seq(Step)]
Forms   == [open : BOOLEAN, isEdit : BOOLEAN, rule : Rules \cup {NoRule}, scope : Scopes,
            picked : BOOLEAN, triggers : Seq(Trigger), steps : Seq(Step)]
Uploads == [step : Nat, button : Nat, reply : Replies, buttons : Seq(Button)]
Saves   == [pc : {"idle", "sent", "checked", "saved", "failed"}, rule : Rules \cup {NoRule},
            data : Contents \cup {NoContent}]
TriggerStored == [source : Sources, test : TestsStored]
TriggerRow == [by : Nat, at : Nat, trigger : TriggerStored]
StepRow == [by : Nat, id : Nat, key : Nat, type : Types, test : TestsStored, delay : Delays,
            text : BOOLEAN, media : BOOLEAN, buttons : Seq(Button), path : Path]
Submits == [pc : {"idle", "sent", "read", "open", "done", "failed"}, rule : Rules \cup {NoRule},
            isEdit : BOOLEAN, body : Contents \cup {NoContent}, publishing : BOOLEAN,
            triggers : Seq(TriggerRow), found : SUBSET Seq(StepRow), waits : SUBSET Tabs]
Rows    == [status : {"NONE", "DELETED", "DRAFT", "ACTIVE", "PAUSED"}, scope : ScopesStored,
            picked : BOOLEAN, triggers : Seq(TriggerRow), steps : Seq(StepRow),
            draft : Contents \cup {NoContent}]

\* Types, no two rows of a rule with one id, no two steps of a form with one
\* key: an action id is part of the payload of every button already sent
\* (createActionTree), so two rows with one id could not be told apart.
TypeOK ==
  /\ form \in [Tabs -> Forms] /\ upload \in [Tabs -> Uploads]
  /\ save \in [Tabs -> Saves] /\ submit \in [Tabs -> Submits]
  /\ rule \in [Rules -> Rows] /\ overlapped \subseteq Rules
  /\ used \in [id : Nat, by : Nat, edits : Nat, files : Nat, saves : Nat, lost : Nat]
  /\ \A t \in Tabs : IsInjective(Keys(form[t].steps))
  /\ \A r \in Rules : IsInjective(Ids(rule[r].steps))

\* What only the API checks in what is sent: a trigger's pattern
\* (validateTriggers), a delay and the addresses in a reply (the DTOs).
LeftToTheApi(body) ==
  \/ \E tr \in ToSet(body.triggers) : tr.test = "badPattern"
  \/ \E n \in ToSet(body.steps) :
       n.delay = "odd" \/ \E b \in ToSet(n.buttons) : "odd" \in {b.unlocked.links, b.locked.links}

\* Whatever sequence of edits, late uploads and openings led here, a form that
\* passes its own checks sends a body the API accepts, save for what only the
\* API checks: the rules of the tree itself are the same on both sides, as the
\* comment on validateActionSteps says.
FormMirrorsApi ==
  \A t \in Tabs :
    form[t].open /\ FormOk(form[t]) => LET body == Body(form[t]) IN ApiOk(body) \/ LeftToTheApi(body)

\* A live automation has triggers and steps, those of one save and each step
\* once, unless two updates of it were open at once; a draft has neither, so
\* nothing can match it (AutomationsService.createDraft and update).
RulesAreWhole ==
  \A r \in Rules :
    /\ Live(r) =>
         /\ rule[r].triggers # <<>> /\ rule[r].steps # <<>>
         /\ r \notin overlapped =>
              /\ \A x, y \in ToSet(rule[r].triggers) \cup ToSet(rule[r].steps) : x.by = y.by
              /\ IsInjective(Keys(rule[r].steps))
    /\ rule[r].status = "DRAFT" => rule[r].triggers = <<>> /\ rule[r].steps = <<>>

Fields == {"key", "type", "test", "delay", "text", "media", "buttons", "path"}

\* What opening a step loses: a test its text cannot hold, a condition's delay.
LostOpening(n, field) ==
  (field = "test" /\ n.test \in Respelled) \/ (field = "delay" /\ n.type = "CONDITION")

\* A live automation opened in the editor and saved as it stands keeps its
\* scope, its triggers and every field of every step, but for what only other
\* clients of the API store: SPECIFIC_STORIES, keywords with commas, AI labels
\* and conditions with a delay. It can be saved as it stands unless a comma
\* cuts the pattern of one of its conditions.
ReopensAsSaved ==
  \A r \in Rules :
    Live(r) =>
      LET f == Opened(r)
          sent == Body(f)
          kept == rule[r]
      IN  /\ (\A n \in ToSet(kept.steps) : n.test # "commaPattern") => FormOk(f)
          /\ Len(sent.steps) = Len(kept.steps)
          /\ \A i \in DOMAIN kept.steps, fd \in Fields :
               sent.steps[i][fd] = kept.steps[i][fd] \/ LostOpening(kept.steps[i], fd)
          /\ Len(sent.triggers) = Len(kept.triggers)
          /\ \A i \in DOMAIN kept.triggers :
               LET trigger == kept.triggers[i].trigger
               IN  sent.triggers[i] = trigger
                     \/ (trigger.test \in Respelled /\ sent.triggers[i].source = trigger.source)
          /\ kept.scope # "SPECIFIC_STORIES" => sent.scope = kept.scope /\ sent.picked = kept.picked

\* An edit that keeps the steps there are in their places, whatever it changes
\* in them and whatever it adds after them, keeps their ids: the buttons people
\* already have in their chats still lead to the step they came from.
KeepsSentButtons ==
  [][\A r \in Rules :
       LET old == rule[r].steps
           new == rule'[r].steps
       IN  /\ Live(r) /\ Live(r)' /\ r \notin overlapped'
           /\ Len(old) <= Len(new)
           /\ \A i \in DOMAIN old : old[i].key = new[i].key /\ old[i].type = new[i].type
           => \A i \in DOMAIN old : old[i].id = new[i].id]_vars

Mixed(f) == \E n \in ToSet(f.steps) : n.media /\ n.buttons # <<>>

\* Only the answer to an upload can leave a step with both an attachment and
\* buttons, a state neither editor of the form shows and both checks refuse.
OnlyUploadsMix ==
  [][\A t \in Tabs :
       form[t].open /\ form'[t].open /\ ~Mixed(form[t]) /\ Mixed(form'[t])
         => upload[t] # NoUpload /\ upload'[t] = NoUpload]_vars

=============================================================================
