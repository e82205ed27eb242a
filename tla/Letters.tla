------------------------------ MODULE Letters ------------------------------
(***************************************************************************)
(* What a letter says: how a draft's body is authored or derived from a    *)
(* layout, what is bound into it when it is saved, what when it is sent,   *)
(* and what for each recipient.  Pods differ in the templates they embed   *)
(* and in what is configured while a deployment rolls, so the pod that     *)
(* saves a draft, the one that saves it again and the one that sends it    *)
(* need not agree.                                                         *)
(*                                                                         *)
(* A document is a set of rows, each a place of the email and a token: a   *)
(* text, a link, or a %%sentinel%% to be replaced later.  Order, markup    *)
(* and escaping are left out.  What a layout says is a set of blocks, the  *)
(* nested ones included.                                                   *)
(***************************************************************************)
EXTENDS Integers, FiniteSets

CONSTANTS
    Keys,          \* template keys an author may name
    Kinds,         \* block types
    Deployments,   \* how a pod may be built and configured
    Pods,
    Recipients     \* of a mailing

Fits == {"missing", "fits", "bulky"}

(* unsub and archive: the unsubscribe service, and the Self-Serve base     *)
(* URL, are configured.  library: for each embedded template its blocks,   *)
(* with "bulky" for one that compiles past the size of a body.             *)
ASSUME LettersAssumption ==
    /\ "none" \notin Keys
    /\ \A d \in Deployments :
          /\ d.unsub \in BOOLEAN /\ d.archive \in BOOLEAN
          /\ DOMAIN d.library \subseteq Keys
          /\ \A key \in DOMAIN d.library : d.library[key] \in [Kinds -> Fits]

VARIABLES
    deployment,    \* of each pod
    draft,         \* the row's body and its layout
    savedBy,       \* the deployment of the pod that saved the draft last
    answer,        \* to the request under way, Idle between requests
    outbox         \* the letters it handed to the provider, or showed

lettersVars == <<deployment, draft, savedBy, answer, outbox>>

----------------------------------------------------------------------------
(* Documents.                                                              *)

Sentinels == {"UNSUBSCRIBE_URL", "VIEW_ONLINE_URL", "MANAGE_SUBSCRIPTIONS_URL",
              "SENDER_NAME", "PROJECT_NAME", "SEND_DATE"}

Sentinel(name) == [is |-> "sentinel", of |-> name]
Text(what)     == [is |-> "text", of |-> what]
Link(what)     == [is |-> "link", of |-> what]
OptOutLink(to) == [is |-> "unsubscribe", of |-> to]

Row(place, token) == [place |-> place, token |-> token]

TokensOf(doc) == {row.token : row \in doc}

(* strings.NewReplacer over the whole of a body.                           *)
Replace(doc, bound) ==
    LET Bound(token) == IF token.is = "sentinel" /\ token.of \in DOMAIN bound
                        THEN bound[token.of] ELSE token
    IN  {Row(row.place, Bound(row.token)) : row \in doc}

Nothing == Text("")

(* What an author may have typed as body_html, or sent back from an        *)
(* earlier answer of the service.                                          *)
Typed ==
    [blank     |-> {},
     words     |-> {Row("body", Text("words"))},
     literals  |-> {Row("body", Sentinel("SENDER_NAME")),
                    Row("body", Sentinel("MANAGE_SUBSCRIPTIONS_URL"))},
     optout    |-> {Row("body", Text("words")), Row("body", Sentinel("UNSUBSCRIBE_URL"))},
     oversized |-> {Row("body", Text("too much"))}]

(* tainted: some field of some block, at any depth, holds a sentinel.      *)
NoLayout == [key |-> "none", blocks |-> {}, tainted |-> FALSE]
Layouts  == [key : Keys, blocks : SUBSET Kinds, tainted : BOOLEAN]

Requests == {[sets |-> "layout", layout |-> l, body |-> "blank"] : l \in Layouts}
            \cup [sets : {"null", "omitted"}, layout : {NoLayout},
                  body : DOMAIN Typed]

----------------------------------------------------------------------------
(* Deriving a body.                                                        *)

SendUnsubFooterMode(d) == IF d.unsub THEN "link" ELSE "reply"

(* The embedded wrappers: the opt-out row and the archive beside it stand  *)
(* behind edition.unsubscribe_url and have no reply-based variant; a blank *)
(* archive link leaves a label.  No wrapper renders the reply address.     *)
Wrapper(mode, manage, date, viewOnline) ==
    {Row("date", date), Row("sender", Sentinel("SENDER_NAME")),
     Row("project", Sentinel("PROJECT_NAME"))}
    \cup (IF viewOnline = Nothing THEN {} ELSE {Row("view online", viewOnline)})
    \cup (IF mode = "link"
          THEN {Row("optout", Sentinel("UNSUBSCRIBE_URL")),
                Row("archive", IF manage THEN Sentinel("MANAGE_SUBSCRIPTIONS_URL")
                               ELSE Nothing)}
          ELSE {})

(* renderLayoutBody and the size check that follows it everywhere.         *)
RenderCodeFault(d, layout) ==
    IF layout.tainted THEN 400
    ELSE IF layout.key \notin DOMAIN d.library THEN 404
    ELSE IF \E b \in layout.blocks : d.library[layout.key][b] # "fits" THEN 422
    ELSE 200

RenderCode(d, layout) ==
    IF layout.tainted THEN 400
    ELSE IF layout.key \notin DOMAIN d.library THEN 422
    ELSE IF \E b \in layout.blocks : d.library[layout.key][b] # "fits" THEN 422
    ELSE 200

RenderLayout(layout, mode, manage, date, viewOnline) ==
    Wrapper(mode, manage, date, viewOnline)
    \cup {Row("block", Text(b)) : b \in layout.blocks}

(* As a draft's body is derived when it is saved.                          *)
Derived(d, layout) ==
    RenderLayout(layout, SendUnsubFooterMode(d), TRUE, Sentinel("SEND_DATE"), Nothing)

----------------------------------------------------------------------------
(* Saving.                                                                 *)

Idle == 0

NoDraft == [exists |-> FALSE, layout |-> NoLayout, body |-> {}]

LEInit ==
    /\ deployment \in [Pods -> Deployments]
    /\ draft = NoDraft
    /\ savedBy \in Deployments
    /\ answer = Idle
    /\ outbox = {}

(* validateBodyHTML                                                        *)
BodyCode(body) == IF body \in {"blank", "oversized"} THEN 400 ELSE 200

OptionalBodyCode(body) == IF body = "oversized" THEN 400 ELSE 200

Save(pod, layout, body) ==
    /\ draft' = [exists |-> TRUE, layout |-> layout, body |-> body]
    /\ savedBy' = deployment[pod]
    /\ answer' = 200
    /\ UNCHANGED <<deployment, outbox>>

Refuse(code) == answer' = code /\ UNCHANGED <<deployment, draft, savedBy, outbox>>

SaveDerived(pod, layout) ==
    LET d == deployment[pod] IN
        IF RenderCode(d, layout) = 200 THEN Save(pod, layout, Derived(d, layout))
        ELSE Refuse(RenderCode(d, layout))

CreateDraft(pod, r) ==
    /\ ~draft.exists
    /\ IF r.sets = "layout" THEN SaveDerived(pod, r.layout)
       ELSE IF BodyCode(r.body) # 200 THEN Refuse(400)
       ELSE Save(pod, NoLayout, Typed[r.body])

SetLayout(pod, r) == r.sets = "layout" /\ SaveDerived(pod, r.layout)

(* An explicit null: back to an authored body, which may be blank yet.     *)
ClearLayout(pod, r) ==
    /\ r.sets = "null"
    /\ IF OptionalBodyCode(r.body) # 200 THEN Refuse(400)
       ELSE Save(pod, NoLayout, Typed[r.body])

(* A stored layout that the request omits is kept, and its body derived    *)
(* again under this pod's settings.                                        *)
KeepLayoutFault(pod, r) ==
    /\ r.sets = "omitted" /\ draft.layout # NoLayout
    /\ Save(pod, draft.layout, draft.body)

KeepLayout(pod, r) ==
    /\ r.sets = "omitted" /\ draft.layout # NoLayout
    /\ SaveDerived(pod, draft.layout)

SetBody(pod, r) ==
    /\ r.sets = "omitted" /\ draft.layout = NoLayout
    /\ IF BodyCode(r.body) # 200 THEN Refuse(400)
       ELSE Save(pod, NoLayout, Typed[r.body])

UpdateDraft(pod, r) ==
    /\ draft.exists
    /\ SetLayout(pod, r) \/ ClearLayout(pod, r) \/ KeepLayout(pod, r) \/ SetBody(pod, r)

----------------------------------------------------------------------------
(* Sending.                                                                *)

(* What the other services say of the sender and the project.              *)
Lookups == [name : {"found", "failed"}, email : {"found", "failed"},
            slug : {"found", "failed"}]

Shown(place, token) == IF token = Nothing THEN {} ELSE {Row(place, token)}

(* The chrome around an authored body: its HTML, and its text, which is    *)
(* built from the same fields but has no share links.                      *)
Chrome(body, date, reply, readOnline, unsubscribe, archive) ==
    {Row("date", date), Row("sender", Text("sender")), Row("project", Text("project")),
     Row("reply", reply),
     Row("optout", IF unsubscribe = Nothing THEN Text("reply with UNSUBSCRIBE")
                   ELSE unsubscribe)}
    \cup body
    \cup Shown("read online", readOnline) \cup Shown("share", readOnline)
    \cup Shown("archive", archive)

EmailText(html) == {row \in html : row.place # "share"}

Archive(d) == IF d.archive THEN Link("archive") ELSE Nothing

(* readOnlineURL                                                           *)
ReadOnlineURL(d, found) ==
    IF d.archive /\ found.slug = "found" THEN Link("permalink") ELSE Nothing

(* fallbackString(resolveSenderEmail, EDReplyEmail)                        *)
ReplyTo(found) == Text(IF found.email = "found" THEN "sender email" ELSE "drafter email")

SubstituteSendScope(doc, date) ==
    Replace(doc, [SENDER_NAME |-> Text("sender"), PROJECT_NAME |-> Text("project"),
                  SEND_DATE |-> date])

SubstitutePlaceholdersFault(d, doc, to, isLayout) ==
    Replace(doc, [UNSUBSCRIBE_URL |-> IF d.unsub THEN OptOutLink(to) ELSE Nothing,
                  MANAGE_SUBSCRIPTIONS_URL |-> Archive(d), VIEW_ONLINE_URL |-> Nothing])

SubstitutePlaceholders(d, doc, to, isLayout) ==
    LET unsubscribe == IF d.unsub THEN OptOutLink(to) ELSE Nothing IN
        IF isLayout
        THEN Replace(doc, [UNSUBSCRIBE_URL |-> unsubscribe,
                           MANAGE_SUBSCRIPTIONS_URL |-> Archive(d),
                           VIEW_ONLINE_URL |-> Nothing])
        ELSE Replace(doc, [UNSUBSCRIBE_URL |-> unsubscribe])

Legacy(d, found) ==
    Chrome(draft.body, Text("send date"), ReplyTo(found), ReadOnlineURL(d, found),
           IF d.unsub THEN Sentinel("UNSUBSCRIBE_URL") ELSE Nothing, Archive(d))

(* What every recipient's copy starts from: a layout is rendered again by  *)
(* the pod that sends.                                                     *)
TemplateFault(d, found) ==
    IF draft.layout = NoLayout THEN Legacy(d, found)
    ELSE SubstituteSendScope(draft.body, Text("send date"))

Template(d, found) ==
    IF draft.layout = NoLayout THEN Legacy(d, found)
    ELSE SubstituteSendScope(
             RenderLayout(draft.layout, SendUnsubFooterMode(d), d.archive,
                          Text("send date"), ReadOnlineURL(d, found)),
             Text("send date"))

(* In the order of the code.                                               *)
SendCode(d, found) ==
    IF found.name = "failed" THEN 500
    ELSE IF draft.layout # NoLayout
    THEN IF draft.layout.blocks = {} THEN 400
         ELSE IF ~d.unsub THEN 503
         ELSE RenderCode(d, draft.layout)
    ELSE IF draft.body = {} \/ draft.body = Typed["oversized"] THEN 400
    ELSE 202

(* The two parts one recipient gets.  The text of a layout letter is read  *)
(* off its HTML (PlainText); nothing a row says is lost.                   *)
Letter(d, html, to) ==
    LET isLayout  == draft.layout # NoLayout
        part(doc) == SubstitutePlaceholders(d, doc, to, isLayout)
    IN  [kind |-> "mailing", isLayout |-> isLayout, to |-> to, by |-> d,
         typed |-> draft.body, html |-> part(html), text |-> part(EmailText(html))]

SendNewsletter(pod, found) ==
    LET d == deployment[pod] IN
        /\ draft.exists
        /\ IF SendCode(d, found) \notin {200, 202} THEN Refuse(SendCode(d, found))
           ELSE /\ outbox' = {Letter(d, Template(d, found), to) : to \in Recipients}
                /\ answer' = 202
                /\ UNCHANGED <<deployment, draft, savedBy>>

----------------------------------------------------------------------------
(* Tests and previews keep nothing.                                        *)

TestDoc(d, r, found, to) ==
    IF r.sets = "layout"
    THEN Replace(SubstituteSendScope(
                     RenderLayout(r.layout, "suppressed", FALSE, Text("today"), Nothing),
                     Text("today")),
                 [UNSUBSCRIBE_URL |-> Nothing, VIEW_ONLINE_URL |-> Nothing,
                  MANAGE_SUBSCRIPTIONS_URL |-> Nothing])
    ELSE Chrome(Typed[r.body], Text("today"), ReplyTo(found), Nothing,
                IF d.unsub THEN OptOutLink(to) ELSE Nothing, Archive(d))

TestCode(d, r, found) ==
    IF found.name = "failed" THEN 500
    ELSE IF r.sets = "layout" THEN RenderCode(d, r.layout)
    ELSE BodyCode(r.body)

TestSend(pod, r, found, to) ==
    LET d == deployment[pod]
        html == TestDoc(d, r, found, to)
    IN
        IF TestCode(d, r, found) # 200 THEN Refuse(TestCode(d, r, found))
        ELSE /\ outbox' = {[kind |-> "test", isLayout |-> r.sets = "layout", to |-> to,
                            by |-> d, typed |-> Typed[r.body], html |-> html,
                            text |-> EmailText(html)]}
             /\ answer' = 202
             /\ UNCHANGED <<deployment, draft, savedBy>>

ClientFields == {"date", "view online", "names", "optout", "archive"}
Clients == {{}, {"names"}, ClientFields}

(* previewWrapperContent: the client's date, permalink and names are taken *)
(* over; what the send path binds into the footer is not.                  *)
PreviewDoc(d, layout, client) ==
    LET date == Text(IF "date" \in client THEN "client" ELSE "today")
        view == IF "view online" \in client THEN Text("client") ELSE Nothing
        whole == RenderLayout(layout, SendUnsubFooterMode(d), FALSE, date, view)
    IN  IF "names" \in client
        THEN Replace(whole, [SENDER_NAME |-> Text("client"), PROJECT_NAME |-> Text("client")])
        ELSE {row \in whole : row.place \notin {"sender", "project"}}

RenderPreview(pod, layout, client) ==
    LET d == deployment[pod]
        html == PreviewDoc(d, layout, client)
    IN
        IF RenderCode(d, layout) # 200 THEN Refuse(RenderCode(d, layout))
        ELSE /\ outbox' = {[kind |-> "preview", isLayout |-> TRUE, to |-> "nobody",
                            by |-> d, typed |-> {}, html |-> html, text |-> html]}
             /\ answer' = 200
             /\ UNCHANGED <<deployment, draft, savedBy>>

(* The client has its answer, the provider its letters.                    *)
TakeAnswer ==
    /\ answer # Idle
    /\ answer' = Idle
    /\ outbox' = {}
    /\ UNCHANGED <<deployment, draft, savedBy>>

(* A pod is replaced by one of another build or configuration.             *)
Roll(pod, d) ==
    /\ answer = Idle
    /\ deployment' = [deployment EXCEPT ![pod] = d]
    /\ UNCHANGED <<draft, savedBy, answer, outbox>>

Request(pod) ==
    /\ answer = Idle
    /\ \/ \E r \in Requests : CreateDraft(pod, r) \/ UpdateDraft(pod, r)
       \/ \E found \in Lookups : SendNewsletter(pod, found)
       \/ \E r \in Requests, found \in Lookups, to \in Recipients :
              TestSend(pod, r, found, to)
       \/ \E layout \in Layouts, client \in Clients : RenderPreview(pod, layout, client)

LENext ==
    \/ \E pod \in Pods : Request(pod)
    \/ \E pod \in Pods, d \in Deployments : Roll(pod, d)
    \/ TakeAnswer

LESpec == LEInit /\ [][LENext]_lettersVars

----------------------------------------------------------------------------
(* Properties.                                                             *)

DocType(doc) ==
    /\ \A row \in doc : DOMAIN row = {"place", "token"}
    /\ \A token \in TokensOf(doc) :
           \/ token.is \in {"text", "link"}
           \/ token.is = "sentinel" /\ token.of \in Sentinels
           \/ token.is = "unsubscribe" /\ token.of \in Recipients

LETypeOK ==
    /\ deployment \in [Pods -> Deployments]
    /\ draft.exists \in BOOLEAN
    /\ draft.layout \in Layouts \cup {NoLayout}
    /\ DocType(draft.body)
    /\ savedBy \in Deployments
    /\ \A letter \in outbox :
           /\ letter.kind \in {"mailing", "test", "preview"}
           /\ DocType(letter.html) /\ DocType(letter.text)
    /\ answer \in {Idle, 200, 202, 400, 422, 500, 503}

Parts(letter) == {letter.html, letter.text}

SentinelsIn(doc) == {token \in TokensOf(doc) : token.is = "sentinel"}

(* The body of a draft that has a layout is that layout's, as the pod of   *)
(* the last save renders it: never the body of an earlier layout, of       *)
(* earlier settings, or of the request.                                    *)
BodyFollowsLayout ==
    draft.layout # NoLayout => draft.body = Derived(savedBy, draft.layout)

(* Both parts of every mailed letter let its reader opt out, by a link of  *)
(* the reader's own whenever the sending pod can make one, whatever was    *)
(* configured when the draft was saved; and testing a layout hands out no  *)
(* link.                                                                   *)
EveryLetterOptsOut ==
    \A letter \in outbox : \A part \in Parts(letter) :
        /\ letter.kind = "mailing" =>
               Row("optout", IF letter.by.unsub THEN OptOutLink(letter.to)
                             ELSE Text("reply with UNSUBSCRIBE")) \in part
        /\ letter.kind = "test" /\ letter.isLayout =>
               OptOutLink(letter.to) \notin TokensOf(part)

(* No sentinel of the service reaches a reader, and nothing an author      *)
(* typed is taken for one, but for an opt-out link of their own.           *)
NothingUnresolved ==
    \A letter \in outbox : \A part \in Parts(letter) :
        /\ letter.kind # "preview" /\ letter.isLayout => SentinelsIn(part) = {}
        /\ letter.kind = "mailing" /\ ~letter.isLayout =>
               SentinelsIn(part) = SentinelsIn(letter.typed) \ {Sentinel("UNSUBSCRIBE_URL")}
        /\ letter.kind = "preview" => SentinelsIn(part) \subseteq {Sentinel("UNSUBSCRIBE_URL")}

=============================================================================
