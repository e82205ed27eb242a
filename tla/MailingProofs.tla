---------------------------- MODULE MailingProofs ----------------------------
(***************************************************************************)
(* Whom a mailing goes to and what its letters say, for any committees,    *)
(* rosters, opt-outs, templates, layouts, settings and pods.               *)
(*                                                                         *)
(* The audience.  A finished audience is Merge of what every committee     *)
(* answered and of the opt-outs read, and stays so; opt-outs are recorded  *)
(* normalised, as the merge compares them.  That nobody listed is dropped  *)
(* needs the first place a mailbox is listed at, which exists because the  *)
(* naturals are well ordered.                                              *)
(*                                                                         *)
(* The letters.  Every document a letter starts from is written down row   *)
(* by row, and Replace turns a document's sentinels into what is bound and *)
(* leaves every other row where it is.  What a letter shows then follows   *)
(* from which sentinels its template has, which for an authored body are   *)
(* those of the body: the invariant keeps that a body without a layout is  *)
(* one an author typed, and one with a layout is derived from it.          *)
(***************************************************************************)
EXTENDS Audience, Letters, WellFoundedInduction, TLAPS

----------------------------------------------------------------------------
(* The audience.                                                           *)

Excluded == {o.email : o \in withheld}

AudienceInv ==
    /\ AUTypeOK
    /\ \A o \in optOuts : o.email.spelling = "plain"
    /\ \A o \in steadfast : o.project = project
    /\ \A i \in Slots : lookup[i] = "answered" => found[i] = roster[i]
    /\ resolving \in {"listing", "done"} => \A i \in Slots : lookup[i] = "answered"
    /\ resolving = "done" => /\ audience = Merge(found, Excluded)
                             /\ steadfast \subseteq withheld
    /\ resolving # "done" => audience = {}

----------------------------------------------------------------------------
(* Places in the rosters.                                                  *)

LEMMA LeastOf ==
    ASSUME NEW T \in SUBSET Nat, T # {}
    PROVE  \E least \in T : \A n \in T : least <= n
  <1>1. PICK least \in T : \A n \in T : ~(<<n, least>> \in OpToRel(<, Nat))
    BY NatLessThanWellFounded, WFMin, Zenon
  <1>2. \A n \in T : ~(n < least)
    BY <1>1 DEF OpToRel
  <1> QED
    BY <1>2

Results == [Slots -> Seq(Addresses)]

LEMMA PlacesAre ==
    ASSUME NEW results \in Results
    PROVE  /\ Positions(results) \subseteq Slots \X (Nat \ {0})
           /\ \A i \in Slots : \A k \in DOMAIN results[i] : <<i, k>> \in Positions(results)
           /\ \A p \in Positions(results) : /\ p[1] \in Slots /\ p[2] \in Nat
                                            /\ p[2] \in DOMAIN results[p[1]]
                                            /\ p = <<p[1], p[2]>>
                                            /\ results[p[1]][p[2]] \in Addresses
  BY DEF Positions, Results

LEMMA EmailsAreNormal ==
    ASSUME NEW results \in Results, NEW p \in Positions(results)
    PROVE  /\ Email(results, p) = [box |-> results[p[1]][p[2]].box, spelling |-> "plain"]
           /\ Email(results, p) \in Addresses
  BY PlacesAre DEF Email, Normalised, Addresses

LEMMA FirstPlace ==
    ASSUME NEW results \in Results, NEW p \in Positions(results)
    PROVE  \E q \in Positions(results) :
               FirstListed(results, q) /\ Email(results, q) = Email(results, p)
  <1> DEFINE Same(i, k) == Email(results, <<i, k>>) = Email(results, p)
             I == {i \in Slots : \E k \in DOMAIN results[i] : Same(i, k)}
  <1>1. I \in SUBSET Nat /\ I # {}
    <2>1. p[1] \in Slots /\ p[2] \in DOMAIN results[p[1]] /\ Same(p[1], p[2])
      BY PlacesAre
    <2> QED
      BY <2>1, AudienceAssumption DEF Slots
  <1>2. PICK i \in I : \A j \in I : i <= j
    BY <1>1, LeastOf
  <1> DEFINE K == {k \in DOMAIN results[i] : Same(i, k)}
  <1>3. K \in SUBSET Nat /\ K # {}
    <2>1. i \in Slots /\ results[i] \in Seq(Addresses)
      BY <1>2 DEF Results
    <2>2. DOMAIN results[i] \in SUBSET Nat
      BY <2>1
    <2> QED
      BY <1>2, <2>2
  <1>4. PICK k \in K : \A l \in K : k <= l
    BY <1>3, LeastOf
  <1>5. <<i, k>> \in Positions(results) /\ Email(results, <<i, k>>) = Email(results, p)
    BY <1>2, <1>4, PlacesAre
  <1>6. ASSUME NEW q \in Positions(results), Before(q, <<i, k>>)
        PROVE  Email(results, q) # Email(results, p)
    <2> SUFFICES ASSUME Same(q[1], q[2]) PROVE FALSE
      BY PlacesAre
    <2>1. q[1] \in I /\ i <= q[1]
      BY <1>2, PlacesAre
    <2>2. q[1] \in Nat /\ i \in Nat /\ q[1] = i /\ q[2] < k
      BY <1>1, <1>2, <1>6, <2>1 DEF Before
    <2>3. q[2] \in K
      BY <2>2, PlacesAre
    <2> QED
      BY <1>3, <1>4, <2>2, <2>3
  <1>7. FirstListed(results, <<i, k>>)
    BY <1>5, <1>6 DEF FirstListed
  <1> QED
    BY <1>5, <1>7

LEMMA MergeType ==
    ASSUME NEW results \in Results, NEW excluded
    PROVE  Merge(results, excluded) \subseteq [at : Slots \X (Nat \ {0}), email : Addresses]
  BY PlacesAre, EmailsAreNormal DEF Merge

(* Nobody is mailed who is excluded, nobody twice, and everybody else is.  *)
LEMMA MergeIsWhole ==
    ASSUME NEW results \in Results, NEW excluded
    PROVE  /\ \A r \in Merge(results, excluded) :
                  r.email \notin excluded /\ r.email.spelling = "plain"
           /\ \A r, s \in Merge(results, excluded) : r.email.box = s.email.box => r = s
           /\ \A i \in Slots : \A k \in DOMAIN results[i] :
                  \/ results[i][k].box \in Malformed
                  \/ \E r \in Merge(results, excluded) : r.email.box = results[i][k].box
                  \/ \E e \in excluded : e.box = results[i][k].box
  <1> DEFINE M == Merge(results, excluded)
  <1>1. \A r \in M : \E p \in Positions(results) :
            /\ r = [at |-> p, email |-> Email(results, p)]
            /\ FirstListed(results, p) /\ Email(results, p) \notin excluded
    BY DEF Merge
  <1>2. \A r \in M : r.email \notin excluded /\ r.email.spelling = "plain"
    BY <1>1, EmailsAreNormal
  <1>3. ASSUME NEW r \in M, NEW s \in M, r.email.box = s.email.box
        PROVE  r = s
    <2>1. PICK p \in Positions(results) : /\ r = [at |-> p, email |-> Email(results, p)]
                                          /\ FirstListed(results, p)
      BY <1>1
    <2>2. PICK q \in Positions(results) : /\ s = [at |-> q, email |-> Email(results, q)]
                                          /\ FirstListed(results, q)
      BY <1>1
    <2>3. Email(results, p) = Email(results, q)
      BY <1>3, <2>1, <2>2, EmailsAreNormal
    <2>4. ~Before(p, q) /\ ~Before(q, p)
      BY <2>1, <2>2, <2>3 DEF FirstListed
    <2>5. p = q
      BY <2>4, PlacesAre, AudienceAssumption DEF Before, Slots
    <2> QED
      BY <2>1, <2>2, <2>5
  <1>4. ASSUME NEW i \in Slots, NEW k \in DOMAIN results[i],
               results[i][k].box \notin Malformed
        PROVE  \/ \E r \in M : r.email.box = results[i][k].box
               \/ \E e \in excluded : e.box = results[i][k].box
    <2>1. <<i, k>> \in Positions(results)
      BY PlacesAre
    <2>2. PICK q \in Positions(results) :
              FirstListed(results, q) /\ Email(results, q) = Email(results, <<i, k>>)
      BY <2>1, FirstPlace
    <2>3. Email(results, q).box = results[i][k].box
      BY <2>1, <2>2, EmailsAreNormal
    <2>4. CASE Email(results, q) \in excluded
      BY <2>3, <2>4
    <2>5. CASE Email(results, q) \notin excluded
      <3>1. [at |-> q, email |-> Email(results, q)] \in M
        BY <1>4, <2>2, <2>3, <2>5 DEF Merge
      <3> QED
        BY <2>3, <3>1
    <2> QED
      BY <2>4, <2>5
  <1> QED
    BY <1>2, <1>3, <1>4

----------------------------------------------------------------------------
(* The invariant of the audience.                                          *)

LEMMA AudienceFacts ==
    ASSUME AudienceInv
    PROVE  /\ roster \in Results /\ found \in Results
           /\ \A o \in optOuts : o.email.spelling = "plain"
           /\ steadfast \subseteq optOuts
  <1>1. Rosters \cup {<<>>} \subseteq Seq(Addresses)
    <2>1. <<>> \in Seq(Addresses)
      OBVIOUS
    <2> QED
      BY <2>1, AudienceAssumption
  <1>2. roster \in Results /\ found \in Results
    BY <1>1 DEF AudienceInv, AUTypeOK, Results
  <1> QED
    BY <1>2 DEF AudienceInv, AUTypeOK

LEMMA AudienceInit == AUInit => AudienceInv
  BY AudienceAssumption DEF AUInit, AudienceInv, AUTypeOK

LEMMA StartResolvingStep ==
    ASSUME AudienceInv, NEW p \in Projects, StartResolving(p)
    PROVE  AudienceInv'
  <1>1. rounds' \in 0..MaxRounds
    BY AudienceAssumption DEF StartResolving, AudienceInv, AUTypeOK
  <1>2. AUTypeOK'
    BY <1>1 DEF StartResolving, AudienceInv, AUTypeOK
  <1> QED
    BY <1>2 DEF StartResolving, AudienceInv

LEMMA LookupStep ==
    ASSUME AudienceInv, NEW i \in Slots, AnswerLookup(i) \/ FailLookup(i)
    PROVE  AudienceInv'
  <1>1. resolving \notin {"listing", "done"}
    BY DEF AudienceInv, AnswerLookup, FailLookup
  <1>2. AUTypeOK'
    BY DEF AudienceInv, AUTypeOK, AnswerLookup, FailLookup
  <1>3. \A j \in Slots : lookup'[j] = "answered" => found'[j] = roster'[j]
    BY DEF AudienceInv, AUTypeOK, AnswerLookup, FailLookup
  <1> QED
    BY <1>1, <1>2, <1>3 DEF AudienceInv, AnswerLookup, FailLookup

LEMMA WaitForLookupsStep ==
    ASSUME AudienceInv, WaitForLookups
    PROVE  AudienceInv'
  <1>1. AUTypeOK'
    BY DEF AudienceInv, AUTypeOK, WaitForLookups
  <1> QED
    BY <1>1 DEF AudienceInv, WaitForLookups

LEMMA ReadOptOutsStep ==
    ASSUME AudienceInv, ReadOptOuts
    PROVE  AudienceInv'
  <1>1. CASE resolving' = "failed" /\ UNCHANGED <<audience, links, withheld>>
    <2>1. AUTypeOK'
      BY <1>1 DEF AudienceInv, AUTypeOK, ReadOptOuts
    <2> QED
      BY <1>1, <2>1 DEF AudienceInv, ReadOptOuts
  <1>2. CASE /\ audience' = Merge(found, ListUnsubscribedEmails(project))
             /\ resolving' = "done"
             /\ \/ UNCHANGED links
                \/ links' = links \cup {OptOut(project, Normalised(r.email)) : r \in audience'}
             /\ withheld' = {o \in optOuts : o.project = project}
    <2>1. Excluded' = ListUnsubscribedEmails(project)
      BY <1>2 DEF Excluded, ListUnsubscribedEmails
    <2>2. audience' = Merge(found, Excluded)'
      <3>1. found' = found
        BY DEF ReadOptOuts
      <3>2. Merge(found, Excluded)' = Merge(found, ListUnsubscribedEmails(project))
        BY <2>1, <3>1 DEF Merge, Positions, Email, FirstListed, Before, Normalised
      <3> QED
        BY <1>2, <3>2
    <2>3. audience' \subseteq [at : Slots \X (Nat \ {0}), email : Addresses]
      BY <1>2, AudienceFacts, MergeType
    <2>4. links' \subseteq [project : Projects, email : Addresses]
      BY <1>2, <2>3 DEF AudienceInv, AUTypeOK, OptOut, Normalised, Addresses
    <2>5. AUTypeOK'
      BY <1>2, <2>3, <2>4 DEF AudienceInv, AUTypeOK, ReadOptOuts
    <2>6. (steadfast \subseteq withheld)'
      BY <1>2 DEF AudienceInv, AUTypeOK, ReadOptOuts
    <2>7. \A i \in Slots : lookup'[i] = "answered" /\ found'[i] = roster'[i]
      BY DEF AudienceInv, ReadOptOuts
    <2>8. /\ \A o \in optOuts' : o.email.spelling = "plain"
          /\ \A o \in steadfast' : o.project = project'
      BY DEF AudienceInv, ReadOptOuts
    <2> QED
      BY <1>2, <2>2, <2>5, <2>6, <2>7, <2>8 DEF AudienceInv
  <1> QED
    BY <1>1, <1>2 DEF ReadOptOuts

(* Neither a new opt-out nor the end of one reaches a finished audience.   *)
LEMMA OptOutStep ==
    ASSUME AudienceInv,
           \/ \E link \in links : Unsubscribe(link)
           \/ \E row \in optOuts : DeleteOptOut(row)
    PROVE  AudienceInv'
  <1>1. /\ UNCHANGED <<roster, resolution, withheld, links>>
        /\ steadfast' \subseteq steadfast /\ steadfast' \subseteq optOuts'
        /\ optOuts' \subseteq [project : Projects, email : Addresses]
        /\ \A o \in optOuts' : o.email.spelling = "plain"
        /\ rounds' = rounds
    <2>1. ASSUME NEW link \in links, Unsubscribe(link)
          PROVE  <1>1!1 /\ <1>1!2 /\ <1>1!3 /\ <1>1!4 /\ <1>1!5
      BY <2>1 DEF AudienceInv, AUTypeOK, Unsubscribe, OptOut, Normalised, Addresses
    <2>2. ASSUME NEW row \in optOuts, DeleteOptOut(row)
          PROVE  <1>1!1 /\ <1>1!2 /\ <1>1!3 /\ <1>1!4 /\ <1>1!5
      BY <2>2 DEF AudienceInv, AUTypeOK, DeleteOptOut
    <2> QED
      BY <2>1, <2>2
  <1>2. AUTypeOK'
    BY <1>1 DEF AudienceInv, AUTypeOK, resolution
  <1>3. Merge(found, Excluded)' = Merge(found, Excluded)
    BY <1>1 DEF resolution, Excluded, Merge, Positions, Email, FirstListed, Before, Normalised
  <1> QED
    BY <1>1, <1>2, <1>3 DEF AudienceInv, resolution

LEMMA AudienceStep == AudienceInv /\ [AUNext]_audienceVars => AudienceInv'
  <1> SUFFICES ASSUME AudienceInv, [AUNext]_audienceVars PROVE AudienceInv'
    OBVIOUS
  <1>1. CASE UNCHANGED audienceVars
    <2>1. Merge(found, Excluded)' = Merge(found, Excluded)
      BY <1>1 DEF audienceVars, resolution, Excluded,
                  Merge, Positions, Email, FirstListed, Before, Normalised
    <2> QED
      BY <1>1, <2>1 DEF audienceVars, resolution, AudienceInv, AUTypeOK
  <1>2. CASE AUNext
    BY <1>2, StartResolvingStep, LookupStep, WaitForLookupsStep, ReadOptOutsStep, OptOutStep
       DEF AUNext
  <1> QED
    BY <1>1, <1>2

LEMMA AudienceInvHolds == AUSpec => []AudienceInv
  BY AudienceInit, AudienceStep, PTL DEF AUSpec

----------------------------------------------------------------------------
(* The theorems of the audience.                                           *)

(* Nobody who opted out before the audience was resolved, and stayed out,  *)
(* is in it, however the committees spell the address.                     *)
THEOREM OptOutsAreKeptHolds == AUSpec => []OptOutsAreKept
  <1>1. AudienceInv => OptOutsAreKept
    <2> SUFFICES ASSUME AudienceInv, resolving = "done", NEW o \in steadfast, NEW r \in audience,
                        r.email.box = o.email.box
                 PROVE  FALSE
      BY DEF OptOutsAreKept, Mailed
    <2>1. r.email \notin Excluded /\ r.email.spelling = "plain"
      BY AudienceFacts, MergeIsWhole DEF AudienceInv
    <2>2. o.email \in Excluded /\ o.email.spelling = "plain"
      BY AudienceFacts DEF AudienceInv, Excluded
    <2>3. r.email = o.email
      BY <2>1, <2>2, AudienceFacts DEF AudienceInv, AUTypeOK, Addresses
    <2> QED
      BY <2>1, <2>2, <2>3
  <1> QED
    BY <1>1, AudienceInvHolds, PTL

(* A resolved audience is whole: no committee is missing from it, no       *)
(* mailbox is in it twice, and nobody is dropped for anything but an       *)
(* opt-out of this project.                                                *)
THEOREM WholeAudienceHolds == AUSpec => []WholeAudience
  <1>1. AudienceInv => WholeAudience
    <2> SUFFICES ASSUME AudienceInv PROVE WholeAudience
      OBVIOUS
    <2>1. CASE resolving # "done"
      BY <2>1 DEF WholeAudience, AudienceInv
    <2>2. CASE resolving = "done"
      <3>1. audience = Merge(found, Excluded) /\ \A i \in Slots : found[i] = roster[i]
        BY <2>2 DEF AudienceInv
      <3>2. \A r, s \in audience : r.email.box = s.email.box => r = s
        BY <3>1, AudienceFacts, MergeIsWhole
      <3>3. ASSUME NEW i \in Slots, NEW k \in DOMAIN roster[i]
            PROVE  \/ roster[i][k].box \in Malformed
                   \/ \E a \in Mailed : a.box = roster[i][k].box
                   \/ \E o \in withheld : o.email.box = roster[i][k].box
        <4>1. \/ roster[i][k].box \in Malformed
              \/ \E r \in audience : r.email.box = roster[i][k].box
              \/ \E e \in Excluded : e.box = roster[i][k].box
          BY <3>1, AudienceFacts, MergeIsWhole
        <4> QED
          BY <4>1 DEF Mailed, Excluded
      <3> QED
        BY <3>2, <3>3 DEF WholeAudience
    <2> QED
      BY <2>1, <2>2
  <1> QED
    BY <1>1, AudienceInvHolds, PTL

(* The resolution's state has its types.                                   *)
THEOREM AudienceTypesHold == AUSpec => []AUTypeOK
  <1>1. AudienceInv => AUTypeOK
    BY DEF AudienceInv
  <1> QED
    BY <1>1, AudienceInvHolds, PTL

----------------------------------------------------------------------------
(* The letters.                                                            *)

OptsOut(letter) ==
    \A part \in Parts(letter) :
        /\ letter.kind = "mailing" =>
               Row("optout", IF letter.by.unsub THEN OptOutLink(letter.to)
                             ELSE Text("reply with UNSUBSCRIBE")) \in part
        /\ letter.kind = "test" /\ letter.isLayout =>
               OptOutLink(letter.to) \notin TokensOf(part)

Resolved(letter) ==
    \A part \in Parts(letter) :
        /\ letter.kind # "preview" /\ letter.isLayout => SentinelsIn(part) = {}
        /\ letter.kind = "mailing" /\ ~letter.isLayout =>
               SentinelsIn(part) = SentinelsIn(letter.typed) \ {Sentinel("UNSUBSCRIBE_URL")}
        /\ letter.kind = "preview" => SentinelsIn(part) \subseteq {Sentinel("UNSUBSCRIBE_URL")}

Authored == {Typed[b] : b \in DOMAIN Typed}

LettersInv ==
    /\ deployment \in [Pods -> Deployments]
    /\ draft.layout = NoLayout => draft.body \in Authored \cup {{}}
    /\ BodyFollowsLayout
    /\ \A letter \in outbox : OptsOut(letter) /\ Resolved(letter)

USE DEF Row, Text, Link, Sentinel, OptOutLink, Nothing

----------------------------------------------------------------------------
(* Binding.                                                                *)

Solid(bound) == \A name \in DOMAIN bound : bound[name].is # "sentinel"

Bind(token, bound) ==
    IF token.is = "sentinel" /\ token.of \in DOMAIN bound THEN bound[token.of] ELSE token

LEMMA Replaced ==
    ASSUME NEW doc, NEW bound
    PROVE  Replace(doc, bound) = {Row(row.place, Bind(row.token, bound)) : row \in doc}
  BY DEF Replace, Bind

LEMMA ReplacedTokens ==
    ASSUME NEW doc, NEW bound
    PROVE  TokensOf(Replace(doc, bound)) = {Bind(token, bound) : token \in TokensOf(doc)}
  <1>1. \A row \in doc : Row(row.place, Bind(row.token, bound)).token = Bind(row.token, bound)
    OBVIOUS
  <1>2. \A token \in TokensOf(Replace(doc, bound)) :
            \E old \in TokensOf(doc) : token = Bind(old, bound)
    BY <1>1, Replaced DEF TokensOf
  <1>3. \A old \in TokensOf(doc) : Bind(old, bound) \in TokensOf(Replace(doc, bound))
    <2> SUFFICES ASSUME NEW row \in doc
                 PROVE  Bind(row.token, bound) \in TokensOf(Replace(doc, bound))
      BY DEF TokensOf
    <2>1. Row(row.place, Bind(row.token, bound)) \in Replace(doc, bound)
      BY Replaced
    <2> QED
      BY <1>1, <2>1 DEF TokensOf
  <1> QED
    BY <1>2, <1>3

(* What is bound is gone, what is not stays.                               *)
LEMMA ReplacedSentinels ==
    ASSUME NEW doc, NEW bound, Solid(bound)
    PROVE  SentinelsIn(Replace(doc, bound)) =
               {token \in SentinelsIn(doc) : token.of \notin DOMAIN bound}
  BY ReplacedTokens DEF SentinelsIn, Solid, Bind

LEMMA ReplacedRow ==
    ASSUME NEW doc, NEW bound, NEW place, NEW token, Row(place, token) \in doc
    PROVE  Row(place, Bind(token, bound)) \in Replace(doc, bound)
  BY Replaced

LEMMA TextRows ==
    ASSUME NEW html
    PROVE  /\ TokensOf(EmailText(html)) \subseteq TokensOf(html)
           /\ SentinelsIn(EmailText(html)) \subseteq SentinelsIn(html)
           /\ \A row \in html : row.place # "share" => row \in EmailText(html)
  BY DEF EmailText, TokensOf, SentinelsIn

----------------------------------------------------------------------------
(* Documents.                                                              *)

LEMMA LayoutTokens ==
    ASSUME NEW layout, NEW mode, NEW manage \in BOOLEAN, NEW date, NEW viewOnline
    PROVE  /\ \A row \in RenderLayout(layout, mode, manage, date, viewOnline) :
                  \/ row.token = date \/ row.token = viewOnline
                  \/ row.token.is = "text"
                  \/ row.place = "sender" /\ row.token = Sentinel("SENDER_NAME")
                  \/ row.place = "project" /\ row.token = Sentinel("PROJECT_NAME")
                  \/ row.token = Sentinel("UNSUBSCRIBE_URL")
                  \/ manage /\ row.token = Sentinel("MANAGE_SUBSCRIPTIONS_URL")
           /\ mode = "link" => Row("optout", Sentinel("UNSUBSCRIBE_URL"))
                                   \in RenderLayout(layout, mode, manage, date, viewOnline)
  <1> DEFINE doc == RenderLayout(layout, mode, manage, date, viewOnline)
  <1>1. ASSUME NEW row \in doc
        PROVE  \/ row \in {Row("block", Text(b)) : b \in layout.blocks}
               \/ row = Row("date", date) \/ row = Row("sender", Sentinel("SENDER_NAME"))
               \/ row = Row("project", Sentinel("PROJECT_NAME"))
               \/ row = Row("view online", viewOnline)
               \/ row = Row("optout", Sentinel("UNSUBSCRIBE_URL"))
               \/ row = Row("archive", IF manage THEN Sentinel("MANAGE_SUBSCRIPTIONS_URL")
                                       ELSE Nothing)
    BY DEF RenderLayout, Wrapper
  <1>2. ASSUME NEW row \in doc
        PROVE  \/ row.token = date \/ row.token = viewOnline
               \/ row.token.is = "text"
               \/ row.place = "sender" /\ row.token = Sentinel("SENDER_NAME")
               \/ row.place = "project" /\ row.token = Sentinel("PROJECT_NAME")
               \/ row.token = Sentinel("UNSUBSCRIBE_URL")
               \/ manage /\ row.token = Sentinel("MANAGE_SUBSCRIPTIONS_URL")
    <2>1. CASE row \in {Row("block", Text(b)) : b \in layout.blocks}
      BY <2>1
    <2>2. CASE row = Row("archive", IF manage THEN Sentinel("MANAGE_SUBSCRIPTIONS_URL")
                                    ELSE Nothing)
      BY <2>2
    <2>3. CASE row = Row("date", date)
      BY <2>3
    <2>7. CASE row = Row("view online", viewOnline)
      BY <2>7
    <2>4. CASE row = Row("sender", Sentinel("SENDER_NAME"))
      BY <2>4
    <2>5. CASE row = Row("project", Sentinel("PROJECT_NAME"))
      BY <2>5
    <2>6. CASE row = Row("optout", Sentinel("UNSUBSCRIBE_URL"))
      BY <2>6
    <2> QED
      BY <1>1, <2>1, <2>2, <2>3, <2>4, <2>5, <2>6, <2>7
  <1>3. mode = "link" => Row("optout", Sentinel("UNSUBSCRIBE_URL")) \in doc
    BY DEF RenderLayout, Wrapper
  <1> QED
    BY <1>2, <1>3

LEMMA ChromeRows ==
    ASSUME NEW body, NEW date, NEW reply, NEW readOnline, NEW unsubscribe, NEW archive,
           NEW row \in Chrome(body, date, reply, readOnline, unsubscribe, archive)
    PROVE  LET optout == IF unsubscribe = Nothing THEN Text("reply with UNSUBSCRIBE")
                         ELSE unsubscribe
           IN  \/ row \in body
               \/ row.token \in {date, Text("sender"), Text("project"), reply, optout,
                                 readOnline, archive}
  <1> DEFINE optout == IF unsubscribe = Nothing THEN Text("reply with UNSUBSCRIBE")
                       ELSE unsubscribe
  <1>1. \/ row \in body \/ row = Row("date", date) \/ row = Row("sender", Text("sender"))
        \/ row = Row("project", Text("project")) \/ row = Row("reply", reply)
        \/ row = Row("optout", optout) \/ row = Row("read online", readOnline)
        \/ row = Row("share", readOnline) \/ row = Row("archive", archive)
    BY DEF Chrome, Shown
  <1>2. /\ Row("date", date).token = date
        /\ Row("sender", Text("sender")).token = Text("sender")
        /\ Row("project", Text("project")).token = Text("project")
        /\ Row("reply", reply).token = reply /\ Row("optout", optout).token = optout
        /\ Row("read online", readOnline).token = readOnline
        /\ Row("share", readOnline).token = readOnline
        /\ Row("archive", archive).token = archive
    OBVIOUS
  <1>3. \/ row \in body
        \/ row.token \in {date, Text("sender"), Text("project"), reply, optout,
                          readOnline, archive}
    <2> HIDE DEF optout, Row, Text
    <2>1. \/ row \in body \/ row.token = date \/ row.token = Text("sender")
          \/ row.token = Text("project") \/ row.token = reply \/ row.token = optout
          \/ row.token = readOnline \/ row.token = archive
      BY <1>1, <1>2
    <2> QED
      BY <2>1
  <1> QED
    BY <1>3

LEMMA SendScopeBindings ==
    ASSUME NEW date, date.is # "sentinel"
    PROVE  LET bound == [SENDER_NAME |-> Text("sender"), PROJECT_NAME |-> Text("project"),
                         SEND_DATE |-> date]
           IN  Solid(bound) /\ DOMAIN bound = {"SENDER_NAME", "PROJECT_NAME", "SEND_DATE"}
  BY DEF Solid

LEMMA RecipientBindings ==
    ASSUME NEW d \in Deployments, NEW to
    PROVE  LET unsubscribe == IF d.unsub THEN OptOutLink(to) ELSE Nothing
               all == [UNSUBSCRIBE_URL |-> unsubscribe, MANAGE_SUBSCRIPTIONS_URL |-> Archive(d),
                       VIEW_ONLINE_URL |-> Nothing]
               one == [UNSUBSCRIBE_URL |-> unsubscribe]
           IN  /\ Solid(all)
               /\ DOMAIN all = {"UNSUBSCRIBE_URL", "MANAGE_SUBSCRIPTIONS_URL", "VIEW_ONLINE_URL"}
               /\ Solid(one) /\ DOMAIN one = {"UNSUBSCRIBE_URL"}
               /\ all["UNSUBSCRIBE_URL"] = unsubscribe /\ one["UNSUBSCRIBE_URL"] = unsubscribe
  <1> DEFINE unsubscribe == IF d.unsub THEN OptOutLink(to) ELSE Nothing
             archive == Archive(d)
  <1>1. unsubscribe.is # "sentinel" /\ archive.is # "sentinel"
    BY DEF Archive
  <1>2. Nothing.is # "sentinel"
    OBVIOUS
  <1> HIDE DEF unsubscribe, archive
  <1>3. Solid([UNSUBSCRIBE_URL |-> unsubscribe])
    BY <1>1 DEF Solid
  <1> DEFINE all == [UNSUBSCRIBE_URL |-> unsubscribe, MANAGE_SUBSCRIPTIONS_URL |-> archive,
                     VIEW_ONLINE_URL |-> Nothing]
  <1>4. Solid(all)
    <2>1. DOMAIN all = {"UNSUBSCRIBE_URL", "MANAGE_SUBSCRIPTIONS_URL", "VIEW_ONLINE_URL"}
      OBVIOUS
    <2>2. /\ all["UNSUBSCRIBE_URL"] = unsubscribe
          /\ all["MANAGE_SUBSCRIPTIONS_URL"] = archive
          /\ all["VIEW_ONLINE_URL"] = Nothing
      OBVIOUS
    <2> HIDE DEF all
    <2> QED
      BY <1>1, <1>2, <2>1, <2>2 DEF Solid
  <1> QED
    BY <1>3, <1>4 DEF unsubscribe, archive

LEMMA TypedSentinels ==
    ASSUME NEW body \in Authored \cup {{}}
    PROVE  /\ \A token \in SentinelsIn(body) : token = Sentinel(token.of)
           /\ \A row \in body : row.place = "body"
  <1>1. \/ body = {}
        \/ body = {Row("body", Text("words"))}
        \/ body = {Row("body", Sentinel("SENDER_NAME")),
                   Row("body", Sentinel("MANAGE_SUBSCRIPTIONS_URL"))}
        \/ body = {Row("body", Text("words")), Row("body", Sentinel("UNSUBSCRIBE_URL"))}
        \/ body = {Row("body", Text("too much"))}
    <2>1. DOMAIN Typed = {"blank", "words", "literals", "optout", "oversized"}
      BY DEF Typed
    <2>2. /\ Typed["blank"] = {} /\ Typed["words"] = {Row("body", Text("words"))}
          /\ Typed["literals"] = {Row("body", Sentinel("SENDER_NAME")),
                                  Row("body", Sentinel("MANAGE_SUBSCRIPTIONS_URL"))}
          /\ Typed["optout"] = {Row("body", Text("words")),
                                Row("body", Sentinel("UNSUBSCRIBE_URL"))}
          /\ Typed["oversized"] = {Row("body", Text("too much"))}
      BY DEF Typed
    <2> QED
      BY <2>1, <2>2 DEF Authored
  <1>2. \A row \in body : /\ row.place = "body"
                          /\ row.token.is = "sentinel" => row.token = Sentinel(row.token.of)
    <2> SUFFICES ASSUME NEW row \in body
                 PROVE  /\ row.place = "body"
                        /\ row.token.is = "sentinel" => row.token = Sentinel(row.token.of)
      OBVIOUS
    <2>1. \/ row = Row("body", Text("words")) \/ row = Row("body", Text("too much"))
          \/ row = Row("body", Sentinel("SENDER_NAME"))
          \/ row = Row("body", Sentinel("MANAGE_SUBSCRIPTIONS_URL"))
          \/ row = Row("body", Sentinel("UNSUBSCRIBE_URL"))
      BY <1>1
    <2>2. CASE row = Row("body", Text("words"))
      BY <2>2
    <2>6. CASE row = Row("body", Text("too much"))
      BY <2>6
    <2>3. CASE row = Row("body", Sentinel("SENDER_NAME"))
      BY <2>3
    <2>4. CASE row = Row("body", Sentinel("MANAGE_SUBSCRIPTIONS_URL"))
      BY <2>4
    <2>5. CASE row = Row("body", Sentinel("UNSUBSCRIBE_URL"))
      BY <2>5
    <2> QED
      BY <2>1, <2>2, <2>3, <2>4, <2>5, <2>6
  <1> QED
    BY <1>2 DEF SentinelsIn, TokensOf

----------------------------------------------------------------------------
(* Letters.                                                                *)

LEMMA LayoutSentinels ==
    ASSUME NEW layout, NEW mode, NEW manage \in BOOLEAN, NEW date, NEW viewOnline,
           date = Sentinel("SEND_DATE") \/ date.is # "sentinel", viewOnline.is # "sentinel"
    PROVE  SentinelsIn(RenderLayout(layout, mode, manage, date, viewOnline)) \subseteq
               {Sentinel(name) : name \in {"SENDER_NAME", "PROJECT_NAME", "UNSUBSCRIBE_URL",
                                           "MANAGE_SUBSCRIPTIONS_URL", "SEND_DATE"}}
  <1> DEFINE doc == RenderLayout(layout, mode, manage, date, viewOnline)
  <1> SUFFICES ASSUME NEW row \in doc, row.token.is = "sentinel"
               PROVE  row.token \in {Sentinel(name) : name \in
                          {"SENDER_NAME", "PROJECT_NAME", "UNSUBSCRIBE_URL",
                           "MANAGE_SUBSCRIPTIONS_URL", "SEND_DATE"}}
    BY DEF SentinelsIn, TokensOf
  <1>1. \/ row.token = date \/ row.token = viewOnline \/ row.token.is = "text"
        \/ row.token = Sentinel("SENDER_NAME") \/ row.token = Sentinel("PROJECT_NAME")
        \/ row.token = Sentinel("UNSUBSCRIBE_URL")
        \/ row.token = Sentinel("MANAGE_SUBSCRIPTIONS_URL")
    BY LayoutTokens
  <1>2. row.token # viewOnline /\ row.token.is # "text"
    OBVIOUS
  <1>3. row.token = date => row.token = Sentinel("SEND_DATE")
    OBVIOUS
  <1> QED
    BY <1>1, <1>2, <1>3, Zenon

(* A letter of a layout: the wrapper's opt-out row, and no sentinel left.  *)
LEMMA LayoutLetter ==
    ASSUME NEW d \in Deployments, d.unsub, NEW layout, NEW to, NEW date, NEW viewOnline,
           date.is # "sentinel", viewOnline.is # "sentinel"
    PROVE  LET doc  == SubstituteSendScope(
                           RenderLayout(layout, SendUnsubFooterMode(d), d.archive,
                                        date, viewOnline), date)
               html == SubstitutePlaceholders(d, doc, to, TRUE)
               text == SubstitutePlaceholders(d, EmailText(doc), to, TRUE)
           IN  /\ Row("optout", OptOutLink(to)) \in html \cap text
               /\ SentinelsIn(html) = {} /\ SentinelsIn(text) = {}
  <1> DEFINE layoutDoc == RenderLayout(layout, SendUnsubFooterMode(d), d.archive,
                                       date, viewOnline)
             scope == [SENDER_NAME |-> Text("sender"), PROJECT_NAME |-> Text("project"),
                       SEND_DATE |-> date]
             doc == Replace(layoutDoc, scope)
             unsubscribe == IF d.unsub THEN OptOutLink(to) ELSE Nothing
             all == [UNSUBSCRIBE_URL |-> unsubscribe,
                     MANAGE_SUBSCRIPTIONS_URL |-> Archive(d), VIEW_ONLINE_URL |-> Nothing]
  <1>1. /\ Solid(scope) /\ DOMAIN scope = {"SENDER_NAME", "PROJECT_NAME", "SEND_DATE"}
    BY SendScopeBindings
  <1>2. /\ Solid(all)
        /\ DOMAIN all = {"UNSUBSCRIBE_URL", "MANAGE_SUBSCRIPTIONS_URL", "VIEW_ONLINE_URL"}
        /\ all["UNSUBSCRIBE_URL"] = OptOutLink(to)
    BY RecipientBindings
  <1>3. /\ Row("optout", Sentinel("UNSUBSCRIBE_URL")) \in layoutDoc
        /\ SentinelsIn(layoutDoc) \subseteq
               {Sentinel(name) : name \in {"SENDER_NAME", "PROJECT_NAME", "UNSUBSCRIBE_URL",
                                           "MANAGE_SUBSCRIPTIONS_URL", "SEND_DATE"}}
    BY LettersAssumption, LayoutTokens, LayoutSentinels DEF SendUnsubFooterMode
  <1> HIDE DEF scope, all, layoutDoc
  <1>4. Row("optout", Sentinel("UNSUBSCRIBE_URL")) \in doc
    <2>1. Bind(Sentinel("UNSUBSCRIBE_URL"), scope) = Sentinel("UNSUBSCRIBE_URL")
      BY <1>1 DEF Bind
    <2> QED
      BY <1>3, <2>1, ReplacedRow
  <1>5. SentinelsIn(doc) \subseteq
            {Sentinel(name) : name \in {"UNSUBSCRIBE_URL", "MANAGE_SUBSCRIPTIONS_URL"}}
    BY <1>1, <1>3, ReplacedSentinels
  <1> HIDE DEF doc
  <1>6. ASSUME NEW part, Row("optout", Sentinel("UNSUBSCRIBE_URL")) \in part,
               SentinelsIn(part) \subseteq SentinelsIn(doc)
        PROVE  /\ Row("optout", OptOutLink(to)) \in Replace(part, all)
               /\ SentinelsIn(Replace(part, all)) = {}
    <2>1. Bind(Sentinel("UNSUBSCRIBE_URL"), all) = OptOutLink(to)
      BY <1>2 DEF Bind
    <2>2. Row("optout", OptOutLink(to)) \in Replace(part, all)
      BY <1>6, <2>1, ReplacedRow
    <2>3. SentinelsIn(Replace(part, all)) = {}
      BY <1>2, <1>5, <1>6, ReplacedSentinels
    <2> QED
      BY <2>2, <2>3
  <1>7. /\ Row("optout", Sentinel("UNSUBSCRIBE_URL")) \in EmailText(doc)
        /\ SentinelsIn(EmailText(doc)) \subseteq SentinelsIn(doc)
    BY <1>4, TextRows
  <1>8. /\ Row("optout", OptOutLink(to)) \in Replace(doc, all)
        /\ SentinelsIn(Replace(doc, all)) = {}
        /\ Row("optout", OptOutLink(to)) \in Replace(EmailText(doc), all)
        /\ SentinelsIn(Replace(EmailText(doc), all)) = {}
    BY <1>4, <1>6, <1>7
  <1> QED
    BY <1>8 DEF SubstituteSendScope, SubstitutePlaceholders, scope, all, layoutDoc, doc

(* The chrome around an authored body adds one sentinel, which is bound.   *)
LEMMA AuthoredLetter ==
    ASSUME NEW d \in Deployments, NEW known \in Lookups, NEW to,
           draft.body \in Authored \cup {{}}
    PROVE  LET doc  == Legacy(d, known)
               html == SubstitutePlaceholders(d, doc, to, FALSE)
               text == SubstitutePlaceholders(d, EmailText(doc), to, FALSE)
               optout == IF d.unsub THEN OptOutLink(to) ELSE Text("reply with UNSUBSCRIBE")
               kept == SentinelsIn(draft.body) \ {Sentinel("UNSUBSCRIBE_URL")}
           IN  /\ Row("optout", optout) \in html \cap text
               /\ SentinelsIn(html) = kept /\ SentinelsIn(text) = kept
  <1> DEFINE doc == Legacy(d, known)
             unsubscribe == IF d.unsub THEN OptOutLink(to) ELSE Nothing
             optout == IF d.unsub THEN OptOutLink(to) ELSE Text("reply with UNSUBSCRIBE")
             mark == IF d.unsub THEN Sentinel("UNSUBSCRIBE_URL")
                     ELSE Text("reply with UNSUBSCRIBE")
             one == [UNSUBSCRIBE_URL |-> unsubscribe]
             kept == SentinelsIn(draft.body) \ {Sentinel("UNSUBSCRIBE_URL")}
  <1>1. /\ Solid(one) /\ DOMAIN one = {"UNSUBSCRIBE_URL"}
        /\ one["UNSUBSCRIBE_URL"] = unsubscribe
    BY RecipientBindings
  <1>2. /\ Row("optout", mark) \in doc /\ draft.body \subseteq doc
        /\ \A row \in doc : \/ row \in draft.body \/ row.token.is # "sentinel"
                            \/ row.token = Sentinel("UNSUBSCRIBE_URL")
    <2>1. LET u == IF d.unsub THEN Sentinel("UNSUBSCRIBE_URL") ELSE Nothing
          IN  mark = IF u = Nothing THEN Text("reply with UNSUBSCRIBE") ELSE u
      OBVIOUS
    <2>2. ReadOnlineURL(d, known).is # "sentinel" /\ Archive(d).is # "sentinel"
          /\ ReplyTo(known).is # "sentinel" /\ mark \in {Sentinel("UNSUBSCRIBE_URL"),
                                                        Text("reply with UNSUBSCRIBE")}
      BY DEF ReadOnlineURL, Archive, ReplyTo
    <2>3. ASSUME NEW row \in doc
          PROVE  \/ row \in draft.body
                 \/ row.token \in {Text("send date"), Text("sender"), Text("project"),
                                   ReplyTo(known), mark, ReadOnlineURL(d, known), Archive(d)}
      <3> DEFINE u == IF d.unsub THEN Sentinel("UNSUBSCRIBE_URL") ELSE Nothing
      <3>1. row \in Chrome(draft.body, Text("send date"), ReplyTo(known),
                           ReadOnlineURL(d, known), u, Archive(d))
        BY DEF Legacy
      <3>2. mark = IF u = Nothing THEN Text("reply with UNSUBSCRIBE") ELSE u
        BY <2>1
      <3> HIDE DEF mark, u, doc
      <3> QED
        BY <3>1, <3>2, ChromeRows
    <2>4. Row("optout", mark) \in doc /\ draft.body \subseteq doc
      BY <2>1 DEF Legacy, Chrome
    <2>5. /\ Text("send date").is # "sentinel" /\ Text("sender").is # "sentinel"
          /\ Text("project").is # "sentinel"
          /\ Text("reply with UNSUBSCRIBE").is # "sentinel"
      OBVIOUS
    <2> HIDE DEF doc, mark, Row, Text, Sentinel
    <2> QED
      BY <2>2, <2>3, <2>4, <2>5
  <1>3. Bind(mark, one) = optout
    BY <1>1 DEF Bind
  <1> HIDE DEF doc, one
  <1>4. ASSUME NEW part \in {doc, EmailText(doc)}
        PROVE  /\ Row("optout", optout) \in Replace(part, one)
               /\ SentinelsIn(Replace(part, one)) = kept
    <2>1. /\ Row("optout", mark) \in part /\ draft.body \subseteq part /\ part \subseteq doc
      BY <1>2, <1>4, TypedSentinels DEF EmailText
    <2>2. Row("optout", optout) \in Replace(part, one)
      <3> HIDE DEF mark, optout
      <3> QED
        BY <1>3, <2>1, ReplacedRow
    <2>3. /\ SentinelsIn(part) \subseteq SentinelsIn(draft.body) \cup {Sentinel("UNSUBSCRIBE_URL")}
          /\ SentinelsIn(draft.body) \subseteq SentinelsIn(part)
      BY <1>2, <2>1 DEF SentinelsIn, TokensOf
    <2>4. SentinelsIn(Replace(part, one)) =
              {token \in SentinelsIn(part) : token.of # "UNSUBSCRIBE_URL"}
      <3>1. SentinelsIn(Replace(part, one)) =
                {token \in SentinelsIn(part) : token.of \notin DOMAIN one}
        BY <1>1, ReplacedSentinels
      <3> QED
        BY <1>1, <3>1
    <2>5. \A token \in SentinelsIn(part) :
              token.of # "UNSUBSCRIBE_URL" <=> token # Sentinel("UNSUBSCRIBE_URL")
      BY <2>3, TypedSentinels
    <2> QED
      BY <2>2, <2>3, <2>4, <2>5
  <1> QED
    BY <1>4 DEF SubstitutePlaceholders, doc, one

LEMMA ReplacedPlain ==
    ASSUME NEW doc, NEW bound, \A token \in TokensOf(doc) : token.is # "unsubscribe",
           \A name \in DOMAIN bound : bound[name].is # "unsubscribe"
    PROVE  \A token \in TokensOf(Replace(doc, bound)) : token.is # "unsubscribe"
  BY ReplacedTokens DEF Bind

(* A test of a layout has neither a link nor a sentinel.                   *)
LEMMA TestLetter ==
    ASSUME NEW d, NEW r, r.sets = "layout", NEW known, NEW to
    PROVE  LET doc == TestDoc(d, r, known, to)
           IN  /\ SentinelsIn(doc) = {} /\ SentinelsIn(EmailText(doc)) = {}
               /\ OptOutLink(to) \notin TokensOf(doc) \cup TokensOf(EmailText(doc))
  <1> DEFINE layoutDoc == RenderLayout(r.layout, "suppressed", FALSE, Text("today"), Nothing)
             scope == [SENDER_NAME |-> Text("sender"), PROJECT_NAME |-> Text("project"),
                       SEND_DATE |-> Text("today")]
             blank == [UNSUBSCRIBE_URL |-> Nothing, VIEW_ONLINE_URL |-> Nothing,
                       MANAGE_SUBSCRIPTIONS_URL |-> Nothing]
             doc == Replace(Replace(layoutDoc, scope), blank)
  <1>1. /\ Solid(scope) /\ DOMAIN scope = {"SENDER_NAME", "PROJECT_NAME", "SEND_DATE"}
    BY SendScopeBindings
  <1>2. \A name \in DOMAIN scope : scope[name].is # "unsubscribe"
    <2>1. /\ scope["SENDER_NAME"] = Text("sender") /\ scope["PROJECT_NAME"] = Text("project")
          /\ scope["SEND_DATE"] = Text("today")
      OBVIOUS
    <2>2. /\ Text("sender").is # "unsubscribe" /\ Text("project").is # "unsubscribe"
          /\ Text("today").is # "unsubscribe"
      OBVIOUS
    <2> HIDE DEF scope
    <2> QED
      BY <1>1, <2>1, <2>2
  <1>3. /\ DOMAIN blank = {"UNSUBSCRIBE_URL", "VIEW_ONLINE_URL", "MANAGE_SUBSCRIPTIONS_URL"}
        /\ \A name \in DOMAIN blank : blank[name] = Nothing
    <2>1. DOMAIN blank = {"UNSUBSCRIBE_URL", "VIEW_ONLINE_URL", "MANAGE_SUBSCRIPTIONS_URL"}
      OBVIOUS
    <2>2. /\ blank["UNSUBSCRIBE_URL"] = Nothing /\ blank["VIEW_ONLINE_URL"] = Nothing
          /\ blank["MANAGE_SUBSCRIPTIONS_URL"] = Nothing
      OBVIOUS
    <2> HIDE DEF blank, Nothing
    <2> QED
      BY <2>1, <2>2
  <1>4. Nothing.is # "sentinel" /\ Nothing.is # "unsubscribe"
    OBVIOUS
  <1>5. \A token \in TokensOf(layoutDoc) : token.is # "unsubscribe"
    <2> SUFFICES ASSUME NEW row \in layoutDoc PROVE row.token.is # "unsubscribe"
      BY DEF TokensOf
    <2>1. \/ row.token = Text("today") \/ row.token = Nothing \/ row.token.is = "text"
          \/ row.token = Sentinel("SENDER_NAME") \/ row.token = Sentinel("PROJECT_NAME")
          \/ row.token = Sentinel("UNSUBSCRIBE_URL")
      BY LayoutTokens
    <2>2. /\ Text("today").is # "unsubscribe" /\ Nothing.is # "unsubscribe"
          /\ Sentinel("SENDER_NAME").is # "unsubscribe"
          /\ Sentinel("PROJECT_NAME").is # "unsubscribe"
          /\ Sentinel("UNSUBSCRIBE_URL").is # "unsubscribe"
      OBVIOUS
    <2> HIDE DEF Text, Nothing, Sentinel
    <2> QED
      BY <2>1, <2>2
  <1>6. SentinelsIn(layoutDoc) \subseteq
               {Sentinel(name) : name \in {"SENDER_NAME", "PROJECT_NAME", "UNSUBSCRIBE_URL",
                                           "MANAGE_SUBSCRIPTIONS_URL", "SEND_DATE"}}
    BY LayoutSentinels
  <1> HIDE DEF scope, blank, layoutDoc
  <1>7. Solid(blank)
    BY <1>3, <1>4 DEF Solid
  <1>8. SentinelsIn(Replace(layoutDoc, scope)) \subseteq
            {Sentinel(name) : name \in {"UNSUBSCRIBE_URL", "MANAGE_SUBSCRIPTIONS_URL"}}
    BY <1>1, <1>6, ReplacedSentinels
  <1>9. SentinelsIn(doc) = {}
    <2>1. SentinelsIn(doc) = {token \in SentinelsIn(Replace(layoutDoc, scope)) :
                                 token.of \notin DOMAIN blank}
      BY <1>7, ReplacedSentinels
    <2>2. /\ Sentinel("UNSUBSCRIBE_URL").of = "UNSUBSCRIBE_URL"
          /\ Sentinel("MANAGE_SUBSCRIPTIONS_URL").of = "MANAGE_SUBSCRIPTIONS_URL"
      OBVIOUS
    <2> HIDE DEF Sentinel, doc
    <2> QED
      BY <1>3, <1>8, <2>1, <2>2
  <1>10. \A token \in TokensOf(Replace(layoutDoc, scope)) : token.is # "unsubscribe"
    BY <1>2, <1>5, ReplacedPlain
  <1>11. \A name \in DOMAIN blank : blank[name].is # "unsubscribe"
    BY <1>3, <1>4
  <1>12. \A token \in TokensOf(doc) : token.is # "unsubscribe"
    BY <1>10, <1>11, ReplacedPlain
  <1>13. doc = TestDoc(d, r, known, to)
    BY DEF TestDoc, SubstituteSendScope, scope, blank, layoutDoc
  <1> HIDE DEF doc
  <1>14. OptOutLink(to).is = "unsubscribe"
    OBVIOUS
  <1>15. TokensOf(EmailText(doc)) \subseteq TokensOf(doc) /\ SentinelsIn(EmailText(doc)) = {}
    BY <1>9, TextRows
  <1> HIDE DEF OptOutLink
  <1> QED
    BY <1>9, <1>12, <1>13, <1>14, <1>15

(* A preview shows no sentinel but the one of the opt-out link.            *)
LEMMA PreviewLetter ==
    ASSUME NEW d, NEW layout, NEW client
    PROVE  SentinelsIn(PreviewDoc(d, layout, client)) \subseteq {Sentinel("UNSUBSCRIBE_URL")}
  <1> DEFINE date == Text(IF "date" \in client THEN "client" ELSE "today")
             view == IF "view online" \in client THEN Text("client") ELSE Nothing
             whole == RenderLayout(layout, SendUnsubFooterMode(d), FALSE, date, view)
             names == [SENDER_NAME |-> Text("client"), PROJECT_NAME |-> Text("client")]
  <1>1. date.is # "sentinel" /\ view.is # "sentinel"
    OBVIOUS
  <1> HIDE DEF date, view
  <1>2. \A row \in whole : row.token.is = "sentinel" =>
            \/ row.place = "sender" /\ row.token = Sentinel("SENDER_NAME")
            \/ row.place = "project" /\ row.token = Sentinel("PROJECT_NAME")
            \/ row.token = Sentinel("UNSUBSCRIBE_URL")
    <2> SUFFICES ASSUME NEW row \in whole, row.token.is = "sentinel"
                 PROVE  \/ row.place = "sender" /\ row.token = Sentinel("SENDER_NAME")
                        \/ row.place = "project" /\ row.token = Sentinel("PROJECT_NAME")
                        \/ row.token = Sentinel("UNSUBSCRIBE_URL")
      OBVIOUS
    <2>1. row.token # date /\ row.token # view /\ row.token.is # "text"
      BY <1>1
    <2> QED
      BY <2>1, LayoutTokens
  <1>3. /\ Solid(names) /\ DOMAIN names = {"SENDER_NAME", "PROJECT_NAME"}
    <2>1. names["SENDER_NAME"] = Text("client") /\ names["PROJECT_NAME"] = Text("client")
      OBVIOUS
    <2>2. Text("client").is # "sentinel"
      OBVIOUS
    <2>3. DOMAIN names = {"SENDER_NAME", "PROJECT_NAME"}
      OBVIOUS
    <2> HIDE DEF names
    <2> QED
      BY <2>1, <2>2, <2>3 DEF Solid
  <1> HIDE DEF whole, names
  <1>4. SentinelsIn(Replace(whole, names)) \subseteq {Sentinel("UNSUBSCRIBE_URL")}
    <2>1. SentinelsIn(whole) \subseteq {Sentinel("SENDER_NAME"), Sentinel("PROJECT_NAME"),
                                        Sentinel("UNSUBSCRIBE_URL")}
      BY <1>2 DEF SentinelsIn, TokensOf
    <2>2. Sentinel("SENDER_NAME").of = "SENDER_NAME" /\ Sentinel("PROJECT_NAME").of = "PROJECT_NAME"
      OBVIOUS
    <2> HIDE DEF Sentinel
    <2> QED
      BY <1>3, <2>1, <2>2, ReplacedSentinels
  <1>5. SentinelsIn({row \in whole : row.place \notin {"sender", "project"}})
            \subseteq {Sentinel("UNSUBSCRIBE_URL")}
    BY <1>2 DEF SentinelsIn, TokensOf
  <1>6. PreviewDoc(d, layout, client) =
            IF "names" \in client THEN Replace(whole, names)
            ELSE {row \in whole : row.place \notin {"sender", "project"}}
    BY DEF PreviewDoc, whole, names, date, view
  <1> QED
    BY <1>4, <1>5, <1>6

----------------------------------------------------------------------------
(* The invariant of the letters.                                           *)

LEMMA LettersInit == LEInit => LettersInv
  BY DEF LEInit, LettersInv, NoDraft, BodyFollowsLayout

(* Whatever is saved is typed, or derived from the layout saved with it.   *)
LEMMA SaveKeeps ==
    ASSUME LettersInv, NEW pod \in Pods, NEW layout, NEW body, Save(pod, layout, body),
           layout = NoLayout => body \in Authored,
           layout # NoLayout => body = Derived(deployment[pod], layout)
    PROVE  LettersInv'
  <1>1. /\ draft'.layout = layout /\ draft'.body = body
        /\ savedBy' = deployment[pod] /\ UNCHANGED <<deployment, outbox>>
    BY DEF Save
  <1>2. BodyFollowsLayout'
    BY <1>1 DEF BodyFollowsLayout, Derived
  <1> QED
    BY <1>1, <1>2 DEF LettersInv, OptsOut, Resolved

LEMMA RefuseKeeps ==
    ASSUME LettersInv, NEW code, Refuse(code)
    PROVE  LettersInv'
  BY DEF Refuse, LettersInv, BodyFollowsLayout, OptsOut, Resolved

LEMMA SaveDerivedKeeps ==
    ASSUME LettersInv, NEW pod \in Pods, NEW layout, layout # NoLayout, SaveDerived(pod, layout)
    PROVE  LettersInv'
  BY SaveKeeps, RefuseKeeps DEF SaveDerived

LEMMA RequestShapes ==
    ASSUME NEW r \in Requests
    PROVE  /\ r.sets = "layout" => r.layout # NoLayout
           /\ r.sets # "layout" => r.body \in DOMAIN Typed
  BY LettersAssumption DEF Requests, Layouts, NoLayout

LEMMA DraftStep ==
    ASSUME LettersInv, NEW pod \in Pods, NEW r \in Requests,
           CreateDraft(pod, r) \/ UpdateDraft(pod, r)
    PROVE  LettersInv'
  <1>1. CASE r.sets = "layout" /\ SaveDerived(pod, r.layout)
    BY <1>1, RequestShapes, SaveDerivedKeeps
  <1>2. CASE KeepLayout(pod, r)
    BY <1>2, SaveDerivedKeeps DEF KeepLayout
  <1>3. CASE \E code : Refuse(code)
    BY <1>3, RefuseKeeps
  <1>4. CASE r.sets # "layout" /\ Save(pod, NoLayout, Typed[r.body])
    <2>1. Typed[r.body] \in Authored
      BY <1>4, RequestShapes DEF Authored
    <2> QED
      BY <1>4, <2>1, SaveKeeps
  <1> QED
    BY <1>1, <1>2, <1>3, <1>4 DEF CreateDraft, UpdateDraft, SetLayout, ClearLayout, SetBody

(* New letters, one or one for each recipient; the draft stays.            *)
LEMMA OutboxKeeps ==
    ASSUME LettersInv, UNCHANGED <<deployment, draft, savedBy>>,
           \A letter \in outbox' : OptsOut(letter) /\ Resolved(letter)
    PROVE  LettersInv'
  BY DEF LettersInv, BodyFollowsLayout, OptsOut, Resolved

LEMMA SendStep ==
    ASSUME LettersInv, NEW pod \in Pods, NEW known \in Lookups, SendNewsletter(pod, known)
    PROVE  LettersInv'
  <1> DEFINE d == deployment[pod]
  <1>1. CASE SendCode(d, known) \notin {200, 202}
    BY <1>1, RefuseKeeps DEF SendNewsletter
  <1>2. CASE SendCode(d, known) \in {200, 202}
    <2>1. d \in Deployments
      BY DEF LettersInv
    <2>2. /\ outbox' = {Letter(d, Template(d, known), to) : to \in Recipients}
          /\ UNCHANGED <<deployment, draft, savedBy>>
      BY <1>2 DEF SendNewsletter
    <2>3. ASSUME NEW to \in Recipients
          PROVE  /\ OptsOut(Letter(d, Template(d, known), to))
                 /\ Resolved(Letter(d, Template(d, known), to))
      <3> DEFINE letter == Letter(d, Template(d, known), to)
      <3>1. ASSUME draft.layout # NoLayout PROVE OptsOut(letter) /\ Resolved(letter)
        <4>1. d.unsub
          BY <1>2, <3>1 DEF SendCode
        <4>2. Text("send date").is # "sentinel" /\ ReadOnlineURL(d, known).is # "sentinel"
          BY DEF ReadOnlineURL
        <4>3. /\ Row("optout", OptOutLink(to)) \in letter.html \cap letter.text
              /\ SentinelsIn(letter.html) = {} /\ SentinelsIn(letter.text) = {}
          BY <2>1, <3>1, <4>1, <4>2, LayoutLetter DEF Letter, Template
        <4>4. /\ letter.kind = "mailing" /\ letter.isLayout /\ letter.to = to /\ letter.by = d
          BY <3>1 DEF Letter
        <4> HIDE DEF letter, d
        <4> QED
          BY <4>1, <4>3, <4>4 DEF OptsOut, Resolved, Parts
      <3>2. ASSUME draft.layout = NoLayout PROVE OptsOut(letter) /\ Resolved(letter)
        <4>1. draft.body \in Authored \cup {{}}
          BY <3>2 DEF LettersInv
        <4> DEFINE optout == IF d.unsub THEN OptOutLink(to) ELSE Text("reply with UNSUBSCRIBE")
                   kept == SentinelsIn(draft.body) \ {Sentinel("UNSUBSCRIBE_URL")}
        <4>2. /\ Row("optout", optout) \in letter.html \cap letter.text
              /\ SentinelsIn(letter.html) = kept /\ SentinelsIn(letter.text) = kept
          BY <2>1, <3>2, <4>1, AuthoredLetter DEF Letter, Template
        <4>3. /\ letter.kind = "mailing" /\ ~letter.isLayout /\ letter.to = to
              /\ letter.by = d /\ letter.typed = draft.body
          BY <3>2 DEF Letter
        <4> HIDE DEF letter, d
        <4> QED
          BY <4>2, <4>3 DEF OptsOut, Resolved, Parts
      <3> QED
        BY <3>1, <3>2
    <2> QED
      BY <2>2, <2>3, OutboxKeeps
  <1> QED
    BY <1>1, <1>2

LEMMA TestStep ==
    ASSUME LettersInv, NEW pod \in Pods, NEW r \in Requests, NEW known \in Lookups,
           NEW to \in Recipients, TestSend(pod, r, known, to)
    PROVE  LettersInv'
  <1> DEFINE d == deployment[pod]
             doc == TestDoc(d, r, known, to)
             letter == [kind |-> "test", isLayout |-> r.sets = "layout", to |-> to, by |-> d,
                        typed |-> Typed[r.body], html |-> doc, text |-> EmailText(doc)]
  <1>1. CASE Refuse(TestCode(d, r, known))
    BY <1>1, RefuseKeeps
  <1>2. CASE outbox' = {letter} /\ UNCHANGED <<deployment, draft, savedBy>>
    <2>1. r.sets = "layout" =>
              /\ SentinelsIn(doc) = {} /\ SentinelsIn(EmailText(doc)) = {}
              /\ OptOutLink(to) \notin TokensOf(doc) \cup TokensOf(EmailText(doc))
      BY TestLetter
    <2>2. /\ letter.kind = "test" /\ letter.isLayout = (r.sets = "layout")
          /\ letter.to = to /\ letter.html = doc /\ letter.text = EmailText(doc)
      OBVIOUS
    <2> HIDE DEF letter, doc
    <2>3. OptsOut(letter) /\ Resolved(letter)
      BY <2>1, <2>2 DEF OptsOut, Resolved, Parts
    <2> QED
      BY <1>2, <2>3, OutboxKeeps
  <1> QED
    BY <1>1, <1>2 DEF TestSend

LEMMA PreviewStep ==
    ASSUME LettersInv, NEW pod \in Pods, NEW layout \in Layouts, NEW client \in Clients,
           RenderPreview(pod, layout, client)
    PROVE  LettersInv'
  <1> DEFINE d == deployment[pod]
             html == PreviewDoc(d, layout, client)
             letter == [kind |-> "preview", isLayout |-> TRUE, to |-> "nobody",
                        by |-> d, typed |-> {}, html |-> html, text |-> html]
  <1>1. CASE Refuse(RenderCode(d, layout))
    BY <1>1, RefuseKeeps
  <1>2. CASE outbox' = {letter} /\ UNCHANGED <<deployment, draft, savedBy>>
    <2>1. SentinelsIn(html) \subseteq {Sentinel("UNSUBSCRIBE_URL")}
      BY PreviewLetter
    <2>2. letter.kind = "preview" /\ letter.html = html /\ letter.text = html
      OBVIOUS
    <2> HIDE DEF letter, html
    <2>3. OptsOut(letter) /\ Resolved(letter)
      BY <2>1, <2>2 DEF OptsOut, Resolved, Parts
    <2> QED
      BY <1>2, <2>3, OutboxKeeps
  <1> QED
    BY <1>1, <1>2 DEF RenderPreview

LEMMA LettersStep == LettersInv /\ [LENext]_lettersVars => LettersInv'
  <1> SUFFICES ASSUME LettersInv, [LENext]_lettersVars PROVE LettersInv'
    OBVIOUS
  <1>1. ASSUME NEW pod \in Pods, Request(pod) PROVE LettersInv'
    BY <1>1, DraftStep, SendStep, TestStep, PreviewStep DEF Request
  <1>2. ASSUME NEW pod \in Pods, NEW d \in Deployments, Roll(pod, d) PROVE LettersInv'
    <2>1. deployment' \in [Pods -> Deployments] /\ UNCHANGED <<draft, savedBy, outbox>>
      BY <1>2 DEF Roll, LettersInv
    <2> QED
      BY <2>1 DEF LettersInv, BodyFollowsLayout, OptsOut, Resolved
  <1>3. CASE TakeAnswer
    <2>1. outbox' = {} /\ UNCHANGED <<deployment, draft, savedBy>>
      BY <1>3 DEF TakeAnswer
    <2> QED
      BY <2>1, OutboxKeeps
  <1>4. CASE UNCHANGED lettersVars
    BY <1>4 DEF lettersVars, LettersInv, BodyFollowsLayout, OptsOut, Resolved
  <1> QED
    BY <1>1, <1>2, <1>3, <1>4 DEF LENext

LEMMA LettersInvHolds == LESpec => []LettersInv
  BY LettersInit, LettersStep, PTL DEF LESpec

----------------------------------------------------------------------------
(* The theorems of the letters.                                            *)

(* A draft's body is its layout's, as the pod that saved it last renders   *)
(* it, through every order of edits and deployments.                       *)
THEOREM BodyFollowsLayoutHolds == LESpec => []BodyFollowsLayout
  <1>1. LettersInv => BodyFollowsLayout
    BY DEF LettersInv
  <1> QED
    BY <1>1, LettersInvHolds, PTL

(* Every mailed letter lets its reader opt out, and no test hands out a    *)
(* link, whichever pods saved and sent it.                                 *)
THEOREM EveryLetterOptsOutHolds == LESpec => []EveryLetterOptsOut
  <1>1. LettersInv => EveryLetterOptsOut
    BY DEF LettersInv, EveryLetterOptsOut, OptsOut
  <1> QED
    BY <1>1, LettersInvHolds, PTL

(* No sentinel reaches a reader, and nothing an author typed is taken for  *)
(* one.                                                                    *)
THEOREM NothingUnresolvedHolds == LESpec => []NothingUnresolved
  <1>1. LettersInv => NothingUnresolved
    BY DEF LettersInv, NothingUnresolved, Resolved
  <1> QED
    BY <1>1, LettersInvHolds, PTL

----------------------------------------------------------------------------
(* What documents, drafts and letters are.                                 *)

TokenOK(token) ==
    \/ token.is \in {"text", "link"}
    \/ token.is = "sentinel" /\ token.of \in Sentinels
    \/ token.is = "unsubscribe" /\ token.of \in Recipients

RowOK(row) == DOMAIN row = {"place", "token"} /\ TokenOK(row.token)

LEMMA DocTypeIsRowOK ==
    ASSUME NEW doc
    PROVE  DocType(doc) <=> \A row \in doc : RowOK(row)
  BY DEF DocType, RowOK, TokenOK, TokensOf

LEMMA TokensAreOK ==
    /\ \A what : TokenOK(Text(what)) /\ TokenOK(Link(what))
    /\ \A name \in Sentinels : TokenOK(Sentinel(name))
    /\ \A to \in Recipients : TokenOK(OptOutLink(to))
  BY DEF TokenOK

LEMMA RowIsOK ==
    ASSUME NEW place, NEW token, TokenOK(token)
    PROVE  RowOK(Row(place, token))
  BY DEF RowOK

HIDE DEF Row, Text, Link, Sentinel, OptOutLink, Nothing

LEMMA JoinedDocs ==
    ASSUME NEW doc, NEW other, DocType(doc), DocType(other)
    PROVE  DocType(doc \cup other)
  BY DocTypeIsRowOK

LEMMA PartOfDoc ==
    ASSUME NEW doc, NEW part \in SUBSET doc, DocType(doc)
    PROVE  DocType(part)
  BY DocTypeIsRowOK

LEMMA TypedDocs == \A body \in DOMAIN Typed : DocType(Typed[body])
  <1>1. ASSUME NEW place PROVE
            /\ \A what : RowOK(Row(place, Text(what)))
            /\ \A name \in Sentinels : RowOK(Row(place, Sentinel(name)))
    BY TokensAreOK, RowIsOK
  <1>2. /\ DocType({})
        /\ DocType({Row("body", Text("words"))})
        /\ DocType({Row("body", Sentinel("SENDER_NAME")),
                    Row("body", Sentinel("MANAGE_SUBSCRIPTIONS_URL"))})
        /\ DocType({Row("body", Text("words")), Row("body", Sentinel("UNSUBSCRIBE_URL"))})
        /\ DocType({Row("body", Text("too much"))})
    BY <1>1, DocTypeIsRowOK DEF Sentinels
  <1>3. DOMAIN Typed = {"blank", "words", "literals", "optout", "oversized"}
    BY DEF Typed
  <1> SUFFICES ASSUME NEW body \in DOMAIN Typed PROVE DocType(Typed[body])
    OBVIOUS
  <1>4. CASE body = "blank"
    BY <1>2, <1>4 DEF Typed
  <1>5. CASE body = "words"
    BY <1>2, <1>5 DEF Typed
  <1>6. CASE body = "literals"
    BY <1>2, <1>6 DEF Typed
  <1>7. CASE body = "optout"
    BY <1>2, <1>7 DEF Typed
  <1>8. CASE body = "oversized"
    BY <1>2, <1>8 DEF Typed
  <1> QED
    BY <1>3, <1>4, <1>5, <1>6, <1>7, <1>8

LEMMA ReplacedDocs ==
    ASSUME NEW doc, NEW bound, DocType(doc), \A name \in DOMAIN bound : TokenOK(bound[name])
    PROVE  DocType(Replace(doc, bound))
  <1> DEFINE Bound(token) == IF token.is = "sentinel" /\ token.of \in DOMAIN bound
                             THEN bound[token.of] ELSE token
  <1>1. ASSUME NEW row \in doc PROVE RowOK(Row(row.place, Bound(row.token)))
    <2>1. TokenOK(Bound(row.token))
      BY DocTypeIsRowOK DEF RowOK
    <2> QED
      BY <2>1, RowIsOK
  <1> QED
    BY <1>1, DocTypeIsRowOK DEF Replace

LEMMA RenderedDocs ==
    ASSUME NEW layout, NEW mode, NEW manage \in BOOLEAN, NEW date, NEW viewOnline,
           TokenOK(date), TokenOK(viewOnline)
    PROVE  DocType(RenderLayout(layout, mode, manage, date, viewOnline))
  <1>1. /\ \A name \in Sentinels : TokenOK(Sentinel(name))
        /\ TokenOK(Nothing)
    BY TokensAreOK DEF Nothing
  <1>2. DocType(Wrapper(mode, manage, date, viewOnline))
    <2>1. TokenOK(IF manage THEN Sentinel("MANAGE_SUBSCRIPTIONS_URL") ELSE Nothing)
      BY <1>1 DEF Sentinels
    <2>2. \A row \in Wrapper(mode, manage, date, viewOnline) : RowOK(row)
      BY <1>1, <2>1, RowIsOK DEF Wrapper, Sentinels
    <2> QED
      BY <2>2, DocTypeIsRowOK
  <1>3. DocType({Row("block", Text(b)) : b \in layout.blocks})
    BY TokensAreOK, RowIsOK, DocTypeIsRowOK
  <1> QED
    BY <1>2, <1>3, JoinedDocs DEF RenderLayout

LEMMA ChromeDocs ==
    ASSUME NEW body, NEW date, NEW reply, NEW readOnline, NEW unsubscribe, NEW archive,
           DocType(body), TokenOK(date), TokenOK(reply), TokenOK(readOnline),
           TokenOK(unsubscribe), TokenOK(archive)
    PROVE  DocType(Chrome(body, date, reply, readOnline, unsubscribe, archive))
  <1>1. \A what : TokenOK(Text(what))
    BY TokensAreOK
  <1>2. \A row \in body : RowOK(row)
    BY DocTypeIsRowOK
  <1>3. \A row \in Chrome(body, date, reply, readOnline, unsubscribe, archive) : RowOK(row)
    <2>1. TokenOK(IF unsubscribe = Nothing THEN Text("reply with UNSUBSCRIBE")
                  ELSE unsubscribe)
      BY <1>1
    <2> QED
      BY <1>1, <1>2, <2>1, RowIsOK DEF Chrome, Shown
  <1> QED
    BY <1>3, DocTypeIsRowOK

LEMMA EmailTextDocs ==
    ASSUME NEW html, DocType(html)
    PROVE  DocType(EmailText(html))
  BY PartOfDoc DEF EmailText

(* The parts of a letter to one recipient.                                 *)
LEMMA SubstitutedDocs ==
    ASSUME NEW d, NEW doc, NEW to \in Recipients, NEW isLayout, DocType(doc)
    PROVE  DocType(SubstitutePlaceholders(d, doc, to, isLayout))
  <1> DEFINE unsubscribe == IF d.unsub THEN OptOutLink(to) ELSE Nothing
             whole == [UNSUBSCRIBE_URL |-> unsubscribe, MANAGE_SUBSCRIPTIONS_URL |-> Archive(d),
                       VIEW_ONLINE_URL |-> Nothing]
             link == [UNSUBSCRIBE_URL |-> unsubscribe]
  <1>1. TokenOK(unsubscribe) /\ TokenOK(Nothing) /\ TokenOK(Archive(d))
    <2>1. TokenOK(OptOutLink(to)) /\ TokenOK(Nothing) /\ TokenOK(Link("archive"))
      BY TokensAreOK DEF Nothing
    <2> QED
      BY <2>1 DEF Archive
  <1> HIDE DEF unsubscribe
  <1>2. \A name \in DOMAIN whole : TokenOK(whole[name])
    BY <1>1
  <1>3. \A name \in DOMAIN link : TokenOK(link[name])
    BY <1>1
  <1>4. DocType(Replace(doc, whole)) /\ DocType(Replace(doc, link))
    BY <1>2, <1>3, ReplacedDocs
  <1> QED
    BY <1>4 DEF SubstitutePlaceholders, unsubscribe

LEMMA SendScopeDocs ==
    ASSUME NEW doc, NEW date, DocType(doc), TokenOK(date)
    PROVE  DocType(SubstituteSendScope(doc, date))
  <1> DEFINE scope == [SENDER_NAME |-> Text("sender"), PROJECT_NAME |-> Text("project"),
                       SEND_DATE |-> date]
  <1>1. \A name \in DOMAIN scope : TokenOK(scope[name])
    BY TokensAreOK
  <1> QED
    BY <1>1, ReplacedDocs DEF SubstituteSendScope

(* Where a mailing starts.                                                 *)
LEMMA TemplateDocs ==
    ASSUME NEW d \in Deployments, NEW known \in Lookups, DocType(draft.body)
    PROVE  DocType(Template(d, known))
  <1>1. /\ \A what : TokenOK(Text(what)) /\ TokenOK(Link(what))
        /\ TokenOK(Nothing) /\ TokenOK(Sentinel("UNSUBSCRIBE_URL"))
    BY TokensAreOK DEF Nothing, Sentinels
  <1>2. TokenOK(ReplyTo(known)) /\ TokenOK(ReadOnlineURL(d, known)) /\ TokenOK(Archive(d))
    BY <1>1 DEF ReplyTo, ReadOnlineURL, Archive
  <1>3. TokenOK(IF d.unsub THEN Sentinel("UNSUBSCRIBE_URL") ELSE Nothing)
    BY <1>1
  <1>4. DocType(Legacy(d, known))
    BY <1>1, <1>2, <1>3, ChromeDocs DEF Legacy
  <1>5. d.archive \in BOOLEAN
    BY LettersAssumption
  <1>6. DocType(RenderLayout(draft.layout, SendUnsubFooterMode(d), d.archive,
                             Text("send date"), ReadOnlineURL(d, known)))
    BY <1>1, <1>2, <1>5, RenderedDocs
  <1> QED
    BY <1>1, <1>4, <1>6, SendScopeDocs DEF Template

LEMMA TestDocs ==
    ASSUME NEW d \in Deployments, NEW r \in Requests, NEW known \in Lookups,
           NEW to \in Recipients
    PROVE  DocType(TestDoc(d, r, known, to))
  <1>1. /\ \A what : TokenOK(Text(what)) /\ TokenOK(Link(what))
        /\ TokenOK(Nothing) /\ TokenOK(OptOutLink(to))
    BY TokensAreOK DEF Nothing
  <1>2. CASE r.sets = "layout"
    <2> DEFINE bound == [UNSUBSCRIBE_URL |-> Nothing, VIEW_ONLINE_URL |-> Nothing,
                         MANAGE_SUBSCRIPTIONS_URL |-> Nothing]
               doc == RenderLayout(r.layout, "suppressed", FALSE, Text("today"), Nothing)
    <2>1. \A name \in DOMAIN bound : TokenOK(bound[name])
      BY <1>1
    <2>2. DocType(doc)
      BY <1>1, RenderedDocs
    <2>3. DocType(SubstituteSendScope(doc, Text("today")))
      BY <1>1, <2>2, SendScopeDocs
    <2>4. DocType(Replace(SubstituteSendScope(doc, Text("today")), bound))
      BY <2>1, <2>3, ReplacedDocs
    <2> QED
      BY <1>2, <2>4 DEF TestDoc
  <1>3. CASE r.sets # "layout"
    <2>1. TokenOK(IF d.unsub THEN OptOutLink(to) ELSE Nothing)
      BY <1>1
    <2>2. TokenOK(ReplyTo(known)) /\ TokenOK(Archive(d))
      BY <1>1 DEF ReplyTo, Archive
    <2>3. DocType(Typed[r.body])
      BY <1>3, RequestShapes, TypedDocs
    <2> QED
      BY <1>1, <1>3, <2>1, <2>2, <2>3, ChromeDocs DEF TestDoc
  <1> QED
    BY <1>2, <1>3

LEMMA PreviewDocs ==
    ASSUME NEW d \in Deployments, NEW layout \in Layouts, NEW client \in Clients
    PROVE  DocType(PreviewDoc(d, layout, client))
  <1> DEFINE date == Text(IF "date" \in client THEN "client" ELSE "today")
             view == IF "view online" \in client THEN Text("client") ELSE Nothing
             whole == RenderLayout(layout, SendUnsubFooterMode(d), FALSE, date, view)
             bound == [SENDER_NAME |-> Text("client"), PROJECT_NAME |-> Text("client")]
  <1>1. (\A what : TokenOK(Text(what))) /\ TokenOK(Nothing)
    BY TokensAreOK DEF Nothing
  <1>2. TokenOK(date) /\ TokenOK(view)
    BY <1>1
  <1>3. DocType(whole)
    BY <1>2, RenderedDocs
  <1>4. \A name \in DOMAIN bound : TokenOK(bound[name])
    BY <1>1
  <1>5. DocType(Replace(whole, bound))
    BY <1>3, <1>4, ReplacedDocs
  <1>6. DocType({row \in whole : row.place \notin {"sender", "project"}})
    BY <1>3, PartOfDoc
  <1> QED
    BY <1>5, <1>6 DEF PreviewDoc

AnswerCodes == {Idle, 200, 202, 400, 422, 500, 503}

LEMMA CodesAreAnswers ==
    ASSUME NEW d, NEW layout, NEW r, NEW known
    PROVE  /\ RenderCode(d, layout) \in AnswerCodes
           /\ TestCode(d, r, known) \in AnswerCodes
           /\ SendCode(d, known) \in AnswerCodes
  <1>1. \A l : RenderCode(d, l) \in {200, 400, 422}
    BY DEF RenderCode
  <1>2. BodyCode(r.body) \in {200, 400}
    BY DEF BodyCode
  <1>3. TestCode(d, r, known) \in {200, 400, 422, 500}
    BY <1>1, <1>2 DEF TestCode
  <1>4. SendCode(d, known) \in {200, 202, 400, 422, 500, 503}
    BY <1>1 DEF SendCode
  <1> QED
    BY <1>1, <1>3, <1>4 DEF AnswerCodes

LEMMA RefuseTypes ==
    ASSUME LETypeOK, NEW code \in AnswerCodes, Refuse(code)
    PROVE  LETypeOK'
  BY DEF LETypeOK, Refuse, AnswerCodes, DocType, TokensOf

LEMMA SaveTypes ==
    ASSUME LETypeOK, NEW pod \in Pods, NEW layout \in Layouts \cup {NoLayout}, NEW body,
           DocType(body), Save(pod, layout, body)
    PROVE  LETypeOK'
  <1>1. /\ draft' = [exists |-> TRUE, layout |-> layout, body |-> body] /\ answer' = 200
        /\ savedBy' = deployment[pod] /\ UNCHANGED <<deployment, outbox>>
    BY DEF Save
  <1>2. draft'.exists = TRUE /\ draft'.layout = layout /\ draft'.body = body
    BY <1>1
  <1>3. savedBy' \in Deployments
    BY <1>1 DEF LETypeOK
  <1> QED
    BY <1>1, <1>2, <1>3 DEF LETypeOK, DocType, TokensOf

LEMMA SaveDerivedTypes ==
    ASSUME LETypeOK, NEW pod \in Pods, NEW layout \in Layouts \cup {NoLayout},
           SaveDerived(pod, layout)
    PROVE  LETypeOK'
  <1>1. TokenOK(Sentinel("SEND_DATE")) /\ TokenOK(Nothing)
    BY TokensAreOK DEF Nothing, Sentinels
  <1>2. DocType(Derived(deployment[pod], layout))
    BY <1>1, RenderedDocs DEF Derived
  <1> QED
    BY <1>2, CodesAreAnswers, SaveTypes, RefuseTypes DEF SaveDerived

LEMMA DraftTypes ==
    ASSUME LETypeOK, NEW pod \in Pods, NEW r \in Requests,
           CreateDraft(pod, r) \/ UpdateDraft(pod, r)
    PROVE  LETypeOK'
  <1>1. CASE r.sets = "layout" /\ SaveDerived(pod, r.layout)
    BY <1>1, SaveDerivedTypes DEF Requests
  <1>2. CASE KeepLayout(pod, r)
    BY <1>2, SaveDerivedTypes DEF KeepLayout, LETypeOK
  <1>3. CASE Refuse(400)
    BY <1>3, RefuseTypes DEF AnswerCodes
  <1>4. CASE r.sets # "layout" /\ Save(pod, NoLayout, Typed[r.body])
    BY <1>4, RequestShapes, TypedDocs, SaveTypes
  <1> QED
    BY <1>1, <1>2, <1>3, <1>4 DEF CreateDraft, UpdateDraft, SetLayout, ClearLayout, SetBody

LEMMA OutboxTypes ==
    ASSUME LETypeOK, UNCHANGED <<deployment, draft, savedBy>>, answer' \in AnswerCodes,
           \A letter \in outbox' : /\ letter.kind \in {"mailing", "test", "preview"}
                                   /\ DocType(letter.html) /\ DocType(letter.text)
    PROVE  LETypeOK'
  BY DEF LETypeOK, DocType, TokensOf, AnswerCodes

LEMMA SendTypes ==
    ASSUME LETypeOK, NEW pod \in Pods, NEW known \in Lookups, SendNewsletter(pod, known)
    PROVE  LETypeOK'
  <1> DEFINE d == deployment[pod]
  <1>1. CASE Refuse(SendCode(d, known))
    BY <1>1, CodesAreAnswers, RefuseTypes
  <1>2. CASE /\ outbox' = {Letter(d, Template(d, known), to) : to \in Recipients}
             /\ answer' = 202 /\ UNCHANGED <<deployment, draft, savedBy>>
    <2>1. DocType(Template(d, known)) /\ DocType(EmailText(Template(d, known)))
      BY TemplateDocs, EmailTextDocs DEF LETypeOK
    <2>2. ASSUME NEW to \in Recipients
          PROVE  LET letter == Letter(d, Template(d, known), to)
                 IN  letter.kind = "mailing" /\ DocType(letter.html) /\ DocType(letter.text)
      BY <2>1, SubstitutedDocs DEF Letter
    <2> QED
      BY <1>2, <2>2, OutboxTypes DEF AnswerCodes
  <1> QED
    BY <1>1, <1>2 DEF SendNewsletter

LEMMA TestTypes ==
    ASSUME LETypeOK, NEW pod \in Pods, NEW r \in Requests, NEW known \in Lookups,
           NEW to \in Recipients, TestSend(pod, r, known, to)
    PROVE  LETypeOK'
  <1> DEFINE d == deployment[pod]
             doc == TestDoc(d, r, known, to)
             letter == [kind |-> "test", isLayout |-> r.sets = "layout", to |-> to, by |-> d,
                        typed |-> Typed[r.body], html |-> doc, text |-> EmailText(doc)]
  <1>1. CASE Refuse(TestCode(d, r, known))
    BY <1>1, CodesAreAnswers, RefuseTypes
  <1>2. CASE outbox' = {letter} /\ answer' = 202 /\ UNCHANGED <<deployment, draft, savedBy>>
    <2>1. d \in Deployments
      BY DEF LETypeOK
    <2>2. DocType(doc) /\ DocType(EmailText(doc))
      BY <2>1, TestDocs, EmailTextDocs
    <2>3. letter.kind = "test" /\ letter.html = doc /\ letter.text = EmailText(doc)
      OBVIOUS
    <2> HIDE DEF letter, doc
    <2> QED
      BY <1>2, <2>2, <2>3, OutboxTypes DEF AnswerCodes
  <1> QED
    BY <1>1, <1>2 DEF TestSend

LEMMA PreviewTypes ==
    ASSUME LETypeOK, NEW pod \in Pods, NEW layout \in Layouts, NEW client \in Clients,
           RenderPreview(pod, layout, client)
    PROVE  LETypeOK'
  <1> DEFINE d == deployment[pod]
             html == PreviewDoc(d, layout, client)
             letter == [kind |-> "preview", isLayout |-> TRUE, to |-> "nobody",
                        by |-> d, typed |-> {}, html |-> html, text |-> html]
  <1>1. CASE Refuse(RenderCode(d, layout))
    BY <1>1, CodesAreAnswers, RefuseTypes
  <1>2. CASE outbox' = {letter} /\ answer' = 200 /\ UNCHANGED <<deployment, draft, savedBy>>
    <2>1. d \in Deployments
      BY DEF LETypeOK
    <2>2. DocType(html)
      BY <2>1, PreviewDocs
    <2>3. letter.kind = "preview" /\ letter.html = html /\ letter.text = html
      OBVIOUS
    <2> HIDE DEF letter, html
    <2> QED
      BY <1>2, <2>2, <2>3, OutboxTypes DEF AnswerCodes
  <1> QED
    BY <1>1, <1>2 DEF RenderPreview

(* Every body and every part of a letter is made of known tokens, a draft  *)
(* has a layout one may store or none, and no code is answered but these.  *)
THEOREM LettersTypesHold == LESpec => []LETypeOK
  <1>1. LEInit => LETypeOK
    <2> SUFFICES ASSUME LEInit PROVE LETypeOK
      OBVIOUS
    <2>1. draft.exists = FALSE /\ draft.layout = NoLayout /\ draft.body = {}
      BY DEF LEInit, NoDraft
    <2> QED
      BY <2>1 DEF LEInit, LETypeOK, DocType, TokensOf
  <1>2. LETypeOK /\ [LENext]_lettersVars => LETypeOK'
    <2> SUFFICES ASSUME LETypeOK, [LENext]_lettersVars PROVE LETypeOK'
      OBVIOUS
    <2>1. ASSUME NEW pod \in Pods, Request(pod) PROVE LETypeOK'
      BY <2>1, DraftTypes, SendTypes, TestTypes, PreviewTypes DEF Request
    <2>2. ASSUME NEW pod \in Pods, NEW d \in Deployments, Roll(pod, d) PROVE LETypeOK'
      BY <2>2 DEF Roll, LETypeOK, DocType, TokensOf
    <2>3. CASE TakeAnswer
      <3>1. outbox' = {} /\ answer' = Idle /\ UNCHANGED <<deployment, draft, savedBy>>
        BY <2>3 DEF TakeAnswer
      <3> QED
        BY <3>1, OutboxTypes DEF AnswerCodes
    <2>4. CASE UNCHANGED lettersVars
      BY <2>4 DEF lettersVars, LETypeOK, DocType, TokensOf
    <2> QED
      BY <2>1, <2>2, <2>3, <2>4 DEF LENext
  <1> QED
    BY <1>1, <1>2, PTL DEF LESpec
=============================================================================
