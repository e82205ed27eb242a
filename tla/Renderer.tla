------------------------------ MODULE Renderer ------------------------------
(***************************************************************************)
(* What the declarative renderer makes of a layout: the templates of its   *)
(* blocks are bound to what their author filled in, put between the        *)
(* wrapper's header and footer, and written as MJML, where a section holds *)
(* columns, a column holds texts, images, buttons, dividers and tables,    *)
(* and nothing nests any deeper.  The compiler drops the drop shadows of   *)
(* cards, so they are collected first and put back last, by counting.      *)
(*                                                                         *)
(* What is said is known by the place ("at") it is bound to: in which      *)
(* block, which item, which element.  Attributes, styles other than a      *)
(* card's, escaping and the checks of URLs are left out.                   *)
(***************************************************************************)
EXTENDS Integers, Sequences, FiniteSets

LOCAL INSTANCE SequencesExt

CONSTANTS
    Editions,           \* the layouts an author may ask for
    EditionFields,      \* which of the wrapper's own fields may be filled in
    MaxLayoutBlocks, MaxLayoutDepth, MaxLayoutItems

ASSUME RendererAssumption ==
    /\ \A limit \in {MaxLayoutBlocks, MaxLayoutDepth, MaxLayoutItems} : limit \in Nat
    /\ \A fields \in EditionFields : IsFiniteSet(fields)

VARIABLES
    edition,    \* the layout that was asked for
    mail        \* what it was rendered to

rendererVars == <<edition, mail>>

----------------------------------------------------------------------------
(* Templates and bound trees are made of the same elements.                *)

Element(tag, kids) ==
    [tag |-> tag, given |-> "", unless |-> "", each |-> FALSE, hidden |-> FALSE,
     look |-> {}, shadow |-> "", href |-> FALSE, spaced |-> FALSE, at |-> <<>>,
     kids |-> kids]

Raw          == Element("raw", <<>>)
RichText     == Element("richtext", <<>>)
Div(kids)    == Element("div", kids)
Words        == Element("text", <<Raw>>)
Anchor(kids) == [Element("link", kids) EXCEPT !.href = TRUE]
Reference    == Element("text", <<Element("strong", <<Anchor(<<Raw>>)>>)>>)
Button       == [Element("button", <<Raw>>) EXCEPT !.href = TRUE]
Picture      == Element("img", <<>>)
Rule         == Element("hr", <<>>)

If(field, n) == [n EXCEPT !.given = field]
Unless(field, n) == [n EXCEPT !.unless = field]
Repeated(n)  == [n EXCEPT !.each = TRUE]

Heading      == If("title", Element("heading", <<Raw>>))

Card(shadow, kids) ==
    [Element("section", kids) EXCEPT !.look = {"radius", "background"}, !.shadow = shadow]

HotTake ==
    Card("black", <<Div(<<Words, Heading, RichText>>),
                    If("poll", Element("section", <<Div(<<Element("row", <<
                        Element("column", <<Button>>),
                        If("second", Element("column", <<Button>>))>>)>>)>>))>>)

ShareTheSignal ==
    Card("black", <<Div(<<Heading, If("subtitle", Words),
                          Element("row", <<Element("column", <<Button>>),
                                           Element("column", <<Button>>)>>)>>)>>)

ByTheNumbers ==
    Card("blue", <<Div(<<Words, Element("row",
                       <<Repeated(Element("column", <<Words, Words>>))>>)>>)>>)

SpecWatch ==
    Card("black", <<Div(<<Words, Heading,
                          Repeated(Element("row",
                              <<Element("column", <<Words>>),
                                Element("column", <<Reference>>)>>))>>)>>)

NextUp ==
    Card("black", <<Div(<<Element("row",
                        <<Element("column", <<Words, Words>>),
                          Element("column", <<Heading, If("subtitle", Words),
                                              If("cta", Button)>>)>>)>>)>>)

HiddenGems ==
    Card("black", <<Div(<<Words, Heading, Repeated(Div(<<Reference, RichText>>))>>)>>)

SponsoredAd ==
    Card("black", <<Div(<<Words, Heading, If("image", Anchor(<<Picture>>)), RichText,
                          If("cta", Reference)>>)>>)

MlopsCommunity ==
    Card("black", <<Div(<<Words, Element("slot", <<Rule>>)>>)>>)

HitReply == Card("violet", <<Div(<<Words, Words, If("note", Words)>>)>>)

IntroParagraph ==
    Element("section", <<Div(<<Unless("plain", RichText), If("plain", RichText)>>)>>)

AgenticPicks ==
    Element("section", <<Div(<<Rule, Words, If("standfirst", Words),
        If("items", Element("ul", <<Repeated(Element("li",
            <<Element("strong", <<Anchor(<<Raw>>)>>),
              If("source", Element("span", <<Raw>>)), Words>>))>>))>>)>>)

BlogPost == Element("section", <<Heading, RichText, If("link", Reference)>>)

Library ==
    [hot_take |-> HotTake, share_the_signal |-> ShareTheSignal,
     by_the_numbers |-> ByTheNumbers, spec_watch |-> SpecWatch, next_up |-> NextUp,
     hidden_gems |-> HiddenGems, sponsored_ad |-> SponsoredAd,
     mlops_community |-> MlopsCommunity, hit_reply |-> HitReply,
     intro_paragraph |-> IntroParagraph, agentic_picks |-> AgenticPicks,
     blog_post |-> BlogPost]

Logo(hidden) == [Div(<<Anchor(<<Picture>>)>>) EXCEPT !.hidden = hidden]

DefaultWrapper ==
    <<Element("section", <<Div(<<Logo(FALSE), Logo(TRUE), Words,
                                 Element("text", <<If("date", Element("span", <<Raw>>)),
                                                   Anchor(<<Raw>>)>>)>>)>>),
      Element("body", <<>>),
      Element("section", <<Div(<<If("sender", Words), Unless("sender", Words),
                                 If("unsubscribe", Element("text",
                                     <<Raw, Anchor(<<Raw>>)>>)),
                                 Words>>)>>)>>

----------------------------------------------------------------------------
(* Layouts: a sequence of blocks, each of a type, with the fields its      *)
(* author filled in, the items of its list, and blocks of its own.         *)

MapSeq(s, Op(_)) == FlattenSeq([i \in DOMAIN s |-> Op(s[i])])

Count(s, Op(_)) == FoldLeft(LAMBDA n, x : n + Op(x), 0, s)

RECURSIVE BlocksIn(_)
BlocksIn(blocks) == Count(blocks, LAMBDA b : 1 + BlocksIn(b.blocks))

RECURSIVE ItemsOf(_)
ItemsOf(content) == Len(content.items) + Count(content.items, ItemsOf)

RECURSIVE ItemsIn(_)
ItemsIn(blocks) == Count(blocks, LAMBDA b : ItemsOf(b.content) + ItemsIn(b.blocks))

RECURSIVE Shallow(_, _)
Shallow(blocks, depth) ==
    \A i \in DOMAIN blocks : LET inner == blocks[i].blocks IN
        inner # <<>> => depth + 1 =< MaxLayoutDepth /\ Shallow(inner, depth + 1)

CheckLayoutBounds(blocks) ==
    /\ BlocksIn(blocks) =< MaxLayoutBlocks
    /\ ItemsIn(blocks) =< MaxLayoutItems
    /\ Shallow(blocks, 1)

RECURSIVE KnownTypes(_)
KnownTypes(blocks) ==
    \A i \in DOMAIN blocks :
        blocks[i].type \in DOMAIN Library /\ KnownTypes(blocks[i].blocks)

----------------------------------------------------------------------------
(* Binding.  What an each= element is given is asked of every item.        *)

ConditionsHold(n, content) ==
    /\ n.given # "" => n.given \in content.has
    /\ n.unless \notin content.has

RECURSIVE BindNode(_, _, _, _)
BindNode(n, content, children, at) ==
    LET BindAll(nodes, within, where) ==
            FlattenSeq([i \in DOMAIN nodes |->
                            BindNode(nodes[i], within, children, Append(where, i))])
        BindBlock(b, where) == BindNode(Library[b.type], b.content, b.blocks, where)
        Child(i) ==
            (IF i > 1 THEN BindAll(n.kids, content, at \o <<i, 0>>) ELSE <<>>)
            \o BindBlock(children[i], Append(at, i))
    IN  IF n.each
        THEN FlattenSeq([i \in DOMAIN content.items |->
                 BindNode([n EXCEPT !.each = FALSE], content.items[i], children,
                          Append(at, i))])
        ELSE IF ~ConditionsHold(n, content) THEN <<>>
        ELSE IF n.tag = "slot" THEN FlattenSeq([i \in DOMAIN children |-> Child(i)])
        ELSE <<[n EXCEPT !.at = at, !.kids = BindAll(n.kids, content, at)]>>

ApplyBlockSpacing(b, bound) ==
    IF b.spaced THEN <<Element("spacing", bound)>> ELSE bound

BindBlocks(blocks) ==
    FlattenSeq([i \in DOMAIN blocks |->
        ApplyBlockSpacing(blocks[i], BindNode(Library[blocks[i].type], blocks[i].content,
                                              blocks[i].blocks, <<i>>))])

BindWrapper(body, fields) ==
    FlattenSeq([i \in DOMAIN DefaultWrapper |->
        IF DefaultWrapper[i].tag = "body" THEN body
        ELSE BindNode(DefaultWrapper[i], [has |-> fields, items |-> <<>>], <<>>, <<0, i>>)])

RECURSIVE PruneHiddenNodes(_)
PruneHiddenNodes(nodes) ==
    MapSeq(nodes, LAMBDA n : IF n.hidden THEN <<>>
                             ELSE <<[n EXCEPT !.kids = PruneHiddenNodes(n.kids)]>>)

RECURSIVE CollectCardShadows(_)
CollectCardShadows(nodes) ==
    MapSeq(nodes, LAMBDA n :
        (IF n.tag \in {"section", "row"} /\ "radius" \in n.look THEN <<n.shadow>> ELSE <<>>)
        \o CollectCardShadows(n.kids))

----------------------------------------------------------------------------
(* Writing what stands in a column.                                        *)

BlockTags == {"section", "row", "column"}
InertTags == {"div", "span", "strong", "ul", "li"}

Said(n, linked) == [at |-> n.at, linked |-> linked]

(* One element of a column: a text, or a table with several cells, and     *)
(* what each of its cells says.                                            *)
Component(as, cells) == [as |-> as, cells |-> cells]

(* An image or a rule has no inline form and leaves nothing.               *)
RECURSIVE WriteInline(_, _)
WriteInline(nodes, linked) ==
    MapSeq(nodes, LAMBDA n :
        IF n.tag \in {"raw", "richtext"} THEN <<Said(n, linked)>>
        ELSE WriteInline(n.kids, linked \/ (n.tag = "link" /\ n.href)))

InlineAsText(nodes) == <<Component("text", <<WriteInline(nodes, FALSE)>>)>>

IsBlockLevel(n) == n.tag \in BlockTags \cup {"img", "button", "hr", "text", "heading"}

RECURSIVE HasBlockDescendant(_)
HasBlockDescendant(n) ==
    \E i \in DOMAIN n.kids : IsBlockLevel(n.kids[i]) \/ HasBlockDescendant(n.kids[i])

RECURSIVE HrefOnImages(_)
HrefOnImages(nodes) ==
    [i \in DOMAIN nodes |->
        IF nodes[i].tag = "img" THEN [nodes[i] EXCEPT !.href = TRUE]
        ELSE [nodes[i] EXCEPT !.kids = HrefOnImages(@)]]

CarryLinkHref(n) == IF n.tag = "link" /\ n.href THEN HrefOnImages(n.kids) ELSE n.kids

(* Consecutive nodes are written together, as one run, up to a node that   *)
(* is written apart.                                                       *)
InRuns(nodes, Apart(_), WriteApart(_), WriteRun(_)) ==
    LET Flush(w) == IF w.run = <<>> THEN w.out ELSE w.out \o WriteRun(w.run)
        Take(w, n) == IF Apart(n) THEN [out |-> Flush(w) \o WriteApart(n), run |-> <<>>]
                      ELSE [w EXCEPT !.run = Append(@, n)]
    IN  Flush(FoldLeft(Take, [out |-> <<>>, run |-> <<>>], nodes))

(* Layout that is nested in a column is flattened, and so is a container   *)
(* of anything that has to stand for itself.                               *)
RECURSIVE WriteChildren(_)
WriteChildren(nodes) ==
    LET WriteApart(n) ==
            CASE n.tag \in BlockTags -> WriteChildren(n.kids)
              [] n.tag = "img"       -> <<Component("image", <<<<Said(n, n.href)>>>>)>>
              [] n.tag = "button"    -> <<Component("button", <<WriteInline(n.kids, n.href)>>)>>
              [] n.tag = "hr"        -> <<Component("divider", <<<<Said(n, FALSE)>>>>)>>
              [] n.tag \in {"text", "heading"} -> InlineAsText(n.kids)
              [] OTHER               -> WriteChildren(CarryLinkHref(n))
    IN  InRuns(nodes, LAMBDA n : IsBlockLevel(n) \/ HasBlockDescendant(n), WriteApart,
               InlineAsText)

----------------------------------------------------------------------------
(* Writing sections.                                                       *)

Section(look, columns) ==
    [look |-> look, columns |-> columns, spaced |-> FALSE, shadow |-> ""]

ColumnsOf(n) == SelectSeq(n.kids, LAMBDA k : k.tag = "column")
OthersOf(n)  == SelectSeq(n.kids, LAMBDA k : k.tag # "column")

IsBreakout(n) == n.tag \in BlockTags /\ Len(ColumnsOf(n)) >= 2

RECURSIVE ContainsBreakout(_)
ContainsBreakout(n) ==
    \E i \in DOMAIN n.kids : IsBreakout(n.kids[i]) \/ ContainsBreakout(n.kids[i])

RECURSIVE HasMJBlockDescendant(_)
HasMJBlockDescendant(n) ==
    \E i \in DOMAIN n.kids : \/ n.kids[i].tag \in {"button", "img", "hr"}
                             \/ HasMJBlockDescendant(n.kids[i])

BreakoutTableSafe(n) ==
    \A i \in DOMAIN n.kids : n.kids[i].tag = "column" => ~HasMJBlockDescendant(n.kids[i])

RECURSIVE CardBreakoutsAllTableSafe(_)
CardBreakoutsAllTableSafe(n) ==
    \A i \in DOMAIN n.kids : IF IsBreakout(n.kids[i]) THEN BreakoutTableSafe(n.kids[i])
                             ELSE CardBreakoutsAllTableSafe(n.kids[i])

IsCardSection(n) == n.look # {}

WriteColumns(n) ==
    LET columns == ColumnsOf(n)
        others  == OthersOf(n)
    IN  Section(n.look, [i \in DOMAIN columns |-> WriteChildren(columns[i].kids)]
                        \o (IF others = <<>> THEN <<>> ELSE <<WriteChildren(others)>>))

BreakoutTable(n) ==
    LET columns == ColumnsOf(n)
    IN  <<Component("table", [i \in DOMAIN columns |-> WriteInline(columns[i].kids, FALSE)])>>

(* The usual single div that pads all of a card makes way for its content. *)
Unwrapped(nodes) ==
    IF Len(nodes) = 1 /\ nodes[1].tag \in InertTags /\ HasBlockDescendant(nodes[1])
    THEN nodes[1].kids ELSE nodes

CardWithBreakout(n) ==
    Section(n.look, <<InRuns(Unwrapped(n.kids), IsBreakout, BreakoutTable, WriteChildren)>>)

(* The section's own look, and that of the wrappers down to a breakout.    *)
RECURSIVE SplitBreakoutsFault(_, _, _)
SplitBreakoutsFault(nodes, own, look) ==
    LET Lift(n) == IF IsBreakout(n) THEN <<WriteColumns(n)>>
                   ELSE SplitBreakoutsFault(n.kids, own, look \cup n.look)
    IN  InRuns(nodes, LAMBDA n : IsBreakout(n) \/ ContainsBreakout(n), Lift,
               LAMBDA run : <<Section(own, <<WriteChildren(run)>>)>>)

RECURSIVE SplitBreakouts(_, _, _)
SplitBreakouts(nodes, own, look) ==
    LET Lift(n) == IF IsBreakout(n)
                   THEN <<WriteColumns([n EXCEPT !.look = look \cup @])>>
                   ELSE SplitBreakouts(n.kids, own, look \cup n.look)
    IN  InRuns(nodes, LAMBDA n : IsBreakout(n) \/ ContainsBreakout(n), Lift,
               LAMBDA run : <<Section(own, <<WriteChildren(run)>>)>>)

WriteSection(n) ==
    IF ColumnsOf(n) # <<>> THEN <<WriteColumns(n)>>
    ELSE IF IsCardSection(n) /\ ContainsBreakout(n) /\ CardBreakoutsAllTableSafe(n)
    THEN <<CardWithBreakout(n)>>
    ELSE SplitBreakouts(n.kids, n.look, n.look)

RECURSIVE WriteBlock(_)
WriteBlock(n) ==
    CASE n.tag = "spacing" ->
             MapSeq(n.kids, LAMBDA k : LET written == WriteBlock(k) IN
                 [i \in DOMAIN written |-> [written[i] EXCEPT !.spaced = TRUE]])
      [] n.tag \in {"section", "row"} -> WriteSection(n)
      [] n.tag = "column" -> <<Section(n.look, <<WriteChildren(n.kids)>>)>>
      [] OTHER -> <<Section({}, <<InlineAsText(<<n>>)>>)>>

Translate(nodes) == MapSeq(nodes, WriteBlock)

(* The nth rounded section of the compiled mail is given the nth shadow.   *)
ReconcileCardBorders(sections, shadows) ==
    LET Nth(i) == Cardinality({j \in 1..i : "radius" \in sections[j].look})
        Shadow(i) == IF "radius" \in sections[i].look /\ Nth(i) =< Len(shadows)
                     THEN shadows[Nth(i)] ELSE ""
    IN  [i \in DOMAIN sections |-> [sections[i] EXCEPT !.shadow = Shadow(i)]]

----------------------------------------------------------------------------
(* Rendering.  It reads nothing but what it is asked for, so one request   *)
(* says all there is to say of it.                                         *)

Assembled(e) == PruneHiddenNodes(BindWrapper(BindBlocks(e.blocks), e.fields))

Unasked == [blocks |-> <<>>, fields |-> {}]

Mail(code, sections) == [code |-> code, sections |-> sections]

REInit == edition = Unasked /\ mail = Mail(0, <<>>)

Unrenderable == mail' = Mail(422, <<>>)

RenderEdition(e) ==
    /\ mail.code = 0
    /\ edition' = e
    /\ \/ ~(CheckLayoutBounds(e.blocks) /\ KnownTypes(e.blocks)) /\ Unrenderable
       \/ /\ CheckLayoutBounds(e.blocks) /\ KnownTypes(e.blocks)
          /\ \/ LET nodes == Assembled(e) IN
                    mail' = Mail(200, ReconcileCardBorders(Translate(nodes),
                                                           CollectCardShadows(nodes)))
             \/ Unrenderable    \* the compiler rejects what it reads, or takes too long

RENext ==
    \E blocks \in Editions, fields \in EditionFields :
        RenderEdition([blocks |-> blocks, fields |-> fields])

RESpec == REInit /\ [][RENext]_rendererVars

----------------------------------------------------------------------------
(* Properties.                                                             *)

RETypeOK ==
    /\ mail.code \in {0, 200, 422}
    /\ \A i \in DOMAIN mail.sections : LET section == mail.sections[i] IN
           /\ section.look \subseteq {"radius", "background"}
           /\ section.spaced \in BOOLEAN
           /\ section.shadow \in {"", "black", "blue", "violet"}

SaidInColumn(column) == MapSeq(column, LAMBDA c : FlattenSeq(c.cells))
SaidInSection(section) == MapSeq(section.columns, SaidInColumn)

(* What a bound tree has to say, by itself.                                *)
RECURSIVE ToSay(_, _)
ToSay(nodes, linked) ==
    MapSeq(nodes, LAMBDA n :
        IF n.hidden THEN <<>>
        ELSE IF n.kids = <<>> /\ n.tag \in {"raw", "richtext", "img", "hr"}
        THEN <<Said(n, linked)>>
        ELSE ToSay(n.kids, linked \/ n.href))

RECURSIVE RowsOf(_)
RowsOf(nodes) ==
    MapSeq(nodes, LAMBDA n :
        IF Len(ColumnsOf(n)) >= 2
        THEN <<[i \in DOMAIN ColumnsOf(n) |-> ToSay(ColumnsOf(n)[i].kids, FALSE)]>>
        ELSE RowsOf(n.kids))

BoundEdition == BindWrapper(BindBlocks(edition.blocks), edition.fields)

SideBySide(row) ==
    \E i \in DOMAIN mail.sections : LET columns == mail.sections[i].columns IN
        \/ row = [c \in DOMAIN columns |-> SaidInColumn(columns[c])]
        \/ \E c \in DOMAIN columns : \E k \in DOMAIN columns[c] : columns[c][k].cells = row

BlockAt(said) == edition.blocks[said.at[1]]

CardOf(said) == Library[BlockAt(said).type]

(* However sections are split and containers dissolved, the mail says what *)
(* the layout says, once, in its order and with its links; what an author  *)
(* put on a card is on a rounded section and nothing else is; columns that *)
(* are meant to stand side by side do; and a block has the space around it *)
(* that was asked for.                                                     *)
LayoutIsKept ==
    mail.code = 200 =>
        /\ MapSeq(mail.sections, SaidInSection) = ToSay(BoundEdition, FALSE)
        /\ \A i \in DOMAIN mail.sections :
               LET section == mail.sections[i]
                   said    == SaidInSection(section)
               IN  \A k \in DOMAIN said :
                       /\ ("radius" \in section.look)
                              <=> (said[k].at[1] # 0 /\ "radius" \in CardOf(said[k]).look)
                       /\ section.spaced <=> (said[k].at[1] # 0 /\ BlockAt(said[k]).spaced)
        /\ LET rows == RowsOf(BoundEdition) IN \A r \in DOMAIN rows : SideBySide(rows[r])

(* Every card is given the shadow its template was authored with.          *)
EachCardItsShadow ==
    \A i \in DOMAIN mail.sections :
        LET section == mail.sections[i]
            said    == SaidInSection(section)
        IN  "radius" \in section.look =>
                \A k \in DOMAIN said : section.shadow = CardOf(said[k]).shadow
=============================================================================
