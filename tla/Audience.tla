------------------------------ MODULE Audience ------------------------------
(***************************************************************************)
(* Who receives a newsletter: the concurrent committee lookups, the        *)
(* opt-outs of the project, and the merge of the two, while recipients     *)
(* follow the links of earlier mailings and staff remove opt-outs.         *)
(*                                                                         *)
(* An address is a mailbox and a spelling of it: committee-service hands   *)
(* out whatever somebody typed, the service compares lowercased and        *)
(* trimmed addresses.  A link is the project and the address its token     *)
(* signs; a token that does not verify changes nothing and is left out.    *)
(***************************************************************************)
EXTENDS Integers, Sequences

CONSTANTS
    Committees,   \* of one newsletter, in order: a sequence
    Boxes,        \* mailboxes
    Malformed,    \* the boxes that stand for blanks and for text without @
    Rosters,      \* what one committee may look like: sequences of addresses
    Projects,     \* scopes of an opt-out
    MaxRounds     \* bound on the resolutions explored

Addresses == [box : Boxes, spelling : {"plain", "shouted"}]

ASSUME AudienceAssumption ==
    /\ Malformed \subseteq Boxes
    /\ Len(Committees) \in Nat
    /\ Rosters \subseteq Seq(Addresses)
    /\ MaxRounds \in Nat

VARIABLES
    roster,       \* committee-service: the members of each committee
    optOuts,      \* newsletter_unsubscribes: project and address
    links,        \* the unsubscribe links recipients hold
    resolving,    \* where resolveRecipients is
    project,      \* of the newsletter being resolved
    lookup,       \* each committee's goroutine
    found,        \* results: what each lookup returned
    audience,     \* the recipients, each with the place it is listed at,
                  \* which is the order they are mailed in
    steadfast,    \* opted out before this resolution began, and ever since
    withheld,     \* opted out of this project when the opt-outs were read
    rounds

resolution   == <<resolving, project, lookup, found, audience>>
audienceVars == <<roster, optOuts, links, resolution, steadfast, withheld, rounds>>

Slots == 1..Len(Committees)

OptOut(p, address) == [project |-> p, email |-> address]

AUInit ==
    /\ roster \in [Slots -> Rosters]
    /\ optOuts = {}
    /\ links = {}
    /\ resolving = "idle"
    /\ project \in Projects
    /\ lookup = [i \in Slots |-> "none"]
    /\ found = [i \in Slots |-> <<>>]
    /\ audience = {}
    /\ steadfast = {}
    /\ withheld = {}
    /\ rounds = 0

AUTypeOK ==
    /\ roster \in [Slots -> Rosters]
    /\ optOuts \subseteq [project : Projects, email : Addresses]
    /\ links \subseteq [project : Projects, email : Addresses]
    /\ resolving \in {"idle", "looking", "listing", "done", "failed"}
    /\ project \in Projects
    /\ lookup \in [Slots -> {"none", "asked", "answered", "failed"}]
    /\ found \in [Slots -> Rosters \cup {<<>>}]
    /\ audience \subseteq [at : Slots \X (Nat \ {0}), email : Addresses]
    /\ steadfast \subseteq optOuts
    /\ withheld \subseteq [project : Projects, email : Addresses]
    /\ rounds \in 0..MaxRounds

----------------------------------------------------------------------------
(* Resolution.                                                             *)

(* strings.ToLower(strings.TrimSpace(email))                               *)
Normalised(address) == [address EXCEPT !.spelling = "plain"]

ListUnsubscribedEmailsFault(p) == {r.email : r \in optOuts}

ListUnsubscribedEmails(p) == {r.email : r \in {o \in optOuts : o.project = p}}

(* The merging loop: an address is kept where it is listed first, unless   *)
(* it is none or has opted out.                                            *)
Positions(results) == UNION {{i} \X DOMAIN results[i] : i \in Slots}

Before(p, q) == p[1] < q[1] \/ (p[1] = q[1] /\ p[2] < q[2])

Email(results, p) == Normalised(results[p[1]][p[2]])

FirstListed(results, p) ==
    \A q \in Positions(results) : Before(q, p) => Email(results, q) # Email(results, p)

MergeFault(results, excluded) ==
    LET Listed(p) == results[p[1]][p[2]]
        first(p)  == \A q \in Positions(results) : Before(q, p) => Listed(q) # Listed(p)
    IN  {[at |-> p, email |-> Email(results, p)] :
            p \in {p \in Positions(results) :
                     /\ Listed(p).box \notin Malformed /\ first(p)
                     /\ Listed(p) \notin excluded}}

Merge(results, excluded) ==
    {[at |-> p, email |-> Email(results, p)] :
        p \in {p \in Positions(results) : /\ Email(results, p).box \notin Malformed
                                          /\ FirstListed(results, p)
                                          /\ Email(results, p) \notin excluded}}

StartResolving(p) ==
    /\ resolving \in {"idle", "done", "failed"}
    /\ rounds < MaxRounds
    /\ resolving' = "looking"
    /\ project' = p
    /\ lookup' = [i \in Slots |-> "asked"]
    /\ found' = [i \in Slots |-> <<>>]
    /\ audience' = {}
    /\ steadfast' = {o \in optOuts : o.project = p}
    /\ withheld' = {}
    /\ rounds' = rounds + 1
    /\ UNCHANGED <<roster, optOuts, links>>

AnswerLookup(i) ==
    /\ lookup[i] = "asked"
    /\ lookup' = [lookup EXCEPT ![i] = "answered"]
    /\ found' = [found EXCEPT ![i] = roster[i]]
    /\ UNCHANGED <<roster, optOuts, links, resolving, project, audience,
                   steadfast, withheld, rounds>>

(* A timeout, no responder, an empty or an unreadable reply; or the        *)
(* group's context, cancelled by another lookup's error.                   *)
FailLookup(i) ==
    /\ lookup[i] = "asked"
    /\ lookup' = [lookup EXCEPT ![i] = "failed"]
    /\ UNCHANGED <<roster, optOuts, links, resolving, project, found, audience,
                   steadfast, withheld, rounds>>

(* g.Wait: every goroutine has returned.                                   *)
WaitForLookupsFault ==
    /\ resolving = "looking"
    /\ \A i \in Slots : lookup[i] \in {"answered", "failed"}
    /\ resolving' = "listing"
    /\ UNCHANGED <<roster, optOuts, links, project, lookup, found, audience,
                   steadfast, withheld, rounds>>

WaitForLookups ==
    /\ resolving = "looking"
    /\ \A i \in Slots : lookup[i] \in {"answered", "failed"}
    /\ resolving' = IF \E i \in Slots : lookup[i] = "failed" THEN "failed"
                    ELSE "listing"
    /\ UNCHANGED <<roster, optOuts, links, project, lookup, found, audience,
                   steadfast, withheld, rounds>>

(* The opt-outs are read, or cannot be.  A resolution that goes on to a    *)
(* send mails everybody in it a link.                                      *)
ReadOptOuts ==
    /\ resolving = "listing"
    /\ \/ /\ audience' = Merge(found, ListUnsubscribedEmails(project))
          /\ resolving' = "done"
          /\ \/ UNCHANGED links
             \/ links' = links \cup {OptOut(project, Normalised(r.email)) : r \in audience'}
          /\ withheld' = {o \in optOuts : o.project = project}
       \/ resolving' = "failed" /\ UNCHANGED <<audience, links, withheld>>
    /\ UNCHANGED <<roster, optOuts, project, lookup, found, steadfast, rounds>>

----------------------------------------------------------------------------
(* Opt-outs.                                                               *)

(* GET with a token that verifies; a HEAD request does nothing.            *)
Unsubscribe(link) ==
    /\ link \in links
    /\ optOuts' = optOuts \cup {OptOut(link.project, Normalised(link.email))}
    /\ UNCHANGED <<roster, links, resolution, steadfast, withheld, rounds>>

DeleteOptOut(row) ==
    /\ row \in optOuts
    /\ optOuts' = optOuts \ {row}
    /\ steadfast' = steadfast \ {row}
    /\ UNCHANGED <<roster, links, resolution, withheld, rounds>>

AUNext ==
    \/ \E p \in Projects : StartResolving(p)
    \/ \E i \in Slots : AnswerLookup(i) \/ FailLookup(i)
    \/ WaitForLookups \/ ReadOptOuts
    \/ \E link \in links : Unsubscribe(link)
    \/ \E row \in optOuts : DeleteOptOut(row)

AUSpec == AUInit /\ [][AUNext]_audienceVars

----------------------------------------------------------------------------
(* Properties.                                                             *)

Mailed == {r.email : r \in audience}

(* Whoever opted out of the project before the audience was resolved, and  *)
(* was not put back by staff, is not in it, under whatever spelling a      *)
(* committee lists the address.                                            *)
OptOutsAreKept ==
    resolving = "done" =>
        \A o \in steadfast : \A a \in Mailed : a.box # o.email.box

(* An audience is whole or there is none: when one committee cannot be     *)
(* read nobody is mailed, nobody is dropped for what is recorded about     *)
(* another project, and a mailbox listed by two committees, or twice, in   *)
(* two spellings, gets one message.                                        *)
WholeAudience ==
    /\ \A r, s \in audience : r.email.box = s.email.box => r = s
    /\ resolving = "done" =>
        \A i \in Slots : \A k \in DOMAIN roster[i] :
            LET box == roster[i][k].box IN
                \/ box \in Malformed
                \/ \E a \in Mailed : a.box = box
                \/ \E o \in withheld : o.email.box = box

=============================================================================
