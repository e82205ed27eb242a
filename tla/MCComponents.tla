---------------------------- MODULE MCComponents ----------------------------
(***************************************************************************)
(* The components that meet only through the row of a newsletter, each on  *)
(* an instance of its own: "part" is the one that runs, the others stand   *)
(* still at one of their initial states.                                   *)
(***************************************************************************)
EXTENDS ScheduleTiming, Audience, Letters, Analytics, Listing, Api, Renderer

CONSTANT Components

VARIABLE part

Spelled(box, spelling) == [box |-> box, spelling |-> spelling]

MCCommittees == <<"c1", "c2">>

MCRosters == {<<>>, <<Spelled("a", "plain")>>,
              <<Spelled("a", "shouted"), Spelled("b", "plain")>>,
              <<Spelled("b", "shouted"), Spelled("x", "plain"), Spelled("a", "plain")>>}

MCDeployments ==
    {[unsub |-> FALSE, archive |-> TRUE, library |-> [k1 |-> [a |-> "fits", b |-> "missing"]]],
     [unsub |-> TRUE, archive |-> TRUE,
      library |-> [k1 |-> [a |-> "fits", b |-> "fits"], k2 |-> [a |-> "fits", b |-> "bulky"]]],
     [unsub |-> TRUE, archive |-> FALSE, library |-> [k1 |-> [a |-> "fits", b |-> "bulky"]]]}

MCMembers == [c1 |-> {"a"}]

Mailing(status, provider, home, group, recorded) ==
    [status |-> status, provider |-> provider, home |-> home, group |-> group,
     audience |-> IF group THEN {"a", "b"} ELSE {}, recorded |-> recorded]

MCMailingRows ==
    {Mailing("sent", "", "email-service", TRUE, {"a", "b"}),
     Mailing("sent", "sendgrid", "sendgrid", TRUE, {"a"}),
     Mailing("sending", "sendgrid", "sendgrid", TRUE, {"a", "b"}),
     Mailing("sent", "sendgrid", "sendgrid", FALSE, {})}

MCFirstRows ==
    {[ours |-> TRUE, member |-> TRUE, status |-> status, updated |-> 1, sent |-> 1] :
        status \in {"draft", "sent"}}
    \cup {[ours |-> TRUE, member |-> FALSE, status |-> "sending", updated |-> 2, sent |-> 1]}

Filled(has, items) == [has |-> has, items |-> items]

Block(type, content) ==
    [type |-> type, content |-> content, blocks |-> <<>>, spaced |-> FALSE]

Blank == Filled({}, <<>>)
Item  == Filled({"source"}, <<>>)

Bricks(n) == [i \in 1..n |-> Block("blog_post", Filled({"title", "link"}, <<>>))]

MCBlocks ==
    {Block("hot_take", Filled(has, <<>>)) :
        has \in {{"title"}, {"poll"}, {"poll", "second"}}}
    \cup {Block("share_the_signal", Filled(has, <<>>)) : has \in {{}, {"title"}}}
    \cup {Block("by_the_numbers", Filled({}, items)) :
             items \in {<<>>, <<Item>>, <<Item, Item>>}}
    \cup {Block("spec_watch", Filled({"title"}, <<Item>>)),
          Block("next_up", Filled({"subtitle"}, <<>>)), Block("next_up", Filled({"cta"}, <<>>)),
          Block("hidden_gems", Filled({}, <<Item, Item>>)),
          Block("sponsored_ad", Filled({"image", "cta"}, <<>>)),
          Block("hit_reply", Filled({"note"}, <<>>)),
          Block("intro_paragraph", Filled({"plain"}, <<>>)),
          Block("agentic_picks", Filled({"items", "standfirst"}, <<Item, Blank>>)),
          Block("retired", Blank)}
    \cup {[Block("mlops_community", Blank) EXCEPT !.blocks = Bricks(n)] : n \in {0, 2, 4}}
    \cup {[Block("mlops_community", Blank) EXCEPT
             !.blocks = <<[Block("mlops_community", Blank) EXCEPT !.blocks = Bricks(1)]>>]}

MCEditions ==
    LET Spaced == {[b EXCEPT !.spaced = TRUE] : b \in MCBlocks}
    IN  {<<>>} \cup {<<b>> : b \in Spaced} \cup {<<b, c>> : b \in MCBlocks, c \in MCBlocks}

MCEditionFields == {{}, {"date", "sender", "unsubscribe"}}

Pinned(name, atFirst) == part = name \/ atFirst

Init ==
    /\ part \in Components
    /\ STInit
    /\ AUInit
    /\ Pinned("audience", /\ roster = CHOOSE r \in [Slots -> Rosters] : TRUE
                          /\ project = CHOOSE p \in Projects : TRUE)
    /\ LEInit
    /\ Pinned("letters", /\ deployment = CHOOSE d \in [Pods -> Deployments] : TRUE
                         /\ savedBy = CHOOSE d \in Deployments : TRUE)
    /\ ANInit
    /\ Pinned("analytics", mailing = CHOOSE m \in [Mailings -> Rows] : TRUE)
    /\ LIInit
    /\ Pinned("listing", rows = CHOOSE r \in [Ids -> FirstRows] : TRUE)
    /\ APInit
    /\ Pinned("api", stored = Unsaved)
    /\ REInit

Running(name, step, others) == part = name /\ step /\ UNCHANGED <<part, others>>

Next ==
    \/ Running("timing", STNext,
               <<audienceVars, lettersVars, analyticsVars, listingVars,
                 apiVars, rendererVars>>)
    \/ Running("audience", AUNext,
               <<timingVars, lettersVars, analyticsVars, listingVars,
                 apiVars, rendererVars>>)
    \/ Running("letters", LENext,
               <<timingVars, audienceVars, analyticsVars, listingVars,
                 apiVars, rendererVars>>)
    \/ Running("analytics", ANNext,
               <<timingVars, audienceVars, lettersVars, listingVars,
                 apiVars, rendererVars>>)
    \/ Running("listing", LINext,
               <<timingVars, audienceVars, lettersVars, analyticsVars,
                 apiVars, rendererVars>>)
    \/ Running("api", APNext,
               <<timingVars, audienceVars, lettersVars, analyticsVars,
                 listingVars, rendererVars>>)
    \/ Running("renderer", RENext,
               <<timingVars, audienceVars, lettersVars, analyticsVars,
                 listingVars, apiVars>>)

Spec == Init /\ [][Next]_<<part, timingVars, audienceVars, lettersVars, analyticsVars,
                           listingVars, apiVars, rendererVars>>

(* The state of every component is of the shape its module declares.       *)
TypesOK ==
    /\ STTypeOK /\ AUTypeOK /\ LETypeOK /\ ANTypeOK
    /\ LITypeOK /\ APTypeOK /\ RETypeOK
=============================================================================
