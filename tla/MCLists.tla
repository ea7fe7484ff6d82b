---- MODULE MCLists ----
(* The index, the mail lists and the conversations that are read from the store, in
   one run: each initial state belongs to one of the components and the others
   stand still. *)
EXTENDS Indexing, ListCache, Conversations
VARIABLE part
vars == <<part, indexVars, listVars, convVars>>

\* Copies of one message, a reply, messages without a Message-ID, with and without a
\* subject, from other people; some of them have no thread key yet.
Msg(own, refs, subject, people, date, read, star, listed, keyed) ==
    [own |-> own, refs |-> refs, subject |-> subject, people |-> people, date |-> date,
     read |-> read, star |-> star, listed |-> listed, keyed |-> keyed]
MCShapes == {
    Msg("a", "", "s", {"p"}, 1, TRUE, TRUE, TRUE, TRUE),
    Msg("a", "", "s", {"p"}, 1, FALSE, FALSE, FALSE, TRUE),
    Msg("b", "a", "s", {"q"}, 2, FALSE, FALSE, TRUE, FALSE),
    Msg("", "", "s", {"p"}, 2, TRUE, FALSE, TRUE, FALSE),
    Msg("", "", "", {"p"}, 3, TRUE, FALSE, TRUE, FALSE),
    Msg("", "", "s", {"q"}, 2, TRUE, TRUE, TRUE, TRUE),
    Msg("c", "", "t", {"p"}, 3, TRUE, FALSE, TRUE, TRUE)}
\* Conversations at rest: one message with its key, nobody asks.
ConvIdle ==
    /\ msgs = [i \in Ids |-> [own |-> "x", refs |-> "", subject |-> "", people |-> {}, date |-> 1,
                              read |-> TRUE, star |-> FALSE, listed |-> TRUE, thread |-> <<"x">>]]
    /\ snooze = <<>> /\ query = [kind |-> "list"] /\ found = <<>> /\ page = -1 /\ shown = {} /\ more = TRUE

Init ==
    /\ part \in {"indexing", "list", "conv"}
    /\ IndexingInit /\ ListInit
    /\ part # "indexing" => unmarked = {} /\ hydrate
    /\ part # "list" => NoBrowser
    /\ IF part = "conv" THEN ConvInit ELSE ConvIdle
Next == \/ part = "indexing" /\ IndexingNext /\ UNCHANGED <<part, listVars, convVars>>
        \/ part = "list" /\ ListNext /\ UNCHANGED <<part, indexVars, convVars>>
        \/ part = "conv" /\ ConvNext /\ UNCHANGED <<part, indexVars, listVars>>
\* The fairness of each component, when that component runs.
Fairness ==
    /\ WF_indexVars(part = "indexing" /\ WorkerStep) /\ WF_indexVars(part = "indexing" /\ TaskStep)
    /\ WF_indexVars(part = "indexing" /\ AlarmRings) /\ WF_indexVars(part = "indexing" /\ TimePasses)
    /\ SF_indexVars(part = "indexing" /\ TaskStarts("sync"))
    /\ \A w \in Writers : WF_listVars(part = "list" /\ WriterStep(w))
    /\ WF_listVars(part = "list" /\ StreamStep) /\ WF_listVars(part = "list" /\ BrowserFetches)
    /\ WF_convVars(part = "conv" /\ BackfillThreadKeys)
Spec == Init /\ [][Next]_vars /\ Fairness

\* What goes on as long as the process runs: enrichment, browsers and the backfill catch up.
ListsProgress == EnrichmentEnds /\ BrowserCatchesUp /\ BackfillEnds
====
