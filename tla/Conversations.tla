---- MODULE Conversations ----
(* How messages become the conversations of a list: thread keys (store/thread.go,
   thread_backfill.go), one row for each thread (store/message_lists.go), search hits
   (web/conversations.go) and the pages of apiMail and apiSearch.

   A process starts on rows of which some have no thread key yet, backfills them,
   and then a client reads page after page while has_next says so.  Headers are the
   ids they name, subjects are normalised, people are identities. *)
EXTENDS Integers, FiniteSets, Sequences, SequencesExt

CONSTANTS
    Rows,        \* the messages: 1..Rows
    Shapes,      \* the messages that can be stored, with the field keyed
    Until,       \* threads may be snoozed until these times
    Now,
    PageSize,
    Limit        \* rows of one call of BackfillThreadKeys

ASSUME ConversationsAssumption == {Rows, Now, PageSize, Limit} \subseteq Nat \ {0}

VARIABLES
    msgs,     \* the rows, with their thread_key
    snooze,   \* message_snoozes: thread group -> snoozed_until
    query,    \* what the client reads: the list, or a search with its hits and filter
    found,    \* the rows or hits in order, the first of every thread or conversation
    page,     \* the page that is read next; 0 while the process starts, -1 when it serves
    shown,    \* conversations shown so far
    more      \* has_next of the last page, or the backfill goes on
convVars == <<msgs, snooze, query, found, page, shown, more>>

Ids == 1..Rows
NoKey == <<>>

---------------------------------------------------------------------------
(* Keys. *)
\* ThreadKey: the first id of References, In-Reply-To or Message-Id, or the subject
ThreadKey(m) ==
    IF m.refs # "" THEN <<"msgid", m.refs>>
    ELSE IF m.own # "" THEN <<"msgid", m.own>>
    ELSE IF m.subject # "" THEN <<"subject", m.subject>>
    ELSE NoKey
\* SnoozeThreadKey, and COALESCE(NULLIF(thread_key, ''), 'id:' || id) in the queries
ThreadGroup(i) == IF msgs[i].thread = NoKey THEN <<"id", i>> ELSE msgs[i].thread
Thread(i) == IF msgs[i].thread = NoKey THEN {i} ELSE {j \in Ids : msgs[j].thread = msgs[i].thread}
\* reliableMessageIDThreadKey
ReliableKey(i) == LET key == IF msgs[i].thread = NoKey THEN ThreadKey(msgs[i]) ELSE msgs[i].thread
                  IN  IF key # NoKey /\ key[1] = "msgid" THEN key ELSE NoKey
FirstOf(ids) == CHOOSE i \in ids : \A j \in ids : msgs[i].date < msgs[j].date \/ (msgs[i].date = msgs[j].date /\ i <= j)
\* conversationListKey; msgs[i].people are From, To and Cc with "me" for own addresses.
ConversationListKey(ids) ==
    LET first == FirstOf(ids)
        subjects == {msgs[i].subject : i \in ids} \ {""}
    IN  IF ReliableKey(first) # NoKey /\ \A i \in ids : ReliableKey(i) = ReliableKey(first) THEN ReliableKey(first)
        ELSE IF subjects = {} THEN ThreadGroup(first)
        ELSE <<"subject", CHOOSE s \in subjects : TRUE, UNION {msgs[i].people : i \in ids}>>

ActivelySnoozed(i) == ThreadGroup(i) \in DOMAIN snooze /\ snooze[ThreadGroup(i)] > Now
Due == {i \in Ids : ThreadGroup(i) \in DOMAIN snooze /\ snooze[ThreadGroup(i)] <= Now}

---------------------------------------------------------------------------
(* Grouping: conversationViewsFromSeeds.  A conversation is the set of the messages
   of the threads that share a key, at the place of its first seed. *)
GroupSeeds(seeds) ==
    LET Key(n) == ConversationListKey(Thread(seeds[n]))
        FirstOfKey(n) == \A m \in 1..(n - 1) : Key(m) # Key(n)
        firsts == SelectSeq([n \in DOMAIN seeds |-> n], FirstOfKey)
    IN  [k \in DOMAIN firsts |-> UNION {Thread(seeds[n]) : n \in {m \in DOMAIN seeds : Key(m) = Key(firsts[k])}}]

\* summarizeConversation: copies of one message are one message.
Newer(a, b) == msgs[a].date > msgs[b].date \/ (msgs[a].date = msgs[b].date /\ a > b)
Identity(i) == IF msgs[i].own # "" THEN <<"message-id", msgs[i].own>> ELSE <<"local", i>>
\* The newer copy stands for both, unless only the older one has the star.
MergeCopies(old, i) ==
    LET newest == IF Newer(i, old.id) THEN i ELSE old.id
        star == old.star \/ msgs[i].star
    IN  [id |-> IF star /\ ~msgs[newest].star THEN (IF msgs[old.id].star THEN old.id ELSE i) ELSE newest,
         read |-> old.read /\ msgs[i].read, star |-> star]
DedupeMessages(ids) ==
    LET Merged[n \in 0..Len(ids)] ==
            IF n = 0 THEN <<>>
            ELSE LET i == ids[n]
                     out == Merged[n - 1]
                     at == SelectInSeq(out, LAMBDA m : Identity(m.id) = Identity(i))
                 IN  IF at # 0 THEN [out EXCEPT ![at] = MergeCopies(@, i)]
                     ELSE Append(out, [id |-> i, read |-> msgs[i].read, star |-> msgs[i].star])
    IN  Merged[Len(ids)]
Older(a, b) == Newer(b, a)
Summary(ids) ==
    LET thread == ToSet(DedupeMessages(SetToSortSeq(ids, Older)))
        NewestOf(ms) == CHOOSE m \in ms : \A n \in ms : ~Newer(n.id, m.id)
        stars == {m \in thread : m.star}
    IN  [message |-> NewestOf(thread).id, count |-> Cardinality(thread),
         read |-> \A m \in thread : m.read, star |-> stars # {},
         target |-> IF stars = {} THEN NewestOf(thread).id ELSE NewestOf(stars).id]

---------------------------------------------------------------------------
(* apiMail: ListLatestThreadMessagesForUser and one page of it. *)
\* A due snooze lifts its thread to the time it was snoozed until.
SortDate(i) == LET until == IF ThreadGroup(i) \in DOMAIN snooze THEN snooze[ThreadGroup(i)] ELSE 0
               IN  IF until > msgs[i].date THEN until ELSE msgs[i].date
Above(a, b) == SortDate(a) > SortDate(b) \/ (SortDate(a) = SortDate(b) /\ a > b)
ListedRows ==
    LET visible == {i \in Ids : msgs[i].listed /\ ~ActivelySnoozed(i)}
    IN  SetToSortSeq({i \in visible : \A j \in visible : ThreadGroup(j) = ThreadGroup(i) => ~Above(j, i)}, Above)
\* LIMIT and OFFSET
Window(seq, limit, offset) == SubSeq(seq, offset + 1, IF offset + limit < Len(seq) THEN offset + limit ELSE Len(seq))
FetchPage == PageSize
FetchLimit == PageSize * 3 + 1
MailPage(p) == GroupSeeds(Window(found, FetchLimit, (p - 1) * PageSize))

---------------------------------------------------------------------------
(* apiSearch: searchConversationSeedHits. *)
\* is:starred and in:mailbox
Passes(i) == (query.starred => msgs[i].star) /\ (query.inbox => msgs[i].listed)
SeedKey(i) == ConversationListKey({i})
\* dueSearchConversationSeeds: a thread that has just come back is looked at first;
\* ExplainMessagesWithOptions names its best match.
DueSeeds ==
    LET candidates == {i \in Due : Passes(i) /\ i \in ToSet(query.hits)}
        first == {i \in candidates : \A j \in candidates : ThreadGroup(j) = ThreadGroup(i) => i <= j}
    IN  SetToSortSeq(first, LAMBDA a, b : snooze[ThreadGroup(a)] > snooze[ThreadGroup(b)]
                                          \/ (snooze[ThreadGroup(a)] = snooze[ThreadGroup(b)] /\ a > b))
\* The first of every conversation; batches of hits are read until the page is full.
FirstSeeds(candidates) ==
    LET FirstSeed(n) == \A m \in 1..(n - 1) : SeedKey(candidates[m]) # SeedKey(candidates[n])
        firsts == SelectSeq([n \in DOMAIN candidates |-> n], FirstSeed)
    IN  [k \in DOMAIN firsts |-> candidates[firsts[k]]]
SeedHit(i) == ~ActivelySnoozed(i) /\ Passes(i)
UniqueSeeds == FirstSeeds(DueSeeds \o SelectSeq(query.hits, SeedHit))
\* One more than a page, to know whether there is another
SeedsWanted == PageSize + 1
SearchSeeds(p) == Window(found, SeedsWanted, (p - 1) * PageSize)
SearchPage(p) == GroupSeeds(SearchSeeds(p))

---------------------------------------------------------------------------
(* The process starts: rows that have no key get one, Limit of them in a call,
   until a call finds fewer. *)
Pending == LET without == {i \in Ids : msgs[i].thread = NoKey}
           IN  {i \in without : Cardinality({j \in without : j < i}) < Limit}
GoesOn(n) == n >= Limit
BackfillThreadKeys ==
    /\ page = 0 /\ more
    /\ msgs' = [i \in Ids |-> IF i \in Pending THEN [msgs[i] EXCEPT !.thread = ThreadKey(msgs[i])] ELSE msgs[i]]
    /\ more' = GoesOn(Cardinality(Pending))
    /\ UNCHANGED <<snooze, query, found, page, shown>>
Snoozes ==
    /\ page = 0 /\ ~more
    /\ \E snoozed \in {{}} \cup {{ThreadGroup(i)} : i \in Ids} : snooze' \in [snoozed -> Until]
    /\ page' = -1
    /\ UNCHANGED <<msgs, query, found, shown, more>>
\* Every page finds the same while the mail stays as it is.
Finds ==
    /\ page = -1 /\ page' = 1 /\ more' = TRUE
    /\ found' = IF query.kind = "list" THEN ListedRows ELSE UniqueSeeds
    /\ UNCHANGED <<msgs, snooze, query, shown>>
Shows(conversations) ==
    LET kept == Window(conversations, PageSize, 0)
    IN  /\ shown' = shown \cup ToSet(kept)
        /\ more' = (Len(conversations) > PageSize)
        /\ page' = page + 1
        /\ UNCHANGED <<msgs, snooze, query, found>>
ApiMail == page > 0 /\ more /\ query.kind = "list" /\ \E conversations \in {MailPage(page)} : Shows(conversations)
ApiSearch == page > 0 /\ more /\ query.kind = "search" /\ \E conversations \in {SearchPage(page)} : Shows(conversations)

---------------------------------------------------------------------------
AscendingHits(ids) == SetToSortSeq(ids, <)
Queries ==
    {[kind |-> "list"]}
    \cup {[kind |-> "search", hits |-> AscendingHits(ids), starred |-> s, inbox |-> b] : ids \in SUBSET Ids, s \in BOOLEAN, b \in BOOLEAN}
ConvInit ==
    /\ msgs \in {[i \in Ids |-> [own |-> f[i].own, refs |-> f[i].refs, subject |-> f[i].subject, people |-> f[i].people,
                                 date |-> f[i].date, read |-> f[i].read, star |-> f[i].star, listed |-> f[i].listed,
                                 thread |-> IF f[i].keyed THEN ThreadKey(f[i]) ELSE NoKey]] : f \in [Ids -> Shapes]}
    /\ snooze = <<>> /\ query \in Queries /\ found = <<>> /\ page = 0 /\ shown = {} /\ more = TRUE
ConvNext == BackfillThreadKeys \/ Snoozes \/ Finds \/ ApiMail \/ ApiSearch
\* The loop of the start of the process goes on.
ConvSpec == ConvInit /\ [][ConvNext]_convVars /\ WF_convVars(BackfillThreadKeys)

---------------------------------------------------------------------------
Ended == page > 1 /\ ~more
(* A client that follows has_next sees the conversation of every message that is
   listed, although rows, threads and conversations are counted differently
   (web/api_mail.go:16 and 62). *)
ListReachesAll ==
    Ended /\ query.kind = "list" =>
        \A i \in Ids : msgs[i].listed /\ ~ActivelySnoozed(i) => \E ids \in shown : i \in ids

\* Messages of one thread that would be different conversations on their own
SplitSubjects == \E i, j \in Ids : ThreadGroup(i) = ThreadGroup(j) /\ SeedKey(i) # SeedKey(j)
(* The same for a search: every hit that passes the filters is reached, also when
   another message of its conversation was a hit that did not pass, and also
   when it is the last of a page, unless a thread without message ids has changing people
   (conversations.go:224 and 244). *)
SearchReachesAll ==
    Ended /\ query.kind = "search" /\ ~SplitSubjects =>
        \A i \in ToSet(query.hits) : Passes(i) /\ ~ActivelySnoozed(i) => \E ids \in shown : i \in ids

(* What a conversation says is true of its messages, with the copies of a message
   in several mailboxes merged: it is unread when any copy is, it has a star when any
   copy has, and the star it offers to remove is one that is there
   (conversations.go:329 and 546). *)
SummaryTrue ==
    \A ids \in shown :
        LET view == Summary(ids)
        IN  /\ view.read = \A i \in ids : msgs[i].read
            /\ view.star = \E i \in ids : msgs[i].star
            /\ view.target \in ids /\ (view.star => msgs[view.target].star)

(* A conversation that is snoozed is on no page: the messages of a thread are hidden
   or shown together, whichever of them was found (snoozes.go:281). *)
SnoozedHidden == \A ids \in shown : \A i \in ids : ~ActivelySnoozed(i)

(* What a client that reads the pages of a list or a search can rely on. *)
PagesSafe == ListReachesAll /\ SearchReachesAll /\ SummaryTrue /\ SnoozedHidden

(* The start of the process gets past the backfill, although rows that can have no
   key are found by every call; it does so only while there are fewer of them than
   one call reads (cmd/rolltop/main.go:434). *)
Unkeyable == {i \in Ids : msgs[i].thread = NoKey /\ ThreadKey(msgs[i]) = NoKey}
BackfillEnds == (Cardinality(Unkeyable) < Limit /\ page = 0) ~> ~(page = 0 /\ more)
====
