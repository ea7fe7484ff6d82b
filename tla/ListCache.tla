---- MODULE ListCache ----
(* The cache of mail lists in web/mail_list_cache.go, the change events of
   web/events.go and the stream of web/api_sync.go, for one user.

   A writer commits to SQLite and then calls notifyUserChanged, which raises the
   generation, starts a warmer and wakes the streams.  Requests and the warmer read
   the generation, then run several queries, then remember what they answered.
   The content of a page is the pair of database versions its two queries saw; an
   ETag is a hash of the content and stands for it. *)
EXTENDS Integers, FiniteSets, Sequences

CONSTANTS
    Writers,        \* goroutines that change mail
    Readers,        \* requests under way
    Keys,           \* list pages; AllMail is page 1 of all mail
    AllMail,
    MaxEntries,     \* mailListCacheMaxEntries
    MaxCommits,     \* bound: commits
    MaxAsks         \* bound: requests

ASSUME ListCacheAssumption == AllMail \in Keys /\ {MaxEntries, MaxCommits, MaxAsks} \subseteq Nat

VARIABLES
    committed,       \* version of the database
    writer,   \* what each writer has committed and has left of notifyUserChanged
    told,     \* the newest version that noteChanged has announced
    gen,      \* mailListCache.generations of the user
    pages,    \* mailListCache.pages
    entries,  \* mailListCache.entries
    ask,      \* requests
    asks,     \* how many requests there were
    warm,     \* the goroutine of warmAllMailFirstPageAsync
    stream,   \* apiEvents of the browser: its channel and its place
    browser   \* the generation it knows, the page it shows, the fetch under way
listVars == <<committed, writer, told, gen, pages, entries, ask, asks, warm, stream, browser>>

Empty == <<>>
NoAsk == [pc |-> "idle"]
Cold == [pc |-> "idle"]
\* A page is as old as the older of its two reads.
Covers(content, version) == content[1] >= version /\ content[2] >= version

---------------------------------------------------------------------------
(* mailListCache, each method under its mutex. *)
NoteChanged(version) ==
    /\ gen' = gen + 1
    /\ pages' = Empty
    /\ told' = IF version > told THEN version ELSE told

Evicts(map) == Cardinality(DOMAIN map) >= MaxEntries /\ DOMAIN map # {}
Without(map, key) == [k \in DOMAIN map \ {key} |-> map[k]]
With(map, key, content, generation) ==
    [k \in DOMAIN map \cup {key} |-> IF k = key THEN [etag |-> content, gen |-> generation] ELSE map[k]]
\* remember: any entry makes room, even for a key that is there; the generation is
\* not checked.
Remember(key, content, generation) ==
    \E room \in IF Evicts(entries) THEN {Without(entries, k) : k \in DOMAIN entries} ELSE {entries} :
        entries' = With(room, key, content, generation)
FreshEntry(key, etag) == key \in DOMAIN entries /\ entries[key].gen = gen /\ entries[key].etag = etag

RemembersAlways(generation) == TRUE
RemembersPage(generation) == gen = generation
RememberPage(key, content, generation) ==
    IF RemembersPage(generation)
    THEN /\ pages' = With(pages, key, content, gen)
         /\ entries' = With(entries, key, content, gen)
    ELSE UNCHANGED <<pages, entries>>
FreshPage(key) == key \in DOMAIN pages /\ pages[key].gen = gen

---------------------------------------------------------------------------
(* Writers: a commit, then notifyUserChanged in order; its push is WebPush.tla. *)
EventsFirst == <<"events", "note", "warm">>
NotifyUserChanged == <<"note", "warm", "events">>
Idles(w) == writer[w].todo = <<>>
Commit(w) ==
    /\ Idles(w) /\ committed < MaxCommits
    /\ committed' = committed + 1
    /\ writer' = [writer EXCEPT ![w] = [version |-> committed + 1, todo |-> NotifyUserChanged]]
    /\ UNCHANGED <<told, gen, pages, entries, ask, asks, warm, stream, browser>>
\* notifySyncProgress wakes the streams and nothing else.
SyncProgress(w) ==
    /\ Idles(w) /\ stream.pc = "wait" /\ ~stream.signal
    /\ writer' = [writer EXCEPT ![w].todo = <<"events">>]
    /\ UNCHANGED <<committed, told, gen, pages, entries, ask, asks, warm, stream, browser>>
Does(w, step) ==
    /\ ~Idles(w) /\ Head(writer[w].todo) = step
    /\ writer' = [writer EXCEPT ![w].todo = Tail(@)]
NoteMailListChanged(w) ==
    /\ Does(w, "note") /\ NoteChanged(writer[w].version)
    /\ UNCHANGED <<committed, entries, ask, asks, warm, stream, browser>>
\* A warmer that runs is not started again.
WarmAsync(w) ==
    /\ Does(w, "warm")
    /\ warm' = IF warm = Cold THEN [pc |-> "loop"] ELSE warm
    /\ UNCHANGED <<committed, told, gen, pages, entries, ask, asks, stream, browser>>
\* A channel holds one signal; the others are dropped.
Notify(w) ==
    /\ Does(w, "events")
    /\ stream' = IF stream.pc \in {"write", "wait"} THEN [stream EXCEPT !.signal = TRUE] ELSE stream
    /\ UNCHANGED <<committed, told, gen, pages, entries, ask, asks, warm, browser>>

---------------------------------------------------------------------------
(* The warmer: as long as the generation moves. *)
WarmBegins ==
    /\ warm.pc = "loop"
    /\ warm' = [pc |-> "list", gen |-> gen]
    /\ UNCHANGED <<committed, writer, told, gen, pages, entries, ask, asks, stream, browser>>
WarmLists ==
    /\ warm.pc = "list"
    /\ warm' = [pc |-> "views", gen |-> warm.gen, list |-> committed]
    /\ UNCHANGED <<committed, writer, told, gen, pages, entries, ask, asks, stream, browser>>
WarmRemembers ==
    /\ warm.pc = "views"
    /\ RememberPage(AllMail, <<warm.list, committed>>, warm.gen)
    /\ warm' = [pc |-> "check", gen |-> warm.gen]
    /\ UNCHANGED <<committed, writer, told, gen, ask, asks, stream, browser>>
\* An error ends the warmer as well; the flag is cleared a moment later.
WarmChecks ==
    /\ warm.pc = "check"
    /\ warm' = IF warm.gen = gen THEN [pc |-> "done"] ELSE [pc |-> "loop"]
    /\ UNCHANGED <<committed, writer, told, gen, pages, entries, ask, asks, stream, browser>>
WarmFails ==
    /\ warm.pc \in {"list", "views"} /\ warm' = [pc |-> "done"]
    /\ UNCHANGED <<committed, writer, told, gen, pages, entries, ask, asks, stream, browser>>
WarmDone ==
    /\ warm.pc = "done" /\ warm' = Cold
    /\ UNCHANGED <<committed, writer, told, gen, pages, entries, ask, asks, stream, browser>>

---------------------------------------------------------------------------
(* apiMail and apiSearch.  etag is the page the client has, due the version that
   had been announced when it asked. *)
\* What a client may have: the page that is remembered, or another one
Etags(key) == {Empty} \cup (IF key \in DOMAIN entries THEN {entries[key].etag} ELSE {})
Asks(r, key, etag) ==
    /\ ask[r].pc = "idle" /\ asks < MaxAsks
    /\ ask' = [ask EXCEPT ![r] = [pc |-> "cache", key |-> key, etag |-> etag, due |-> told]]
    /\ asks' = asks + 1
    /\ UNCHANGED <<committed, writer, told, gen, pages, entries, warm, stream, browser>>
Answers(r, content) == ask' = [ask EXCEPT ![r] = [pc |-> "answered", key |-> ask[r].key, due |-> ask[r].due, content |-> content]]
\* The page of All Mail from memory, or 304 when the entry is of this generation.
ServeCached(r) ==
    /\ ask[r].pc = "cache"
    /\ IF ask[r].key = AllMail /\ FreshPage(AllMail) THEN Answers(r, pages[AllMail].etag)
       ELSE IF FreshEntry(ask[r].key, ask[r].etag) THEN Answers(r, ask[r].etag)
       ELSE ask' = [ask EXCEPT ![r].pc = "generation"]
    /\ UNCHANGED <<committed, writer, told, gen, pages, entries, asks, warm, stream, browser>>
\* The generation is read before the queries.
ReadGeneration(r) ==
    /\ ask[r].pc = "generation"
    /\ ask' = [ask EXCEPT ![r] = [pc |-> "list", key |-> @.key, due |-> @.due, gen |-> gen]]
    /\ UNCHANGED <<committed, writer, told, gen, pages, entries, asks, warm, stream, browser>>
ListMessages(r) ==
    /\ ask[r].pc = "list"
    /\ ask' = [ask EXCEPT ![r] = [pc |-> "views", key |-> @.key, due |-> @.due, gen |-> @.gen, list |-> committed]]
    /\ UNCHANGED <<committed, writer, told, gen, pages, entries, asks, warm, stream, browser>>
AtStart(r) == ask[r].gen
\* The generation that the answer is remembered with
GenerationOf(r) == AtStart(r)
RespondRemember(r) ==
    /\ ask[r].pc = "views"
    /\ Remember(ask[r].key, <<ask[r].list, committed>>, GenerationOf(r))
    /\ Answers(r, <<ask[r].list, committed>>)
    /\ UNCHANGED <<committed, writer, told, gen, pages, asks, warm, stream, browser>>
\* A query fails, or the client has gone.
AskEnds(r) ==
    /\ ask[r].pc \in {"list", "views", "answered"}
    /\ ask' = [ask EXCEPT ![r] = NoAsk]
    /\ UNCHANGED <<committed, writer, told, gen, pages, entries, asks, warm, stream, browser>>

---------------------------------------------------------------------------
(* apiEvents and the browser, which asks for its list again when the generation
   of an event differs from the one it has. *)
\* Subscribe comes before the first event.
Subscribe == [pc |-> "write", signal |-> FALSE]
Connect ==
    /\ stream.pc = "off" /\ stream' = Subscribe
    /\ UNCHANGED <<committed, writer, told, gen, pages, entries, ask, asks, warm, browser>>
\* A failing payload or write ends the stream; the browser connects again.
Disconnect ==
    /\ stream.pc \in {"write", "wait"} /\ asks < MaxAsks
    /\ stream' = [pc |-> "off", signal |-> FALSE] /\ asks' = asks + 1
    /\ UNCHANGED <<committed, writer, told, gen, pages, entries, ask, warm, browser>>
WriteEvent ==
    /\ stream.pc = "write"
    /\ stream' = [stream EXCEPT !.pc = "wait"]
    /\ browser' = IF browser.gen = gen THEN browser ELSE [browser EXCEPT !.gen = gen, !.fetch = "list"]
    /\ UNCHANGED <<committed, writer, told, gen, pages, entries, ask, asks, warm>>
TakeSignal ==
    /\ stream.pc = "wait" /\ stream.signal
    /\ stream' = [pc |-> "write", signal |-> FALSE]
    /\ UNCHANGED <<committed, writer, told, gen, pages, entries, ask, asks, warm, browser>>
\* The browser's request as a whole: any answer apiMail could give from here on
BrowserFetches ==
    /\ browser.fetch = "list"
    /\ browser' = [browser EXCEPT !.fetch = "none",
                      !.shows = IF FreshPage(AllMail) THEN pages[AllMail].etag
                                ELSE IF FreshEntry(AllMail, @) THEN @ ELSE <<committed, committed>>]
    /\ UNCHANGED <<committed, writer, told, gen, pages, entries, ask, asks, warm, stream>>

---------------------------------------------------------------------------
\* Without a browser there are all requests, with one only what is left for its stream.
NoBrowser == asks = 0 /\ stream = [pc |-> "none", signal |-> FALSE]
OpenBrowser == asks = MaxAsks - 1 /\ stream = [pc |-> "off", signal |-> FALSE]
ListInit ==
    /\ NoBrowser \/ OpenBrowser
    /\ committed = 0 /\ told = 0 /\ gen = 0 /\ pages = Empty /\ entries = Empty
    /\ writer = [w \in Writers |-> [version |-> 0, todo |-> <<>>]]
    /\ ask = [r \in Readers |-> NoAsk] /\ warm = Cold
    /\ browser = [gen |-> 0, shows |-> <<0, 0>>, fetch |-> "none"]

WriterStep(w) == NoteMailListChanged(w) \/ WarmAsync(w) \/ Notify(w)
StreamStep == Connect \/ WriteEvent \/ TakeSignal
WarmStep == WarmBegins \/ WarmLists \/ WarmRemembers \/ WarmChecks \/ WarmDone
ListNext ==
    \/ \E w \in Writers : Commit(w) \/ SyncProgress(w) \/ WriterStep(w)
    \/ WarmStep \/ WarmFails
    \/ \E r \in Readers : \/ \E key \in Keys : \E etag \in Etags(key) : Asks(r, key, etag)
                          \/ ServeCached(r) \/ ReadGeneration(r) \/ ListMessages(r) \/ RespondRemember(r) \/ AskEnds(r)
    \/ StreamStep \/ Disconnect \/ BrowserFetches
\* Goroutines run and the browser reconnects.
ListFairness ==
    /\ \A w \in Writers : WF_listVars(WriterStep(w))
    /\ WF_listVars(StreamStep) /\ WF_listVars(BrowserFetches)
ListSpec == ListInit /\ [][ListNext]_listVars /\ ListFairness

---------------------------------------------------------------------------
(* An answer is never older than the changes that had been announced when the
   request came in: neither a page from memory nor a 304, whatever queries and
   warmers were under way while the mail changed (mail_list_cache.go:111,
   api_mail.go:46). *)
AnswersFresh ==
    \A r \in Readers : ask[r].pc = "answered" => Covers(ask[r].content, ask[r].due)

(* A browser with an open page shows every change in the end, although the channel
   of its stream drops signals and the stream breaks off: the signal is taken before
   the generation is read, and the generation moves before the signal
   (events.go:40 and 50, api_sync.go:54). *)
BrowserCatchesUp == stream.pc # "none" ~> Covers(browser.shows, told)
====
