---- MODULE Identities ----
(* The address book and the sender identities built from it: store/contacts.go,
   store/account_settings.go, the settings handlers of web/api_account.go and
   web/api_contacts.go and the choices of compose (web/compose.go).

   An address of a Me contact is an identity with its own SMTP server, IMAP server,
   Sent and Drafts folders and signature.  The rows are not kept in one transaction
   with the contacts: every load of the identities synchronises them, statement by
   statement, beside other requests.  A request is the list of the SQL statements and
   cache accesses it has still to make; each of them is one step, and a cancelled
   context ends the list anywhere.  Names, phones, icons and the rest of a card are
   left out; the Sent and the Drafts folder of a server are treated alike and are
   called the folder. *)
EXTENDS Integers, FiniteSets, Sequences, SequencesExt

CONSTANTS
    Jobs,       \* requests in flight
    Addresses,
    Home,       \* Addresses -> the IMAP server that has this address as login, or 0
    Servers,    \* ids of IMAP servers
    Relays,     \* ids of SMTP servers
    Cards,      \* contacts as a client sends them: [id, me, primary, emails]
    Wishes,     \* the servers and the primary flag a client sends for an identity
    MaxEmails,  \* addresses of a contact
    MaxEdits    \* requests of a behaviour, before a last load when they are through

ASSUME IdentitiesAssumption ==
    /\ MaxEdits \in Nat /\ Servers \subseteq Nat \ {0} /\ Relays \subseteq Nat \ {0}
    /\ Home \in [Addresses -> Servers \cup {0}]
    /\ \A card \in Cards :
           card \in [id : {0}, me : BOOLEAN, primary : BOOLEAN, emails : Seq([addr : Addresses, primary : BOOLEAN])]
    /\ Wishes \subseteq [relay : Relays \cup {0}, server : Servers \cup {0}, primary : BOOLEAN]

VARIABLES
    book,     \* contacts: id -> [me, primary, emails], emails with the ids of contact_emails
    idents,   \* mail_identities, by contact_email_id
    imaps,    \* mail_accounts
    smtps,    \* smtp_accounts
    choices,  \* composeIdentityCache: the identities it holds, NotCached without an entry
    errand,   \* the requests
    lastRow,  \* AUTOINCREMENT
    edits,    \* requests begun
    cut       \* a request ended between two of its statements
identVars == <<book, idents, imaps, smtps, choices, errand, lastRow, edits, cut>>

NoChoice(email) == {[email |-> email, row |-> 0, addr |-> "", primary |-> TRUE]}
NotCached == NoChoice(-1)
Fallback == NoChoice(0)   \* the first account, or the login of the user
NoCard == [id |-> 0, me |-> FALSE, primary |-> FALSE, emails |-> <<>>]
NoWish == [email |-> 0, row |-> 0, addr |-> "", server |-> 0, folder |-> 0, relay |-> 0, primary |-> FALSE]
NoErrand == [steps |-> <<>>, in |-> NoWish, card |-> NoCard, n |-> FALSE, relay |-> 0, todo |-> <<>>, mails |-> <<>>,
            pick |-> 0, list |-> NotCached, alone |-> FALSE]
Quiet == \A r \in Jobs : errand[r].steps = <<>>
MinId(ids) == CHOOSE i \in ids : \A j \in ids : i <= j
Place(ids, i) == Cardinality({j \in ids : j <= i})
ById(ids) == [n \in 1..Cardinality(ids) |-> CHOOSE i \in ids : Place(ids, i) = n]
MeContacts == {c \in DOMAIN book : book[c].me}
EmailIds(c) == {book[c].emails[i].id : i \in DOMAIN book[c].emails}
LiveEmails == UNION {EmailIds(c) : c \in DOMAIN book}
MeEmails == UNION {EmailIds(c) : c \in MeContacts}
Keeping(f, ids) == [i \in DOMAIN f \cap ids |-> f[i]]

---------------------------------------------------------------------------
(* Requests. *)
PruneFirst == <<"prune", "listMe", "countIdentity", "firstIdentity", "readIdentities">>
\* SyncMailIdentitiesForMeContacts, continued by the statements its lists ask for
Sync == <<"listMe", "prune", "countIdentity", "firstIdentity", "readIdentities">>
EnsureContact == <<"countMe", "firstMe">>
\* EnsureMeContactForEmail
EnsureMe == <<"hasMe", "findContact">>
\* UpdateMailIdentityForUser
UpdateIdentity == <<"check", "saveIdentity">> \o EnsureContact \o <<"countIdentity", "firstIdentity">>

\* requests do not differ: the first that is free serves
Begins(r, most, steps, in, card) ==
    /\ r = CHOOSE q \in Jobs : errand[q].steps = <<>> \/ \A o \in Jobs : errand[o].steps # <<>>
    /\ errand[r].steps = <<>> /\ edits < most
    /\ edits' = edits + 1
    /\ errand' = [q \in Jobs |-> IF q = r
                              THEN [NoErrand EXCEPT !.steps = steps, !.in = in, !.card = card,
                                                   !.alone = \A o \in Jobs : errand[o].steps = <<>>]
                              ELSE [errand[q] EXCEPT !.alone = FALSE]]
    /\ UNCHANGED <<book, idents, imaps, smtps, choices, lastRow, cut>>
Begin(r, steps, in, card) == Begins(r, MaxEdits, steps, in, card)

\* apiContacts, and apiContact with PUT and DELETE; an imported card and a sender are saved like these
ApiContacts(r) == \E card \in Cards : Begin(r, <<"insertContact">> \o EnsureContact \o <<"clear">>, NoWish, card)
ApiContactPut(r) ==
    \E c \in DOMAIN book, card \in Cards :
        Begin(r, <<"updateContact">> \o EnsureContact \o <<"clear">>, NoWish, [card EXCEPT !.id = c])
ApiContactDelete(r) ==
    \E c \in DOMAIN book :
        Begin(r, <<"deleteContact">> \o EnsureContact \o <<"clear">>, NoWish, [NoCard EXCEPT !.id = c])
\* apiIMAPAccount with ensureMailAccountOnboarding
ApiIMAPAccount(r) ==
    \E a \in Addresses :
        /\ Home[a] # 0
        /\ Begin(r, <<"saveServer", "listRelays", "addRelay">> \o EnsureMe \o <<"readIdentities", "clear">>,
                 [NoWish EXCEPT !.addr = a, !.server = Home[a]], NoCard)
\* the maintenance job of apiDeleteIMAPAccount, after the mail is purged
ApiDeleteIMAPAccount(r) ==
    \E s \in imaps : Begin(r, <<"clearRefs", "dropServer", "clear">>, [NoWish EXCEPT !.server = s], NoCard)
ApiDeleteSMTPAccount(r) == \E s \in smtps : Begin(r, <<"dropRelay", "clear">>, [NoWish EXCEPT !.relay = s], NoCard)
\* apiMailIdentity: an identity that exists, or a new address
ApiMailIdentity(r) ==
    \E w \in Wishes :
        LET wish == [NoWish EXCEPT !.relay = w.relay, !.server = w.server, !.folder = w.server, !.primary = w.primary]
        IN  \/ \E e \in DOMAIN idents :
                   Begin(r, UpdateIdentity \o <<"clear">> \o Sync, [wish EXCEPT !.email = e, !.row = idents[e].row], NoCard)
            \/ \E a \in Addresses :
                   Begin(r, EnsureMe \o Sync \o <<"chooseIdentity">> \o UpdateIdentity \o <<"clear">> \o Sync,
                         [wish EXCEPT !.addr = a], NoCard)
\* composeIdentityChoices, and forwardIdentity that asks the store for the list
ComposeIdentityChoices(r) == Begin(r, <<"cached">> \o Sync \o <<"list", "remember">>, NoWish, NoCard)
ForwardIdentity(r) == Begins(r, IF Quiet THEN MaxEdits + 1 ELSE MaxEdits, Sync \o <<"list">>, NoWish, NoCard)

\* the statement that is next, and the request after it
Turn(r, s) == errand[r].steps # <<>> /\ Head(errand[r].steps) = s
Later(r) == Tail(errand[r].steps)
Becomes(r, new) ==
    errand' = [q \in Jobs |-> IF q # r THEN [errand[q] EXCEPT !.alone = FALSE]
                           ELSE IF new.steps = <<>> THEN [NoErrand EXCEPT !.list = new.list, !.alone = new.alone] ELSE new]
On(r) == Becomes(r, [errand[r] EXCEPT !.steps = Later(r)])
\* An error of a statement ends the request; compose goes on with fallbackComposeIdentity.
Composes(r) == "remember" \in Range(errand[r].steps)
Fails(r) == Becomes(r, IF Composes(r) THEN [errand[r] EXCEPT !.steps = <<"remember">>, !.list = Fallback, !.alone = FALSE]
                       ELSE [errand[r] EXCEPT !.steps = <<>>, !.alone = FALSE])
Cancelled(r) ==
    /\ errand[r].steps \notin {<<>>, <<"remember">>} /\ ~cut
    /\ cut' = TRUE /\ Fails(r)
    /\ UNCHANGED <<book, idents, imaps, smtps, choices, lastRow, edits>>

---------------------------------------------------------------------------
(* Contacts. *)
\* replaceContactChildren: the addresses of a card become new lastRow, the first of them primary
NewEmails(emails) == [i \in DOMAIN emails |-> [id |-> lastRow + i, addr |-> emails[i].addr, primary |-> emails[i].primary \/ i = 1]]
Contact(card) == [me |-> card.me, primary |-> card.primary, emails |-> NewEmails(card.emails)]
\* the only primary Me contact is the one that is saved as such
Sole(c, contacts) ==
    IF contacts[c].me /\ contacts[c].primary
    THEN [d \in DOMAIN contacts |-> [contacts[d] EXCEPT !.primary = @ /\ (d = c \/ ~contacts[d].me)]]
    ELSE contacts
\* foreign keys: an identity goes with its contact_email
Cascade(contacts) == [e \in DOMAIN idents \cap UNION {{contacts[c].emails[i].id : i \in DOMAIN contacts[c].emails} : c \in DOMAIN contacts} |-> idents[e]]

InsertContact(r) ==
    /\ Turn(r, "insertContact")
    /\ LET c == lastRow + Len(errand[r].card.emails) + 1
       IN  /\ book' = Sole(c, (c :> Contact(errand[r].card)) @@ book)
           /\ lastRow' = c
    /\ On(r)
    /\ UNCHANGED <<idents, imaps, smtps, choices, edits, cut>>
UpdateContact(r) ==
    /\ Turn(r, "updateContact")
    /\ LET c == errand[r].card.id
       IN  IF c \notin DOMAIN book THEN Fails(r) /\ UNCHANGED <<book, idents, lastRow>>
           ELSE /\ book' = Sole(c, [book EXCEPT ![c] = Contact(errand[r].card)])
                /\ idents' = Cascade(book')
                /\ lastRow' = lastRow + Len(errand[r].card.emails)
                /\ On(r)
    /\ UNCHANGED <<imaps, smtps, choices, edits, cut>>
DeleteContactForUser(r) ==
    /\ Turn(r, "deleteContact")
    /\ LET c == errand[r].card.id
       IN  IF c \notin DOMAIN book THEN Fails(r) /\ UNCHANGED <<book, idents>>
           ELSE book' = Keeping(book, DOMAIN book \ {c}) /\ idents' = Cascade(book') /\ On(r)
    /\ UNCHANGED <<imaps, smtps, choices, lastRow, edits, cut>>
\* ensurePrimaryMeContact: the count, then the update
CountMe(r) ==
    /\ Turn(r, "countMe")
    /\ Becomes(r, [errand[r] EXCEPT !.steps = Later(r), !.n = \E c \in MeContacts : book[c].primary])
    /\ UNCHANGED <<book, idents, imaps, smtps, choices, lastRow, edits, cut>>
FirstMe(r) ==
    /\ Turn(r, "firstMe") /\ On(r)
    /\ book' = IF errand[r].n \/ MeContacts = {} THEN book ELSE [book EXCEPT ![MinId(MeContacts)].primary = TRUE]
    /\ UNCHANGED <<idents, imaps, smtps, choices, lastRow, edits, cut>>

\* EnsureMeContactForEmail: a Me contact exists; the contact of the address is updated or created
HasMe(r) ==
    /\ Turn(r, "hasMe")
    /\ Becomes(r, [errand[r] EXCEPT !.steps = Later(r), !.n = MeContacts # {}])
    /\ UNCHANGED <<book, idents, imaps, smtps, choices, lastRow, edits, cut>>
\* GetContactByEmailForUser: the contact of the oldest row with this address
Holding(a) == {x \in (DOMAIN book) \X (1..MaxEmails) :
                   x[2] \in DOMAIN book[x[1]].emails /\ book[x[1]].emails[x[2]].addr = a}
Holder(a) == (CHOOSE x \in Holding(a) : \A y \in Holding(a) : book[x[1]].emails[x[2]].id <= book[y[1]].emails[y[2]].id)[1]
FindContact(r) ==
    /\ Turn(r, "findContact")
    /\ LET a == errand[r].in.addr
           new == Holding(a) = {}
           card == IF new THEN [NoCard EXCEPT !.me = TRUE, !.primary = ~errand[r].n, !.emails = <<[addr |-> a, primary |-> TRUE]>>]
                   ELSE [id |-> Holder(a), me |-> TRUE, primary |-> book[Holder(a)].primary \/ ~errand[r].n,
                         emails |-> book[Holder(a)].emails]
       IN  Becomes(r, [errand[r] EXCEPT !.steps = <<IF new THEN "insertContact" ELSE "updateContact">> \o EnsureContact \o Sync \o Later(r),
                                     !.card = card])
    /\ UNCHANGED <<book, idents, imaps, smtps, choices, lastRow, edits, cut>>

---------------------------------------------------------------------------
(* The synchronisation: a list of Me contacts, their addresses one contact at a time,
   the first SMTP server, an upsert for each address, the rows of other contacts away. *)
\* the steps for each member of a list, and what comes after the last
Each(list, steps, rest) == IF list = <<>> THEN rest ELSE steps \o rest
ListMe(r) ==
    /\ Turn(r, "listMe")
    /\ LET me == ById(MeContacts)
       IN  Becomes(r, [errand[r] EXCEPT !.steps = Each(me, <<"details">>, <<"firstRelay">> \o Later(r)),
                                     !.todo = [i \in DOMAIN me |-> [contact |-> me[i], primary |-> book[me[i]].primary]], !.mails = <<>>])
    /\ UNCHANGED <<book, idents, imaps, smtps, choices, lastRow, edits, cut>>
Details(r) ==
    /\ Turn(r, "details")
    /\ LET who == Head(errand[r].todo)
           emails == IF who.contact \in DOMAIN book THEN book[who.contact].emails ELSE <<>>
           wants == [i \in DOMAIN emails |-> [contact |-> who.contact, email |-> emails[i].id, addr |-> emails[i].addr,
                                               primary |-> who.primary /\ emails[i].primary, server |-> 0, folder |-> 0]]
       IN  Becomes(r, [errand[r] EXCEPT !.steps = Each(Tail(errand[r].todo), <<"details">>, Later(r)), !.todo = Tail(@), !.mails = @ \o wants])
    /\ UNCHANGED <<book, idents, imaps, smtps, choices, lastRow, edits, cut>>
FirstRelay(r) ==
    /\ Turn(r, "firstRelay")
    /\ Becomes(r, [errand[r] EXCEPT !.steps = Each(errand[r].mails, <<"pick", "upsert">>, Later(r)),
                                 !.relay = IF smtps = {} THEN 0 ELSE MinId(smtps), !.todo = errand[r].mails, !.mails = <<>>])
    /\ UNCHANGED <<book, idents, imaps, smtps, choices, lastRow, edits, cut>>
\* identityMailboxDefaults: the server the row has, the one with the address as login, the first
DefaultServer(want) ==
    IF want.server \in imaps THEN want.server
    ELSE IF Home[want.addr] \in imaps THEN Home[want.addr]
    ELSE IF imaps = {} THEN 0 ELSE MinId(imaps)
Pick(r) ==
    /\ Turn(r, "pick")
    /\ Becomes(r, [errand[r] EXCEPT !.steps = Later(r), !.pick = DefaultServer(Head(errand[r].todo))])
    /\ UNCHANGED <<book, idents, imaps, smtps, choices, lastRow, edits, cut>>
\* ON CONFLICT (user_id, contact_email_id) keeps what the row has chosen
Written(want, relay, server) ==
    IF want.email \notin DOMAIN idents
    THEN [row |-> lastRow + 1, contact |-> want.contact, addr |-> want.addr, relay |-> relay, server |-> server, folder |-> server,
          text |-> FALSE, primary |-> want.primary]
    ELSE [idents[want.email] EXCEPT !.contact = want.contact, !.addr = want.addr, !.primary = want.primary,
                                    !.relay = IF @ = 0 THEN relay ELSE @,
                                    !.folder = IF @ = 0 /\ idents[want.email].server = 0 THEN server ELSE @,
                                    !.server = IF @ = 0 THEN server ELSE @]
Upsert(r) ==
    /\ Turn(r, "upsert")
    /\ LET want == Head(errand[r].todo)
       IN  IF want.email \notin LiveEmails \/ want.contact \notin DOMAIN book   \* FOREIGN KEY constraint failed
           THEN Fails(r) /\ cut' = TRUE /\ UNCHANGED <<idents, lastRow>>
           ELSE /\ idents' = (want.email :> Written(want, errand[r].relay, errand[r].pick)) @@ idents
                /\ lastRow' = IF want.email \in DOMAIN idents THEN lastRow ELSE lastRow + 1
                /\ Becomes(r, [errand[r] EXCEPT !.steps = Each(Tail(errand[r].todo), <<"pick", "upsert">>, Later(r)), !.todo = Tail(@)])
                /\ UNCHANGED cut
    /\ UNCHANGED <<book, imaps, smtps, choices, edits>>
Prune(r) ==
    /\ Turn(r, "prune") /\ On(r)
    /\ idents' = Keeping(idents, MeEmails)
    /\ UNCHANGED <<book, imaps, smtps, choices, lastRow, edits, cut>>
\* ensurePrimaryMailIdentity
CountIdentity(r) ==
    /\ Turn(r, "countIdentity")
    /\ Becomes(r, [errand[r] EXCEPT !.steps = Later(r), !.n = \E e \in DOMAIN idents : idents[e].primary])
    /\ UNCHANGED <<book, idents, imaps, smtps, choices, lastRow, edits, cut>>
OldestIdentity == CHOOSE e \in DOMAIN idents : \A f \in DOMAIN idents : idents[e].row <= idents[f].row
FirstIdentity(r) ==
    /\ Turn(r, "firstIdentity") /\ On(r)
    /\ idents' = IF errand[r].n \/ idents = <<>> THEN idents ELSE [idents EXCEPT ![OldestIdentity].primary = TRUE]
    /\ UNCHANGED <<book, imaps, smtps, choices, lastRow, edits, cut>>
\* EnsureMailIdentityMailboxDefaults: the rows as read, then an update of each that lacks something
ReadIdentities(r) ==
    /\ Turn(r, "readIdentities")
    /\ LET all == ById(DOMAIN idents)
       IN  Becomes(r, [errand[r] EXCEPT !.steps = Each(all, <<"pick", "fill">>, Later(r)),
                                     !.todo = [i \in DOMAIN all |-> [email |-> all[i], row |-> idents[all[i]].row, addr |-> idents[all[i]].addr,
                                                                     server |-> idents[all[i]].server, folder |-> idents[all[i]].folder]]])
    /\ UNCHANGED <<book, idents, imaps, smtps, choices, lastRow, edits, cut>>
Filled(was, pick) == [server |-> IF was.server # 0 THEN was.server ELSE pick, folder |-> IF was.folder # 0 THEN was.folder ELSE pick]
Fill(r) ==
    /\ Turn(r, "fill")
    /\ LET was == Head(errand[r].todo)
           fill == Filled(was, errand[r].pick)
       IN  idents' = IF (fill.server = was.server /\ fill.folder = was.folder) \/ was.email \notin DOMAIN idents THEN idents
                     ELSE [idents EXCEPT ![was.email].server = fill.server, ![was.email].folder = fill.folder]
    /\ Becomes(r, [errand[r] EXCEPT !.steps = Each(Tail(errand[r].todo), <<"pick", "fill">>, Later(r)), !.todo = Tail(@)])
    /\ UNCHANGED <<book, imaps, smtps, choices, lastRow, edits, cut>>

---------------------------------------------------------------------------
(* Identities and servers. *)
\* CreateMailIdentityForUser: the row of the address; what the client leaves open stays
OfAddress(a) == {e \in DOMAIN idents : idents[e].addr = a}
ChooseIdentity(r) ==
    /\ Turn(r, "chooseIdentity")
    /\ LET in == errand[r].in
           mine == OfAddress(in.addr)
           best == IF \E e \in mine : idents[e].primary THEN {e \in mine : idents[e].primary} ELSE mine
           Or(new, old) == IF new > 0 THEN new ELSE old
       IN  IF mine = {} THEN Fails(r)
           ELSE \E e \in best : Becomes(r, [errand[r] EXCEPT !.steps = Later(r),
                    !.in = [@ EXCEPT !.email = e, !.row = idents[e].row, !.primary = @ \/ idents[e].primary, !.relay = Or(@, idents[e].relay),
                                     !.server = Or(@, idents[e].server), !.folder = Or(@, idents[e].folder)]])
    /\ UNCHANGED <<book, idents, imaps, smtps, choices, lastRow, edits, cut>>
\* The servers and the row exist and the folder is one of the server.
Check(r) ==
    /\ Turn(r, "check")
    /\ LET in == errand[r].in
       IN  IF /\ in.relay \in smtps \cup {0} /\ in.server \in imaps \cup {0}
              /\ in.folder = 0 \/ (in.folder \in imaps /\ in.server \in {0, in.folder})
              /\ in.email \in DOMAIN idents /\ idents[in.email].row = in.row
           THEN Becomes(r, [errand[r] EXCEPT !.steps = Later(r), !.card.id = idents[in.email].contact])
           ELSE Fails(r)
    /\ UNCHANGED <<book, idents, imaps, smtps, choices, lastRow, edits, cut>>
\* the transaction; a row that is gone rolls it back
OnlyEmail(emails, e) == [i \in DOMAIN emails |-> [emails[i] EXCEPT !.primary = emails[i].id = e]]
SaveIdentity(r) ==
    /\ Turn(r, "saveIdentity")
    /\ LET in == errand[r].in
           c == errand[r].card.id
           mine == [d \in DOMAIN book |->
                       IF d = c THEN [book[d] EXCEPT !.me = TRUE, !.primary = @ \/ in.primary,
                                                     !.emails = IF in.primary THEN OnlyEmail(@, in.email) ELSE @]
                       ELSE [book[d] EXCEPT !.primary = @ /\ ~(in.primary /\ book[d].me)]]
       IN  IF in.email \notin DOMAIN idents \/ idents[in.email].row # in.row
           THEN Fails(r) /\ UNCHANGED <<book, idents>>
           ELSE /\ book' = mine
                /\ idents' = [e \in DOMAIN idents |->
                       IF e = in.email THEN [idents[e] EXCEPT !.relay = in.relay, !.server = in.server, !.folder = in.folder,
                                                              !.text = TRUE, !.primary = in.primary]
                       ELSE [idents[e] EXCEPT !.primary = @ /\ ~in.primary]]
                /\ On(r)
    /\ UNCHANGED <<imaps, smtps, choices, lastRow, edits, cut>>

SaveServer(r) ==
    /\ Turn(r, "saveServer") /\ On(r)
    /\ imaps' = imaps \cup {errand[r].in.server}
    /\ UNCHANGED <<book, idents, smtps, choices, lastRow, edits, cut>>
ListRelays(r) ==
    /\ Turn(r, "listRelays")
    /\ Becomes(r, [errand[r] EXCEPT !.steps = Later(r), !.n = smtps # {}])
    /\ UNCHANGED <<book, idents, imaps, smtps, choices, lastRow, edits, cut>>
AddRelay(r) ==
    /\ Turn(r, "addRelay") /\ On(r)
    /\ smtps' = IF errand[r].n \/ Relays \subseteq smtps THEN smtps ELSE smtps \cup {MinId(Relays \ smtps)}
    /\ UNCHANGED <<book, idents, imaps, choices, lastRow, edits, cut>>
ClearIdentityMailboxRefsForAccount(r) ==
    /\ Turn(r, "clearRefs") /\ On(r)
    /\ LET s == errand[r].in.server
       IN  idents' = [e \in DOMAIN idents |-> [idents[e] EXCEPT !.server = IF @ = s THEN 0 ELSE @, !.folder = IF @ = s THEN 0 ELSE @]]
    /\ UNCHANGED <<book, imaps, smtps, choices, lastRow, edits, cut>>
DeleteMailAccountForUser(r) ==
    /\ Turn(r, "dropServer") /\ On(r)
    /\ imaps' = imaps \ {errand[r].in.server}
    /\ UNCHANGED <<book, idents, smtps, choices, lastRow, edits, cut>>
DropRelay(r) ==
    /\ Turn(r, "dropRelay") /\ On(r)
    /\ smtps' = smtps \ {errand[r].in.relay}
    /\ idents' = [e \in DOMAIN idents |-> [idents[e] EXCEPT !.relay = IF @ = errand[r].in.relay THEN 0 ELSE @]]
    /\ UNCHANGED <<book, imaps, choices, lastRow, edits, cut>>

---------------------------------------------------------------------------
(* The choices of compose. *)
Listed == {[email |-> e, row |-> idents[e].row, addr |-> idents[e].addr, primary |-> idents[e].primary] : e \in DOMAIN idents}
\* cachedComposeIdentityChoices
Cached(r) ==
    /\ Turn(r, "cached")
    /\ Becomes(r, IF choices = NotCached THEN [errand[r] EXCEPT !.steps = Later(r)]
                  ELSE [errand[r] EXCEPT !.steps = <<>>, !.list = choices, !.alone = FALSE])
    /\ UNCHANGED <<book, idents, imaps, smtps, choices, lastRow, edits, cut>>
List(r) ==
    /\ Turn(r, "list")
    /\ Becomes(r, [errand[r] EXCEPT !.steps = Later(r), !.list = IF Listed = {} /\ Composes(r) THEN Fallback ELSE Listed])
    /\ UNCHANGED <<book, idents, imaps, smtps, choices, lastRow, edits, cut>>
RememberComposeIdentityChoices(r) ==
    /\ Turn(r, "remember") /\ On(r)
    /\ choices' = errand[r].list
    /\ UNCHANGED <<book, idents, imaps, smtps, lastRow, edits, cut>>
ClearComposeIdentityCache(r) ==
    /\ Turn(r, "clear") /\ On(r)
    /\ choices' = NotCached
    /\ UNCHANGED <<book, idents, imaps, smtps, lastRow, edits, cut>>
\* five minutes without a request; touchComposeIdentityCache puts the end off
ChoicesExpire ==
    /\ choices # NotCached
    /\ choices' = NotCached
    /\ UNCHANGED <<book, idents, imaps, smtps, errand, lastRow, edits, cut>>

---------------------------------------------------------------------------
(* The book after the set-up of the first account, perhaps with a second card. *)
FirstCards(second) ==
    (2 :> [me |-> TRUE, primary |-> TRUE, emails |-> <<[id |-> 1, addr |-> second.own, primary |-> TRUE]>>])
        @@ (IF second.other = "" THEN <<>>
            ELSE 4 :> [me |-> second.me, primary |-> FALSE, emails |-> <<[id |-> 3, addr |-> second.other, primary |-> TRUE]>>])
IdentInit ==
    /\ \E own \in {a \in Addresses : Home[a] = MinId(Servers)}, other \in Addresses \cup {""}, me \in BOOLEAN :
           /\ own # other /\ (other = "" => me)
           /\ book = FirstCards([own |-> own, other |-> other, me |-> me])
           /\ idents = 1 :> [row |-> 5, contact |-> 2, addr |-> own, relay |-> MinId(Relays), server |-> MinId(Servers),
                              folder |-> MinId(Servers), text |-> FALSE, primary |-> TRUE]
    /\ imaps = {MinId(Servers)} /\ smtps = {MinId(Relays)}
    /\ choices = NotCached /\ errand = [r \in Jobs |-> NoErrand] /\ lastRow = 5 /\ edits = 0 /\ cut = FALSE

Request(r) ==
    \/ ApiContacts(r) \/ ApiContactPut(r) \/ ApiContactDelete(r)
    \/ ApiIMAPAccount(r) \/ ApiDeleteIMAPAccount(r) \/ ApiDeleteSMTPAccount(r) \/ ApiMailIdentity(r)
    \/ ComposeIdentityChoices(r) \/ ForwardIdentity(r)
Statement(r) ==
    \/ InsertContact(r) \/ UpdateContact(r) \/ DeleteContactForUser(r) \/ CountMe(r) \/ FirstMe(r)
    \/ HasMe(r) \/ FindContact(r)
    \/ ListMe(r) \/ Details(r) \/ FirstRelay(r) \/ Pick(r) \/ Upsert(r) \/ Prune(r)
    \/ CountIdentity(r) \/ FirstIdentity(r) \/ ReadIdentities(r) \/ Fill(r)
    \/ ChooseIdentity(r) \/ Check(r) \/ SaveIdentity(r)
    \/ SaveServer(r) \/ ListRelays(r) \/ AddRelay(r)
    \/ ClearIdentityMailboxRefsForAccount(r) \/ DeleteMailAccountForUser(r) \/ DropRelay(r)
    \/ Cached(r) \/ List(r) \/ RememberComposeIdentityChoices(r) \/ ClearComposeIdentityCache(r)
IdentNext == (\E r \in Jobs : Request(r) \/ Statement(r) \/ Cancelled(r)) \/ ChoicesExpire
IdentSpec == IdentInit /\ [][IdentNext]_identVars

---------------------------------------------------------------------------
(* ensurePrimaryMeContact counts and updates in two statements after the commit of a
   request that may run beside others.  Once all of them are through, somebody who is
   Me is the primary Me contact. *)
MeIsPrimary == Quiet /\ ~cut /\ MeContacts # {} => \E c \in MeContacts : book[c].primary

(* A load reads the list of Me contacts and then their addresses, so it can write a row
   for a contact that is no longer Me.  Its own DELETE comes after that: once all
   requests are through, every identity is an address of a Me contact. *)
OnlyOwnAddresses == Quiet /\ ~cut => DOMAIN idents \subseteq MeEmails

(* Whatever races have left, a load that runs alone lists exactly the addresses of the Me
   contacts, and one of them is primary. *)
LoadRepairs ==
    \A r \in Jobs : errand[r].alone /\ errand[r].list \notin {NotCached, Fallback} =>
        /\ {x.email : x \in errand[r].list} = MeEmails
        /\ errand[r].list # {} => \E x \in errand[r].list : x.primary

(* What contacts and identities keep to when requests meet: the primary Me contact is
   there, and the identities are its addresses. *)
IdentitiesSafe == MeIsPrimary /\ OnlyOwnAddresses /\ LoadRepairs

(* A load that runs alone fills what is empty and never changes what was chosen for an
   identity: its servers, its folder, its signature. *)
LoadKeepsChoices ==
    [][\A r \in Jobs :
          errand[r].alone /\ errand'[r].alone /\ "list" \in Range(errand[r].steps) =>
              \A e \in DOMAIN idents \cap MeEmails :
                  /\ e \in DOMAIN idents' /\ idents'[e].text = idents[e].text
                  /\ \A k \in {"relay", "server", "folder"} : idents[e][k] # 0 => idents'[e][k] = idents[e][k]]_identVars
====
