---- MODULE SpamFilter ----
(* The spam filter plugin of one user: personal Bayes (labels, documents, token
   counts, totals), explicit feedback, labels carried over moves, and the two
   background jobs, bootstrap and backfill
   (plugins/experimental_spam_filter/backend).

   A transaction maps the record bayes to a new one; ok = FALSE is an error of
   a CHECK or of a row count, and then nothing is committed.  Every explicit
   label is updated at a time of its own, so exp is ordered by updated_at;
   the labels of one snapshot share one time.  Scores are left out except for
   whether the learned counts are used. *)
EXTENDS Integers, Sequences, FiniteSets, FiniteSetsExt, SequencesExt, TLC

CONSTANTS
    Texts,       \* contents of messages
    Prints,      \* fingerprints that a content can get: from the raw message or from the preview
    TokensOf,    \* the bounded token sequence of a fingerprint, by hash
    Collections, \* labels by fingerprint that the folders of a bootstrap can give
    MaxIds,      \* bound: rows of messages created
    MaxLabels,   \* personalBayesMaxLearnedMessages
    MaxTokens,   \* personalBayesMaxStoredTokens
    MinClass,    \* PersonalBayesMinimumSpamMessages, ...HamMessages
    MaxPending,  \* pendingMoveMaximumPerUser
    MaxJobs,     \* bound: jobs started
    MaxDeeds     \* bound: requests, moves, deletions, failures and restarts together

Labels == {"spam", "ham"}
Fingerprints == UNION {Prints[t] : t \in Texts}
ASSUME SpamFilterAssumption ==
    /\ Fingerprints \subseteq Nat /\ DOMAIN TokensOf = Fingerprints
    /\ {MaxIds, MaxLabels, MaxTokens, MaxPending, MaxJobs, MaxDeeds} \subseteq Nat /\ MaxLabels > 0

VARIABLES
    bayes,     \* exp: explicit labels, auto: the snapshot, docs, tokens, count, totals
    rows,      \* messages: text and whether the mailbox is junk
    feedback,  \* label by message
    scored,    \* model version and use of Bayes by message
    fresh,     \* stored messages that wait for classification
    pending,   \* pending_move_labels, oldest first: text and label
    jobs,      \* goroutines of jobs by number
    active,    \* reservations by kind: 0, or the job whose cancel function is there; -1 is a placeholder
    on,        \* the plugin is started
    record,    \* status rows of the jobs
    reset,     \* the request that resets the bootstrap
    model,     \* version of the checked-in model
    nextId, nextJob, deeds

spamVars == <<bayes, rows, feedback, scored, fresh, pending, jobs, active, on, record, reset, model, nextId, nextJob, deeds>>
mailState == <<rows, feedback, scored, fresh, pending>>
jobState == <<jobs, active, on, record, reset, model>>

Kinds == {"bootstrap", "backfill"}
NoLabel == "none"
NoJob == 0
Placeholder == -1
Deed == deeds < MaxDeeds /\ deeds' = deeds + 1
Keyless(f, x) == [y \in DOMAIN f \ {x} |-> f[y]]
Firsts(s, n) == SubSeq(s, 1, Max({0, Min({n, Len(s)})}))

---------------------------------------------------------------------------
(* Personal Bayes. *)
ExplicitOf(d, fp) == {i \in DOMAIN d.exp : d.exp[i].fp = fp}
\* The effective label: the newest explicit one, else the automatic one.
CanonicalMessage(d, fp) ==
    IF ExplicitOf(d, fp) # {} THEN d.exp[Max(ExplicitOf(d, fp))].label
    ELSE IF fp \in DOMAIN d.auto THEN d.auto[fp] ELSE NoLabel

Delta(l, before, after) == (IF after = l THEN 1 ELSE 0) - (IF before = l THEN 1 ELSE 0)

\* Rows of tokens that are missing, as far as the vocabulary has room.
AdmitTokens(d, fp) ==
    Range(Firsts(SelectSeq(TokensOf[fp], LAMBDA t : t \notin DOMAIN d.tokens), MaxTokens - d.count))
WithTokens(d, new) ==
    [d EXCEPT !.tokens = @ @@ [t \in new |-> [spam |-> 0, ham |-> 0]], !.count = @ + Cardinality(new)]

\* Only rows that are there change; none may become negative.
ChangeTokens(d, ts, before, after) ==
    LET changed == [t \in DOMAIN d.tokens |->
                      IF t \in ts THEN [l \in Labels |-> d.tokens[t][l] + Delta(l, before, after)] ELSE d.tokens[t]]
    IN [d EXCEPT !.tokens = changed, !.ok = @ /\ \A t \in DOMAIN changed : \A l \in Labels : changed[t][l] >= 0]

ChangeTotals(d, before, after) ==
    LET changed == [l \in Labels |-> d.totals[l] + Delta(l, before, after)]
    IN [d EXCEPT !.totals = changed, !.ok = @ /\ \A l \in Labels : changed[l] >= 0]

ReclaimTokens(d) ==
    LET kept == {t \in DOMAIN d.tokens : d.tokens[t].spam # 0 \/ d.tokens[t].ham # 0}
    IN [d EXCEPT !.tokens = [t \in kept |-> d.tokens[t]], !.count = @ - Cardinality(DOMAIN d.tokens \ kept)]

ChangeCanonical(d, fp, before, after) ==
    IF before = after THEN d
    ELSE LET admitted == IF before = NoLabel THEN WithTokens(d, AdmitTokens(d, fp)) ELSE d
             counted == ChangeTotals(ChangeTokens(admitted, Range(TokensOf[fp]), before, after), before, after)
         IN IF after = NoLabel THEN ReclaimTokens(counted) ELSE counted

\* The tokens that found no room when the document was learned.
TopUpDocument(d, fp) ==
    LET new == AdmitTokens(d, fp) IN
    IF CanonicalMessage(d, fp) = NoLabel THEN d
    ELSE ChangeTokens(WithTokens(d, new), new, NoLabel, CanonicalMessage(d, fp))

\* A label was removed from d, which gives e: counts, and the document when it was the last one.
Removed(d, e, fp) ==
    LET after == CanonicalMessage(e, fp)
        f == ChangeCanonical(e, fp, CanonicalMessage(d, fp), after)
    IN IF after = NoLabel THEN [f EXCEPT !.docs = @ \ {fp}] ELSE f
WithoutExplicit(d, i) == Removed(d, [d EXCEPT !.exp = RemoveAt(@, i)], d.exp[i].fp)
ClearAutomatic(d, fp) == Removed(d, [d EXCEPT !.auto = Keyless(@, fp)], fp)

\* expirePersonalBayesLearns: automatic labels go first; victim is one of equal age.
ExpireLearns(d, victim) ==
    IF Len(d.exp) + Cardinality(DOMAIN d.auto) <= MaxLabels THEN d
    ELSE IF DOMAIN d.auto # {} THEN ClearAutomatic(d, victim) ELSE WithoutExplicit(d, 1)

Learned(d, e, fp) == ChangeCanonical(e, fp, CanonicalMessage(d, fp), CanonicalMessage(e, fp))

\* LearnPersonalBayesTx: a message keeps the fingerprint it was learned with.
LearnPersonalBayes(d, m, fp, label, victim) ==
    LET known == {i \in DOMAIN d.exp : d.exp[i].id = m}
        i == CHOOSE j \in known : TRUE
        print == IF known = {} THEN fp ELSE d.exp[i].fp
        e == [d EXCEPT !.docs = @ \cup {print},
                       !.exp = Append(IF known = {} THEN @ ELSE RemoveAt(@, i), [id |-> m, fp |-> print, label |-> label])]
    IN IF known # {} /\ d.exp[i].label = label /\ i = Max(ExplicitOf(d, print)) THEN d
       ELSE TopUpDocument(ExpireLearns(Learned(d, e, print), victim), print)

UnlearnKeepsCounts(d, m) ==
    [d EXCEPT !.exp = SelectSeq(@, LAMBDA x : x.id # m)]
UnlearnPersonalBayes(d, m) ==
    LET known == {i \in DOMAIN d.exp : d.exp[i].id = m}
    IN IF known = {} THEN d ELSE WithoutExplicit(d, CHOOSE i \in known : TRUE)

LearnAutomatic(d, fp, label) ==
    TopUpDocument(Learned(d, [d EXCEPT !.docs = @ \cup {fp}, !.auto = (fp :> label) @@ @], fp), fp)

\* ReplaceAutomaticPersonalBayesSnapshotTx
ReplaceSnapshot(d, prepared) ==
    IF Cardinality(DOMAIN prepared) + Len(d.exp) > MaxLabels THEN [d EXCEPT !.ok = FALSE]
    ELSE IF d.auto = prepared THEN d
    ELSE LET cleared == FoldLeft(ClearAutomatic, d, SetToSortSeq(DOMAIN d.auto, <))
         IN FoldLeft(LAMBDA e, fp : LearnAutomatic(e, fp, prepared[fp]), cleared, SetToSortSeq(DOMAIN prepared, <))

Victims(d) == IF DOMAIN d.auto = {} THEN {0} ELSE DOMAIN d.auto
\* personalBayesReady
Ready(d) == \A l \in Labels : d.totals[l] >= MinClass

---------------------------------------------------------------------------
(* Feedback, one transaction each. *)
SetFeedback(m, label) ==
    /\ m \in DOMAIN rows /\ Deed
    /\ \E fp \in Prints[rows[m].text], victim \in Victims(bayes) :
         LET d == LearnPersonalBayes(bayes, m, fp, label, victim) IN
         /\ bayes' = IF d.ok THEN d ELSE bayes
         /\ feedback' = IF d.ok THEN (m :> label) @@ feedback ELSE feedback
    /\ UNCHANGED <<rows, scored, fresh, pending, jobState, nextId, nextJob>>

ClearFeedback(m) ==
    /\ m \in DOMAIN rows /\ Deed
    /\ LET d == IF m \in DOMAIN feedback THEN UnlearnPersonalBayes(bayes, m) ELSE bayes
           mismatch == m \in DOMAIN feedback
                       /\ \E i \in DOMAIN bayes.exp : bayes.exp[i].id = m /\ bayes.exp[i].label # feedback[m]
       IN /\ bayes' = IF d.ok /\ ~mismatch THEN d ELSE bayes
          /\ feedback' = IF d.ok /\ ~mismatch THEN Keyless(feedback, m) ELSE feedback
    /\ UNCHANGED <<rows, scored, fresh, pending, jobState, nextId, nextJob>>

---------------------------------------------------------------------------
(* Messages come, move and go; classification follows the import. *)
ImportMessage(text, junk) ==
    /\ nextId <= MaxIds
    /\ rows' = (nextId :> [text |-> text, junk |-> junk]) @@ rows
    /\ fresh' = IF on THEN fresh \cup {nextId} ELSE fresh
    /\ nextId' = nextId + 1
    /\ UNCHANGED <<bayes, feedback, scored, pending, jobState, nextJob, deeds>>

RowGone(m) ==
    /\ rows' = Keyless(rows, m) /\ feedback' = Keyless(feedback, m) /\ scored' = Keyless(scored, m)
    /\ fresh' = fresh \ {m}
DeleteMessage(m) ==
    /\ m \in DOMAIN rows /\ Deed /\ RowGone(m)
    /\ UNCHANGED <<bayes, pending, jobState, nextId, nextJob>>

\* savePendingMoveLabel: one entry for an identity, the newest MaxPending kept.
SavePending(text, label) ==
    LET all == Append(SelectSeq(pending, LAMBDA p : p.text # text), [text |-> text, label |-> label])
    IN SubSeq(all, Max({1, Len(all) - MaxPending + 1}), Len(all))
\* MoveMessage and ObserveMessageMove; an observer may fail, the move stands.
MoveMessage(m) ==
    /\ m \in DOMAIN rows /\ Deed
    /\ pending' \in {pending} \cup
         (IF on THEN {SavePending(rows[m].text, IF rows[m].junk THEN "ham" ELSE "spam")} ELSE {})
    /\ RowGone(m)
    /\ UNCHANGED <<bayes, jobState, nextId, nextJob>>
PendingExpires ==
    /\ pending # <<>> /\ Deed
    /\ pending' = Tail(pending)
    /\ UNCHANGED <<bayes, rows, feedback, scored, fresh, jobState, nextId, nextJob>>

ClassifyAndSave(m) == (m :> [version |-> model, personal |-> Ready(bayes)]) @@ scored

\* ClassifyMessage: the score, then in one transaction the label of a move.
ClassifyMessage(m) ==
    /\ m \in fresh
    /\ fresh' = fresh \ {m}
    /\ scored' = ClassifyAndSave(m)
    /\ LET found == {i \in DOMAIN pending : pending[i].text = rows[m].text}
           i == CHOOSE j \in found : TRUE
       IN IF found = {} THEN UNCHANGED <<bayes, feedback, pending>>
          ELSE \E fp \in Prints[rows[m].text], victim \in Victims(bayes) :
                 LET d == LearnPersonalBayes(bayes, m, fp, pending[i].label, victim)
                 IN /\ bayes' = IF d.ok THEN d ELSE bayes
                    /\ feedback' = IF d.ok THEN (m :> pending[i].label) @@ feedback ELSE feedback
                    /\ pending' = IF d.ok THEN RemoveAt(pending, i) ELSE pending
    /\ UNCHANGED <<rows, jobState, nextId, nextJob, deeds>>
\* The guard of the hook gave up, or the pass was cancelled.
ClassifyFails(m) ==
    /\ m \in fresh /\ Deed
    /\ fresh' = fresh \ {m}
    /\ scored' \in {scored, ClassifyAndSave(m)}
    /\ UNCHANGED <<bayes, rows, feedback, pending, jobState, nextId, nextJob>>

---------------------------------------------------------------------------
(* Jobs.  A reservation that is released is whoever's it is. *)
Released(kind) == IF on THEN [active EXCEPT ![kind] = NoJob] ELSE active
Ended(j) == Keyless(jobs, j)
\* Complete, failed or cancelled, if there still is a row.
Finished(kind) == IF record[kind] = "idle" THEN record ELSE [record EXCEPT ![kind] = "ended"]

Reserve(kind) ==
    /\ on /\ active[kind] = NoJob /\ nextJob <= MaxJobs /\ Deed
    /\ active' = [active EXCEPT ![kind] = Placeholder]
    /\ jobs' = (nextJob :> [kind |-> kind, pc |-> "begin", stop |-> FALSE, docs |-> <<>>]) @@ jobs
    /\ nextJob' = nextJob + 1
    /\ UNCHANGED <<bayes, mailState, on, record, reset, model, nextId>>

\* startBootstrapRecord and setBootstrapCancel, which a stopped plugin refuses.
LaunchBootstrap(j) ==
    /\ jobs[j].kind = "bootstrap" /\ jobs[j].pc = "begin"
    /\ record' = [record EXCEPT !["bootstrap"] = "running"]
    /\ IF on /\ active["bootstrap"] # NoJob
       THEN /\ active' = [active EXCEPT !["bootstrap"] = j]
            /\ jobs' = [jobs EXCEPT ![j].pc = "collect"]
       ELSE /\ active' = Released("bootstrap")
            /\ jobs' = Ended(j)
    /\ UNCHANGED <<bayes, mailState, on, reset, model, nextId, nextJob, deeds>>
\* The preview of the folders or the status row failed.
BeginFails(j) ==
    /\ jobs[j].pc = "begin" /\ Deed
    /\ active' = Released(jobs[j].kind) /\ jobs' = Ended(j)
    /\ UNCHANGED <<bayes, mailState, on, record, reset, model, nextId, nextJob>>

\* What the selected folders gave, without ambiguous fingerprints.
CollectDocuments(j) ==
    /\ jobs[j].pc = "collect" /\ ~jobs[j].stop
    /\ \E docs \in Collections : jobs' = [jobs EXCEPT ![j].pc = "explicit", ![j].docs = docs]
    /\ UNCHANGED <<bayes, mailState, active, on, record, reset, model, nextId, nextJob, deeds>>

\* removeExplicitBootstrapDocuments, then no more spam than ham.
Balanced(docs) ==
    LET of(l) == {fp \in DOMAIN docs : docs[fp] = l}
        surplus == Max({0, Cardinality(of("spam")) - Cardinality(of("ham"))})
        dropped == Range(Firsts(SetToSortSeq(of("spam"), <), surplus))
    IN [fp \in DOMAIN docs \ dropped |-> docs[fp]]
ExplicitFingerprints == {bayes.exp[i].fp : i \in DOMAIN bayes.exp}
DropExplicit(j) ==
    /\ jobs[j].pc = "explicit" /\ ~jobs[j].stop
    /\ LET docs == jobs[j].docs
           kept == [fp \in DOMAIN docs \ ExplicitFingerprints |-> docs[fp]]
       IN jobs' = [jobs EXCEPT ![j].pc = "replace", ![j].docs = Balanced(kept)]
    /\ UNCHANGED <<bayes, mailState, active, on, record, reset, model, nextId, nextJob, deeds>>

ReplaceAutomaticSnapshot(j) ==
    /\ jobs[j].pc = "replace" /\ ~jobs[j].stop
    /\ LET d == ReplaceSnapshot(bayes, jobs[j].docs) IN bayes' = IF d.ok THEN d ELSE bayes
    /\ record' = Finished("bootstrap")
    /\ jobs' = [jobs EXCEPT ![j].pc = "release"]
    /\ UNCHANGED <<mailState, active, on, reset, model, nextId, nextJob, deeds>>

\* Cancelled, or IMAP or SQLite failed.
JobStops(j) ==
    /\ jobs[j].pc \in {"collect", "explicit", "replace", "select", "items"}
    /\ IF jobs[j].stop THEN UNCHANGED deeds ELSE Deed
    /\ record' = Finished(jobs[j].kind)
    /\ jobs' = [jobs EXCEPT ![j].pc = "release"]
    /\ UNCHANGED <<bayes, mailState, active, on, reset, model, nextId, nextJob>>
ReleaseJob(j) ==
    /\ jobs[j].pc = "release"
    /\ active' = Released(jobs[j].kind) /\ jobs' = Ended(j)
    /\ UNCHANGED <<bayes, mailState, on, record, reset, model, nextId, nextJob, deeds>>

\* cancelBootstrap: the placeholder does nothing.
CancelBootstrap ==
    /\ on /\ active["bootstrap"] \in DOMAIN jobs /\ Deed
    /\ jobs' = [jobs EXCEPT ![active["bootstrap"]].stop = TRUE]
    /\ UNCHANGED <<bayes, mailState, active, on, record, reset, model, nextId, nextJob>>

\* apiResetBootstrap: a check, the labels, the status row.
ResetBegins ==
    /\ reset = "off" /\ active["bootstrap"] = NoJob /\ Deed
    /\ reset' = "labels"
    /\ UNCHANGED <<bayes, mailState, jobs, active, on, record, model, nextId, nextJob>>
ResetAutomatic ==
    /\ reset = "labels"
    /\ LET d == ReplaceSnapshot(bayes, <<>>)
       IN /\ bayes' = IF d.ok THEN d ELSE bayes
          /\ reset' = IF d.ok THEN "record" ELSE "off"
    /\ UNCHANGED <<mailState, jobs, active, on, record, model, nextId, nextJob, deeds>>
ResetRecord ==
    /\ reset = "record" /\ reset' = "off"
    /\ record' = [record EXCEPT !["bootstrap"] = "idle"]
    /\ UNCHANGED <<bayes, mailState, jobs, active, on, model, nextId, nextJob, deeds>>

\* startBackfillRecord and launchBackfill, which does nothing once the plugin has stopped.
LaunchBackfill(j) ==
    /\ jobs[j].kind = "backfill" /\ jobs[j].pc = "begin"
    /\ record' = [record EXCEPT !["backfill"] = "running"]
    /\ IF on
       THEN /\ active' = [active EXCEPT !["backfill"] = j]
            /\ jobs' = [jobs EXCEPT ![j].pc = "select"]
       ELSE /\ UNCHANGED active
            /\ jobs' = Ended(j)
    /\ UNCHANGED <<bayes, mailState, on, reset, model, nextId, nextJob, deeds>>

\* backfillMessageIDs: what has no score of this model comes first.
Unscored(m) == m \notin DOMAIN scored \/ scored[m].version # model
BackfillOrder == SetToSortSeq(DOMAIN rows, LAMBDA a, b : (Unscored(a) /\ ~Unscored(b)) \/ (Unscored(a) = Unscored(b) /\ a > b))
SelectMessages(j) ==
    /\ jobs[j].pc = "select" /\ ~jobs[j].stop
    /\ jobs' = [jobs EXCEPT ![j].pc = "items", ![j].docs = BackfillOrder]
    /\ UNCHANGED <<bayes, mailState, active, on, record, reset, model, nextId, nextJob, deeds>>
BackfillItem(j) ==
    /\ jobs[j].pc = "items" /\ ~jobs[j].stop /\ jobs[j].docs # <<>>
    /\ scored' = IF Head(jobs[j].docs) \in DOMAIN rows THEN ClassifyAndSave(Head(jobs[j].docs)) ELSE scored
    /\ jobs' = [jobs EXCEPT ![j].docs = Tail(@)]
    /\ UNCHANGED <<bayes, rows, feedback, fresh, pending, active, on, record, reset, model, nextId, nextJob, deeds>>
BackfillEnds(j) ==
    /\ jobs[j].pc = "items" /\ jobs[j].docs = <<>>
    /\ record' = Finished("backfill")
    /\ jobs' = [jobs EXCEPT ![j].pc = "release"]
    /\ UNCHANGED <<bayes, mailState, active, on, reset, model, nextId, nextJob, deeds>>

\* apiStatus: a job that nobody runs is reported as interrupted.
Reconciled(kind) ==
    IF record[kind] = "running" /\ active[kind] = NoJob THEN Finished(kind) ELSE record
Status(kind) ==
    /\ on
    /\ record' = Reconciled(kind)
    /\ UNCHANGED <<bayes, mailState, jobs, active, on, reset, model, nextId, nextJob, deeds>>

\* stopLocked cancels the jobs it knows; they end later.
Known == {active[kind] : kind \in Kinds}
StopPlugin ==
    /\ on /\ Deed
    /\ on' = FALSE
    /\ active' = [kind \in Kinds |-> NoJob]
    /\ jobs' = [j \in DOMAIN jobs |-> IF j \in Known THEN [jobs[j] EXCEPT !.stop = TRUE] ELSE jobs[j]]
    /\ UNCHANGED <<bayes, mailState, record, reset, model, nextId, nextJob>>
StartPlugin ==
    /\ ~on /\ on' = TRUE
    /\ UNCHANGED <<bayes, mailState, jobs, active, record, reset, model, nextId, nextJob, deeds>>
\* A restart, perhaps with another model.
SpamCrash ==
    /\ Deed
    /\ jobs' = <<>> /\ active' = [kind \in Kinds |-> NoJob] /\ on' = FALSE /\ reset' = "off" /\ fresh' = {}
    /\ model' \in {model, model + 1}
    /\ UNCHANGED <<bayes, rows, feedback, scored, pending, record, nextId, nextJob>>

---------------------------------------------------------------------------
EmptyFilter ==
    /\ bayes = [exp |-> <<>>, auto |-> <<>>, docs |-> {}, tokens |-> <<>>, count |-> 0,
                totals |-> [l \in Labels |-> 0], ok |-> TRUE]
    /\ feedback = <<>> /\ scored = <<>> /\ fresh = {} /\ pending = <<>>
    /\ jobs = <<>> /\ active = [kind \in Kinds |-> NoJob] /\ on = TRUE
    /\ record = [kind \in Kinds |-> "idle"] /\ reset = "off" /\ model = 1

SpamInit == EmptyFilter /\ rows = <<>> /\ nextId = 1 /\ nextJob = 1 /\ deeds = 0

JobStep(j) ==
    \/ LaunchBootstrap(j) \/ LaunchBackfill(j) \/ CollectDocuments(j) \/ DropExplicit(j) \/ ReplaceAutomaticSnapshot(j)
    \/ SelectMessages(j) \/ BackfillItem(j) \/ BackfillEnds(j) \/ JobStops(j) \/ ReleaseJob(j)

SpamNext ==
    \/ \E t \in Texts, junk \in BOOLEAN : ImportMessage(t, junk)
    \/ \E m \in DOMAIN rows :
          \/ ClearFeedback(m) \/ DeleteMessage(m) \/ MoveMessage(m) \/ ClassifyMessage(m) \/ ClassifyFails(m)
          \/ \E label \in Labels : SetFeedback(m, label)
    \/ PendingExpires \/ CancelBootstrap \/ ResetBegins \/ ResetAutomatic \/ ResetRecord
    \/ \E j \in DOMAIN jobs : JobStep(j) \/ BeginFails(j)
    \/ \E kind \in Kinds : Status(kind) \/ Reserve(kind)
    \/ StopPlugin \/ StartPlugin \/ SpamCrash

SpamSpec == SpamInit /\ [][SpamNext]_spamVars

---------------------------------------------------------------------------
(* The totals that decide readiness count every fingerprint once, under its
   effective label, whatever explicit copies, snapshots, expiry and clearing
   did (bayes.go:1311). *)
TotalsExact ==
    \A l \in Labels :
        bayes.totals[l] = Cardinality({fp \in Fingerprints : CanonicalMessage(bayes, fp) = l})

(* token_count is the number of token rows, within the limit, and no token is
   counted for more documents than carry it under that label (bayes.go:1343). *)
VocabularyBounded ==
    /\ bayes.count = Cardinality(DOMAIN bayes.tokens) /\ bayes.count <= MaxTokens
    /\ \A t \in DOMAIN bayes.tokens : \A l \in Labels :
          bayes.tokens[t][l] <= Cardinality({fp \in Fingerprints :
              CanonicalMessage(bayes, fp) = l /\ t \in Range(TokensOf[fp])})

(* A document row, and with it its token hashes, is there exactly while some
   label names it (bayes.go:1249, 1536). *)
DocumentsExact ==
    bayes.docs = {fp \in Fingerprints : CanonicalMessage(bayes, fp) # NoLabel}

(* What Bayes learned from a message that is still there is what its feedback
   says: both change in one transaction, and clearing never meets another
   label (api.go:171, bayes.go:512). *)
LearnedAsMarked ==
    \A i \in DOMAIN bayes.exp : bayes.exp[i].id \in DOMAIN rows =>
        bayes.exp[i].id \in DOMAIN feedback /\ feedback[bayes.exp[i].id] = bayes.exp[i].label

(* Neither a bootstrap nor its reset touches an explicit label or what it
   makes effective, also when the label came after the job had read them
   (bayes.go:559). *)
SnapshotSparesExplicit ==
    [][bayes'.auto # bayes.auto /\ feedback' = feedback =>
        bayes'.exp = bayes.exp
        /\ \A fp \in ExplicitFingerprints : CanonicalMessage(bayes', fp) = CanonicalMessage(bayes, fp)]_spamVars

(* A reservation is never left behind: while the plugin refuses another job of a
   kind, one of that kind is there that will release it, also after a failed
   preview, a stop and a start, or an old job that ends late (bootstrap_job.go:31).
   Then the settings page finds out that nobody runs what the row calls
   running (api.go:70). *)
ReservationOwned ==
    \A kind \in Kinds : active[kind] # NoJob => \E j \in DOMAIN jobs : jobs[j].kind = kind

(* What the model keeps to at all times: its counts are those of the labels, its labels
   those of the user, and every job that is reserved is there. *)
ModelSafe == TotalsExact /\ VocabularyBounded /\ DocumentsExact /\ LearnedAsMarked /\ ReservationOwned
====
