----------------------------- MODULE SyncProofs -----------------------------
(***************************************************************************)
(* Proofs about the sync runner (Runner): who may work on a mailbox beside *)
(* whom, that the gate of a generation recovery opens on a fresh list, and *)
(* that a pass that was promised is run or held by somebody; and about the *)
(* passes over a mailbox (MailboxSync): that what the checkpoint has       *)
(* passed is complete and announced, and no change of the user is lost.    *)
(***************************************************************************)
EXTENDS Runner, MailboxSync, FiniteSetTheorems, WellFoundedInduction, TLAPS

-----------------------------------------------------------------------------
(* Jobs *)
Passes == {"sync", "replay"}
JobShape(j) == DOMAIN j = {"kind", "phase", "stop", "owner", "serves"} /\ j.stop \in BOOLEAN /\ j.serves \in BOOLEAN

\* Only a pass signals recovery, only the replay runs its passes, and a pass that has begun
\* serves who asked for it.
JobOK(j) ==
    /\ JobShape(j)
    /\ j.kind = "none" => j.phase = "none" /\ j.owner = "none"
    /\ j.phase = "signal" => j.kind \in Passes
    /\ j.kind = "recovery" => j.phase = "running"
    /\ j.owner = "replay" => j.kind = "replay"
    /\ j.kind \in Passes /\ j.phase # "reserved" => j.serves
JobsInv == DOMAIN jobs = Keys /\ (\A k \in Keys : JobOK(jobs[k])) /\ OneJobPerMailbox

\* The flags of the gate: a rebuild runs only behind the closed gate and never beside the
\* replay, and only the replay owns the pass it waits for.
GenShape(g) ==
    /\ DOMAIN g = {"users", "runs", "replay", "epoch", "known", "targets"}
    /\ g.users \in BOOLEAN /\ g.runs \in BOOLEAN /\ g.replay \in BOOLEAN /\ g.epoch \in Nat \ {0}
WorkShape(w) == DOMAIN w = {"auto", "boxes", "accts"}
ReplayShape(r) == DOMAIN r = {"pc", "work", "now"} /\ WorkShape(r.work)
ReplayInv ==
    /\ GenShape(gen) /\ ReplayShape(replay)
    /\ gen.runs => gen.users /\ ~gen.replay
    /\ gen.replay <=> replay.pc # "off"
    /\ ~gen.replay => replay = NoReplay
    /\ \A k \in Keys : jobs[k].kind = "replay" => replay.pc = "running" /\ k = replay.now

LEMMA KeyOf ==
    /\ \A b \in Boxes : <<"all", b>> \in Keys /\ <<"acct", b>> \in Keys /\ <<"all", b>>[2] = b /\ <<"acct", b>>[2] = b
    /\ \A k \in Keys : k[2] \in Boxes /\ (k = <<"all", k[2]>> \/ k = <<"acct", k[2]>>)
BY DEF Keys

\* What the job under k becomes, the others staying as they are.
Becomes(k, next) == DOMAIN jobs' = Keys /\ \A j \in Keys : jobs'[j] = IF j = k THEN next ELSE jobs[j]

LEMMA JobEnds ==
    ASSUME JobsInv, NEW k \in Keys, NEW next, Becomes(k, next), JobOK(next), next.kind \in {jobs[k].kind, "none"}
    PROVE  JobsInv'
<1>1. \A j \in Keys : JobOK(jobs'[j]) /\ (Busy(j)' => Busy(j))
  BY DEF JobsInv, Becomes, Busy
<1>2. OneJobPerMailbox'
  BY <1>1, KeyOf DEF JobsInv, OneJobPerMailbox
<1> QED BY <1>1, <1>2 DEF JobsInv, Becomes

LEMMA JobBegins ==
    ASSUME JobsInv, NEW k \in Keys, NEW next, Becomes(k, next), JobOK(next), ~ReservedByAny(k[2])
    PROVE  JobsInv'
<1>1. \A j \in Keys : JobOK(jobs'[j]) /\ (Busy(j)' => Busy(j) \/ j = k)
  BY DEF JobsInv, Becomes, Busy
<1>2. OneJobPerMailbox'
  <2>1. SUFFICES ASSUME NEW b \in Boxes, Busy(<<"all", b>>)', Busy(<<"acct", b>>)' PROVE FALSE
    BY DEF OneJobPerMailbox
  <2>2. <<"all", b>> \in Keys /\ <<"acct", b>> \in Keys /\ <<"all", b>> # <<"acct", b>>
    BY KeyOf
  <2>3. CASE k = <<"all", b>>
    BY <1>1, <2>1, <2>2, <2>3 DEF ReservedByAny
  <2>4. CASE k = <<"acct", b>>
    BY <1>1, <2>1, <2>2, <2>4 DEF ReservedByAny
  <2>5. CASE k # <<"all", b>> /\ k # <<"acct", b>>
    BY <1>1, <2>1, <2>2, <2>5 DEF JobsInv, OneJobPerMailbox
  <2> QED BY <2>3, <2>4, <2>5
<1> QED BY <1>1, <1>2 DEF JobsInv, Becomes

\* Only flags that stop a job change.
SameJob(i, j) == JobShape(j) /\ j.kind = i.kind /\ j.phase = i.phase /\ j.owner = i.owner /\ j.serves = i.serves
Marked == DOMAIN jobs' = Keys /\ \A k \in Keys : SameJob(jobs[k], jobs'[k])
LEMMA JobsMarked == ASSUME JobsInv, Marked PROVE JobsInv'
<1>1. \A j \in Keys : JobOK(jobs'[j]) /\ (Busy(j)' <=> Busy(j))
  BY DEF JobsInv, Marked, SameJob, JobOK, Busy
<1>2. OneJobPerMailbox'
  BY <1>1, KeyOf DEF JobsInv, OneJobPerMailbox
<1> QED BY <1>1, <1>2 DEF JobsInv, Marked

LEMMA StopMarks ==
    ASSUME JobsInv, NEW S, DOMAIN jobs' = Keys,
           \A k \in Keys : jobs'[k] = IF k \in S THEN [jobs[k] EXCEPT !.stop = TRUE] ELSE jobs[k]
    PROVE  Marked /\ \A k \in Keys : jobs'[k].stop = (k \in S \/ jobs[k].stop)
<1>1. ASSUME NEW k \in Keys PROVE SameJob(jobs[k], jobs'[k]) /\ jobs'[k].stop = (k \in S \/ jobs[k].stop)
  <2>1. JobShape(jobs[k])
    BY DEF JobsInv, JobOK
  <2>2. CASE k \in S
    <3>1. jobs'[k] = [jobs[k] EXCEPT !.stop = TRUE]
      BY <2>2
    <3> QED BY <2>1, <2>2, <3>1 DEF SameJob, JobShape
  <2>3. CASE k \notin S
    BY <2>1, <2>3 DEF SameJob, JobShape
  <2> QED BY <2>2, <2>3
<1> QED BY <1>1 DEF Marked

LEMMA CancelMarks ==
    ASSUME JobsInv, CancelOrdinary
    PROVE  Marked /\ \A k \in Keys : jobs'[k].stop = (StopsForRecovery(k) \/ jobs[k].stop)
<1> DEFINE S == {k \in Keys : StopsForRecovery(k)}
<1>1. DOMAIN jobs' = Keys /\ \A k \in Keys : jobs'[k] = IF k \in S THEN [jobs[k] EXCEPT !.stop = TRUE] ELSE jobs[k]
  BY DEF CancelOrdinary
<1>2. \A k \in Keys : k \in S <=> StopsForRecovery(k)
  OBVIOUS
<1> HIDE DEF S
<1> QED BY <1>1, <1>2, StopMarks

LEMMA YieldMarks ==
    ASSUME JobsInv, YieldToForeground
    PROVE  Marked /\ \A k \in Keys : jobs'[k].stop = (StopsForForeground(k) \/ jobs[k].kind = "recovery" \/ jobs[k].stop)
<1> DEFINE S == {k \in Keys : StopsForForeground(k) \/ jobs[k].kind = "recovery"}
<1>1. DOMAIN jobs' = Keys /\ \A k \in Keys : jobs'[k] = IF k \in S THEN [jobs[k] EXCEPT !.stop = TRUE] ELSE jobs[k]
  BY DEF YieldToForeground
<1>2. \A k \in Keys : k \in S <=> StopsForForeground(k) \/ jobs[k].kind = "recovery"
  OBVIOUS
<1> HIDE DEF S
<1> QED BY <1>1, <1>2, StopMarks

\* A reservation, for another kind than recovery.
Reservation(kind, owner) == [NoJob EXCEPT !.kind = kind, !.phase = "reserved", !.owner = owner]
LEMMA Reserving ==
    ASSUME JobsInv, NEW k \in Keys, NEW kind, NEW owner, Reserve(k, kind, owner)
    PROVE  /\ Becomes(k, Reservation(kind, owner)) /\ JobShape(jobs'[k])
           /\ jobs'[k].kind = kind /\ jobs'[k].phase = "reserved" /\ jobs'[k].owner = owner /\ ~jobs'[k].stop
<1>1. Becomes(k, Reservation(kind, owner))
  BY DEF JobsInv, Reserve, Becomes, Reservation
<1>2. jobs'[k] = Reservation(kind, owner)
  BY <1>1 DEF Becomes
<1> QED BY <1>1, <1>2 DEF Reservation, NoJob, JobShape

\* What a step may begin: a job while no foreground operation waits, which beside a rebuild
\* is a pass over the Inbox; or a rebuild, when nothing else runs.
Quiet == \A k \in Keys : jobs'[k].kind \in {jobs[k].kind, "none"}
Reserves(k) ==
    /\ ~ReservedByAny(k[2]) /\ Becomes(k, jobs'[k])
    /\ jobs'[k].kind \notin {"none", "recovery"} /\ jobs'[k].phase = "reserved"
    /\ ~ForegroundOn /\ UNCHANGED <<gen, fore>>
    /\ gen.runs => k = <<"acct", Inbox>> /\ jobs'[k].kind \in Passes
    /\ jobs'[k].kind = "replay" => replay.pc = "next" /\ replay'.pc = "running" /\ replay'.now = k
Recovers == ~UserWorkRunning /\ \E k \in Keys : Becomes(k, jobs'[k]) /\ jobs'[k].kind = "recovery"
SignalsStay ==
    \A k \in Keys : jobs[k].phase = "signal" => jobs'[k].phase = "signal" \/ SignalMailboxGenerationRecovery(k)
JobsStep == JobsInv' /\ SignalsStay /\ (Quiet \/ (\E k \in Keys : Reserves(k)) \/ Recovers)

LEMMA QuietSteps ==
    ASSUME JobsInv
    PROVE  /\ UNCHANGED jobs => JobsStep
           /\ Marked => JobsStep
           /\ \A k \in Keys : Becomes(k, NoJob) /\ jobs[k].phase # "signal" => JobsStep
           /\ \A k \in Keys :
                 JobOK(jobs'[k]) /\ jobs'[k].kind = jobs[k].kind /\ jobs[k].phase # "signal" /\ Becomes(k, jobs'[k]) => JobsStep
<1>1. ASSUME UNCHANGED jobs PROVE JobsStep
  <2>1. JobsInv'
    BY <1>1 DEF JobsInv, OneJobPerMailbox, Busy
  <2>2. Quiet /\ SignalsStay
    BY <1>1 DEF Quiet, SignalsStay
  <2> QED BY <2>1, <2>2 DEF JobsStep
<1>2. ASSUME Marked PROVE JobsStep
  BY <1>2, JobsMarked DEF JobsStep, Quiet, SignalsStay, Marked, SameJob
<1>3. ASSUME NEW k \in Keys, Becomes(k, NoJob), jobs[k].phase # "signal" PROVE JobsStep
  <2>1. JobOK(NoJob) /\ NoJob.kind = "none"
    BY DEF JobOK, JobShape, NoJob, Passes
  <2>2. Quiet /\ SignalsStay
    BY <1>3, <2>1 DEF Quiet, SignalsStay, Becomes
  <2>3. JobsInv'
    BY <1>3, <2>1, JobEnds
  <2> QED BY <2>2, <2>3 DEF JobsStep
<1>4. ASSUME NEW k \in Keys, JobOK(jobs'[k]), jobs'[k].kind = jobs[k].kind, jobs[k].phase # "signal", Becomes(k, jobs'[k])
      PROVE  JobsStep
  BY <1>4, JobEnds DEF JobsStep, Quiet, SignalsStay, Becomes
<1> QED BY <1>1, <1>2, <1>3, <1>4

\* A reservation for a request or for the replay.
LEMMA ReservingSteps ==
    ASSUME JobsInv, NEW k \in Keys, NEW kind, NEW owner, Reserve(k, kind, owner), ~ReservedByAny(k[2]),
           kind \notin {"none", "recovery"}, owner = "replay" => kind = "replay",
           ~ForegroundOn, UNCHANGED <<gen, fore>>, gen.runs => k = <<"acct", Inbox>> /\ kind \in Passes,
           kind = "replay" => replay.pc = "next" /\ replay'.pc = "running" /\ replay'.now = k
    PROVE  JobsStep
<1>1. /\ Becomes(k, Reservation(kind, owner)) /\ JobShape(jobs'[k])
      /\ jobs'[k].kind = kind /\ jobs'[k].phase = "reserved" /\ jobs'[k].owner = owner /\ ~jobs'[k].stop
  BY Reserving
<1>2. Becomes(k, jobs'[k])
  BY <1>1 DEF Becomes
<1>3. JobOK(jobs'[k])
  BY <1>1 DEF JobOK
<1>4. JobsInv'
  BY <1>2, <1>3, JobBegins
<1>5. Reserves(k)
  BY <1>1, <1>2 DEF Reserves
<1>6. SignalsStay
  BY <1>2, KeyOf DEF SignalsStay, Becomes, ReservedByAny, Busy, JobsInv, JobOK
<1> QED BY <1>4, <1>5, <1>6 DEF JobsStep

LEMMA GateClosed == ASSUME ReplayInv, ~Gated PROVE ~gen.runs
BY DEF ReplayInv, Gated

LEMMA Bypassed == ASSUME ReplayInv, NEW b, ~AccountGated(b), gen.runs PROVE b = Inbox
BY DEF ReplayInv, AccountGated, RecoveryPending, InboxBypass

LEMMA RequestsReserve ==
    ASSUME JobsInv, ReplayInv,
           \/ \E b \in Boxes :
                 \/ StartMailboxes(b) \/ StartAccountMailboxes(b) \/ StartPriorityMailboxes(b)
                 \/ QueueAccountMailboxes(b)
                 \/ \E kind \in {"maintenance", "committed", "search"} : StartMaintenance(b, kind)
    PROVE  JobsStep
<1>1. PICK b \in Boxes : \/ StartMailboxes(b) \/ StartAccountMailboxes(b) \/ StartPriorityMailboxes(b)
                         \/ QueueAccountMailboxes(b)
                         \/ \E kind \in {"maintenance", "committed", "search"} : StartMaintenance(b, kind)
  OBVIOUS
<1>2. /\ <<"all", b>> \in Keys /\ <<"acct", b>> \in Keys /\ <<"all", b>>[2] = b /\ <<"acct", b>>[2] = b
      /\ AccountReserved(b) <=> ReservedByAny(b)
  BY KeyOf DEF AccountReserved, ReservedByAny
<1>3. UNCHANGED jobs => JobsStep
  BY QuietSteps
<1>4. CASE StartMailboxes(b) \/ StartPriorityMailboxes(b)
  <2>1. CASE UNCHANGED jobs
    BY <1>3, <2>1
  <2>2. CASE ~UNCHANGED jobs
    <3>1. ~Gated /\ ~ReservedByAny(b) /\ ~ForegroundOn /\ Reserve(<<"all", b>>, "sync", "own") /\ UNCHANGED <<gen, fore>>
      BY <1>4, <2>2 DEF StartMailboxes, StartPriorityMailboxes, Free
    <3> QED BY <1>2, <3>1, GateClosed, ReservingSteps
  <2> QED BY <2>1, <2>2
<1>5. CASE StartAccountMailboxes(b) \/ QueueAccountMailboxes(b)
  <2>1. CASE UNCHANGED jobs
    BY <1>3, <2>1
  <2>2. CASE ~UNCHANGED jobs
    <3>1. /\ ~AccountGated(b) /\ ~AccountReserved(b) /\ ~ForegroundOn /\ Reserve(<<"acct", b>>, "sync", "own")
          /\ UNCHANGED <<gen, fore>>
      BY <1>5, <2>2 DEF StartAccountMailboxes, QueueAccountMailboxes, Free
    <3>2. gen.runs => <<"acct", b>> = <<"acct", Inbox>> /\ "sync" \in Passes
      BY <3>1, Bypassed DEF Passes
    <3> QED BY <1>2, <3>1, <3>2, ReservingSteps
  <2> QED BY <2>1, <2>2
<1>6. ASSUME NEW kind \in {"maintenance", "committed", "search"}, StartMaintenance(b, kind) PROVE JobsStep
  <2>1. CASE UNCHANGED jobs
    BY <1>3, <2>1
  <2>2. CASE ~UNCHANGED jobs
    <3>1. ~Gated /\ ~AccountReserved(b) /\ ~ForegroundOn /\ Reserve(<<"acct", b>>, kind, "own") /\ UNCHANGED <<gen, fore>>
      BY <1>6, <2>2 DEF StartMaintenance, Free
    <3> QED BY <1>2, <3>1, GateClosed, ReservingSteps
  <2> QED BY <2>1, <2>2
<1> QED BY <1>1, <1>4, <1>5, <1>6

LEMMA JobsReserve ==
    ASSUME JobsInv, ReplayInv, (\E b \in Boxes : AutoNext(b)) \/ (\E k \in Keys : ReplayNext(k)), gen.runs => ~AutoOn
    PROVE  JobsStep
<1>1. ASSUME NEW b \in Boxes, AutoNext(b) PROVE JobsStep
  <2>1. CASE UNCHANGED jobs
    BY <2>1, QuietSteps
  <2>2. CASE ~UNCHANGED jobs
    <3>1. ~Gated /\ ~ReservedByAny(b) /\ ~ForegroundOn /\ Reserve(<<"all", b>>, "sync", "auto") /\ UNCHANGED <<gen, fore>>
      BY <1>1, <2>2 DEF AutoNext, Free
    <3>2. <<"all", b>> \in Keys /\ <<"all", b>>[2] = b
      BY KeyOf
    <3> QED BY <3>1, <3>2, GateClosed, ReservingSteps
  <2> QED BY <2>1, <2>2
<1>2. ASSUME NEW k \in Keys, ReplayNext(k) PROVE JobsStep
  <2>1. CASE Interrupted
    BY <1>2, <2>1, QuietSteps DEF ReplayNext
  <2>2. CASE ~Interrupted
    <3>1. ~ReservedByAny(k[2]) /\ ~ForegroundOn /\ Reserve(k, "replay", "replay") /\ UNCHANGED <<gen, fore>>
      BY <1>2, <2>2 DEF ReplayNext, Interrupted, AccountReserved, ReservedByAny
    <3>2. ~gen.runs
      BY <2>2 DEF Interrupted, ReplayInv
    <3>3. replay.pc = "next" /\ replay'.pc = "running" /\ replay'.now = k
      BY <1>2, <2>2 DEF ReplayNext, ReplayInv, ReplayShape
    <3> QED BY <3>1, <3>2, <3>3, ReservingSteps
  <2> QED BY <2>1, <2>2
<1> QED BY <1>1, <1>2

LEMMA JobProceeds ==
    ASSUME JobsInv, NEW k \in Keys,
           BeginJob(k) \/ DiscoverGeneration(k) \/ SignalMailboxGenerationRecovery(k) \/ \E ok \in BOOLEAN : EndJob(k, ok)
    PROVE  JobsStep
<1>1. JobOK(jobs[k]) /\ JobShape(jobs[k])
  BY DEF JobsInv, JobOK
<1>2. CASE BeginJob(k)
  <2> DEFINE stop == RecoveryPending /\ ~(k = <<"acct", Inbox>> /\ jobs[k].kind \in {"sync", "replay"})
  <2> DEFINE next == [jobs[k] EXCEPT !.phase = "running", !.stop = stop, !.serves = jobs[k].kind \in {"sync", "replay"}]
  <2>1. jobs[k].phase = "reserved" /\ jobs' = [jobs EXCEPT ![k] = next]
    BY <1>2 DEF BeginJob
  <2>2. stop \in BOOLEAN
    OBVIOUS
  <2> HIDE DEF stop
  <2>3. /\ JobShape(next) /\ next.kind = jobs[k].kind /\ next.owner = jobs[k].owner /\ next.phase = "running"
        /\ next.serves = (jobs[k].kind \in {"sync", "replay"})
    BY <1>1, <2>2 DEF JobShape
  <2> HIDE DEF next
  <2>4. Becomes(k, next) /\ jobs'[k] = next
    BY <2>1 DEF Becomes, JobsInv
  <2>5. JobOK(next)
    BY <1>1, <2>1, <2>3 DEF JobOK, Passes
  <2> QED BY <2>1, <2>3, <2>4, <2>5, QuietSteps
<1>3. CASE DiscoverGeneration(k)
  <2> DEFINE next == [jobs[k] EXCEPT !.phase = "signal"]
  <2>1. jobs' = [jobs EXCEPT ![k] = next] /\ jobs[k].kind \in Passes /\ jobs[k].phase = "running"
    BY <1>3 DEF DiscoverGeneration, Passes
  <2>2. /\ JobShape(next) /\ next.kind = jobs[k].kind /\ next.owner = jobs[k].owner /\ next.phase = "signal"
        /\ next.serves = jobs[k].serves
    BY <1>1 DEF JobShape
  <2> HIDE DEF next
  <2>3. Becomes(k, next) /\ jobs'[k] = next
    BY <2>1 DEF Becomes, JobsInv
  <2>4. JobOK(next)
    BY <1>1, <2>1, <2>2 DEF JobOK, Passes
  <2> QED BY <2>1, <2>2, <2>3, <2>4, QuietSteps
<1>4. CASE SignalMailboxGenerationRecovery(k)
  <2>1. jobs[k].phase = "signal" /\ jobs[k].kind \in Passes
    BY <1>1, <1>4 DEF SignalMailboxGenerationRecovery, JobOK
  <2>2. ASSUME NEW j \in Keys
        PROVE  /\ JobShape(jobs'[j]) /\ jobs'[j].kind = jobs[j].kind /\ jobs'[j].owner = jobs[j].owner
               /\ jobs'[j].serves = jobs[j].serves /\ jobs'[j].phase = IF j = k THEN "running" ELSE jobs[j].phase
    <3>1. JobShape(jobs[j])
      BY DEF JobsInv, JobOK
    <3>2. jobs'[j] = IF j = k THEN [jobs[j] EXCEPT !.stop = TRUE, !.phase = "running"]
                     ELSE IF StopsForRecovery(j) THEN [jobs[j] EXCEPT !.stop = TRUE] ELSE jobs[j]
      BY <1>4 DEF SignalMailboxGenerationRecovery
    <3> QED BY <3>1, <3>2 DEF JobShape
  <2>3. DOMAIN jobs' = Keys
    BY <1>4 DEF SignalMailboxGenerationRecovery
  <2>4. \A j \in Keys : JobOK(jobs'[j]) /\ (Busy(j)' <=> Busy(j))
    BY <2>1, <2>2 DEF JobsInv, JobOK, Busy, Passes
  <2>5. OneJobPerMailbox'
    BY <2>4, KeyOf DEF JobsInv, OneJobPerMailbox
  <2>6. Quiet /\ SignalsStay
    BY <1>4, <2>2 DEF Quiet, SignalsStay
  <2> QED BY <2>3, <2>4, <2>5, <2>6 DEF JobsStep, JobsInv
<1>5. CASE \E ok \in BOOLEAN : EndJob(k, ok)
  <2>1. Becomes(k, NoJob) /\ jobs[k].phase # "signal"
    BY <1>5 DEF EndJob, Becomes, JobsInv
  <2> QED BY <2>1, QuietSteps
<1> QED BY <1>2, <1>3, <1>4, <1>5

LEMMA ReconcileJobs ==
    ASSUME JobsInv, NEW list, NEW pending, NEW scanned, NEW epoch, Reconcile(list, pending, scanned, epoch)
    PROVE  JobsStep
<1>1. UNCHANGED jobs \/ CancelOrdinary
  BY DEF Reconcile
<1> QED BY <1>1, CancelMarks, QuietSteps

LEMMA RebuildJobs == ASSUME JobsInv, AttemptRebuild, loop.list \subseteq Boxes PROVE JobsStep
<1> DEFINE k == <<"acct", First(loop.list)>>
<1> DEFINE next == [NoJob EXCEPT !.kind = "recovery", !.phase = "running", !.owner = "own"]
<1>1. CASE ~MayRecover
  <2>1. UNCHANGED jobs \/ CancelOrdinary
    BY <1>1 DEF AttemptRebuild
  <2> QED BY <2>1, CancelMarks, QuietSteps
<1>2. CASE MayRecover
  <2>1. k \in Keys /\ k[2] \in Boxes
    <3>1. First(loop.list) \in loop.list
      BY DEF AttemptRebuild, First
    <3> QED BY <3>1, KeyOf
  <2>2. JobOK(next) /\ next.kind = "recovery"
    BY DEF JobOK, JobShape, NoJob, Passes
  <2>3. jobs' = [jobs EXCEPT ![k] = next]
    BY <1>2 DEF AttemptRebuild
  <2> HIDE DEF next
  <2>4. Becomes(k, next) /\ jobs'[k] = next
    BY <2>1, <2>3 DEF Becomes, JobsInv
  <2>5. ~UserWorkRunning /\ ~ReservedByAny(k[2])
    BY <1>2, <2>1, KeyOf DEF MayRecover, UserWorkRunning, OrdinaryRunning, ReservedByAny
  <2>6. Recovers
    BY <2>1, <2>2, <2>4, <2>5 DEF Recovers
  <2> HIDE DEF k
  <2>7. JobsInv'
    BY <2>1, <2>2, <2>4, <2>5, JobBegins
  <2>8. SignalsStay
    BY <2>1, <2>4, <2>5, KeyOf DEF SignalsStay, Becomes, ReservedByAny, Busy, JobsInv, JobOK
  <2> QED BY <2>6, <2>7, <2>8 DEF JobsStep
<1> QED BY <1>1, <1>2

LEMMA EndRecoveryJobs ==
    ASSUME JobsInv, NEW b \in Boxes, NEW ok \in BOOLEAN, EndRecovery(b, ok)
    PROVE  JobsStep
<1>1. <<"acct", b>> \in Keys /\ Becomes(<<"acct", b>>, NoJob) /\ jobs[<<"acct", b>>].phase # "signal"
  BY KeyOf DEF EndRecovery, Becomes, JobsInv, JobOK
<1> QED BY <1>1, QuietSteps

\* Every step begins or ends jobs in one of these ways.
AloneInv ==
    gen.runs => /\ ~AutoOn
                /\ \A k \in Keys : Busy(k) /\ jobs[k].kind # "recovery" => k = <<"acct", Inbox>> /\ jobs[k].kind \in Passes
Shapes ==
    /\ WorkShape(genWork) /\ WorkShape(foreWork)
    /\ DOMAIN auto = {"pc", "stop", "todo", "held"} /\ DOMAIN loop = {"on", "wake", "pc", "list", "epoch"}
    /\ again \subseteq Keys /\ owed \subseteq Boxes /\ markers \subseteq Boxes /\ loop.list \subseteq Boxes

LEMMA JobSteps ==
    ASSUME JobsInv, ReplayInv, AloneInv, Shapes, [RunnerNext]_runVars
    PROVE  JobsStep
<1>1. UNCHANGED jobs => JobsStep
  BY QuietSteps
<1>2. CASE UNCHANGED runVars
  BY <1>1, <1>2 DEF runVars
<1>3. CASE \E c \in Requests : Ask(c)
  BY <1>1, <1>3 DEF Ask
<1>4. CASE CallStep
  <2>1. CASE Start \/ RefreshGate \/ RefreshSenderStats \/ StartAttachmentIndex \/ \E c \in calls : GiveUpWaiting(c)
    BY <1>1, <2>1 DEF Start, RefreshGate, RefreshSenderStats, StartAttachmentIndex, GiveUpWaiting
  <2>2. CASE BeginForegroundOperation
    BY <2>2, YieldMarks, QuietSteps DEF BeginForegroundOperation
  <2>3. CASE \E c \in calls : DecideGate(c)
    BY <2>3, ReconcileJobs DEF DecideGate
  <2>4. CASE \E b \in Boxes :
                \/ StartMailboxes(b) \/ StartAccountMailboxes(b) \/ StartPriorityMailboxes(b)
                \/ QueueAccountMailboxes(b)
                \/ \E kind \in {"maintenance", "committed", "search"} : StartMaintenance(b, kind)
    BY <2>4, RequestsReserve
  <2> QED BY <1>4, <2>1, <2>2, <2>3, <2>4 DEF CallStep
<1>5. CASE JobStep
  <2>1. CASE \E ok \in BOOLEAN : SenderStatsDone(ok) \/ \E more \in BOOLEAN : AttachmentIndexDone(ok, more)
    BY <1>1, <2>1 DEF SenderStatsDone, AttachmentIndexDone
  <2>2. CASE \E k \in Keys : \/ BeginJob(k) \/ DiscoverGeneration(k) \/ SignalMailboxGenerationRecovery(k)
                             \/ \E ok \in BOOLEAN : EndJob(k, ok)
    BY <2>2, JobProceeds
  <2>3. CASE \E b \in Boxes, ok \in BOOLEAN : EndRecovery(b, ok)
    BY <2>3, EndRecoveryJobs
  <2> QED BY <1>5, <2>1, <2>2, <2>3 DEF JobStep
<1>6. CASE AutoStep
  <2>1. CASE AutoPlan \/ AutoEnd
    BY <1>1, <2>1 DEF AutoPlan, AutoEnd
  <2>2. CASE \E b \in Boxes : AutoNext(b)
    BY <2>2, JobsReserve DEF AloneInv
  <2> QED BY <1>6, <2>1, <2>2 DEF AutoStep
<1>7. CASE ForegroundStep
  <2>1. CASE PreemptAgain
    BY <2>1, YieldMarks, QuietSteps DEF PreemptAgain
  <2>2. CASE ForegroundAcquired \/ ForegroundTimeout \/ FinishForeground
    BY <1>1, <2>2 DEF ForegroundAcquired, ForegroundTimeout, FinishForeground
  <2> QED BY <1>7, <2>1, <2>2 DEF ForegroundStep
<1>8. CASE LoopStep
  <2>1. CASE ScanRebuilds \/ LoopDecides
    BY <1>1, <2>1 DEF ScanRebuilds, LoopDecides
  <2>2. CASE ReconcileScan
    BY <2>2, ReconcileJobs DEF ReconcileScan
  <2>3. CASE AttemptRebuild
    BY <2>3, RebuildJobs DEF Shapes
  <2> QED BY <1>8, <2>1, <2>2, <2>3 DEF LoopStep
<1>9. CASE ReplayStep
  <2>1. CASE PrepareReplay \/ ReplayReturned
    BY <1>1, <2>1 DEF PrepareReplay, ReplayReturned
  <2>2. CASE ReplayEnds
    <3>1. UNCHANGED jobs \/ CancelOrdinary
      BY <2>2 DEF ReplayEnds
    <3> QED BY <3>1, CancelMarks, QuietSteps
  <2>3. CASE \E k \in Keys : ReplayNext(k)
    BY <2>3, JobsReserve DEF AloneInv
  <2> QED BY <1>9, <2>1, <2>2, <2>3 DEF ReplayStep
<1> QED BY <1>2, <1>3, <1>4, <1>5, <1>6, <1>7, <1>8, <1>9 DEF RunnerNext

-----------------------------------------------------------------------------
(* Shapes *)
LEMMA ReconcileShapes ==
    ASSUME Shapes, NEW list, NEW pending, NEW scanned, NEW epoch, Reconcile(list, pending, scanned, epoch)
    PROVE  WorkShape(genWork') /\ DOMAIN auto' = DOMAIN auto /\ owed' \subseteq owed
BY DEF Shapes, Reconcile, CancelOrdinary, NoWork, WorkShape

LEMMA PauseShapes ==
    ASSUME Shapes, ReplayInv, NEW w, WorkShape(w), Pause(w)
    PROVE  /\ WorkShape(genWork') /\ WorkShape(foreWork') /\ DOMAIN loop' = DOMAIN loop /\ loop'.list = loop.list
           /\ GenShape(gen') /\ gen'.users = gen.users /\ gen'.runs = gen.runs /\ gen'.epoch = gen.epoch /\ ~gen'.replay
           /\ replay' = NoReplay
BY DEF Shapes, ReplayInv, GenShape, Pause, Join, WorkShape, WokenLoop

LEMMA RequestShapes ==
    ASSUME Shapes, NEW b \in Boxes,
           \/ StartMailboxes(b) \/ StartAccountMailboxes(b) \/ StartPriorityMailboxes(b) \/ QueueAccountMailboxes(b)
           \/ \E kind \in {"maintenance", "committed", "search"} : StartMaintenance(b, kind)
    PROVE  Shapes'
<1>1. <<"all", b>> \in Keys /\ <<"acct", b>> \in Keys
  BY KeyOf
<1>2. CASE StartMailboxes(b) \/ StartAccountMailboxes(b) \/ \E kind \in {"maintenance", "committed", "search"} : StartMaintenance(b, kind)
  <2>1. UNCHANGED <<foreWork, auto, loop, again, owed, markers>>
    BY <1>2 DEF StartMailboxes, StartAccountMailboxes, StartMaintenance
  <2>2. WorkShape(genWork')
    BY <1>2 DEF StartMailboxes, StartAccountMailboxes, StartMaintenance, Shapes, WorkShape
  <2> QED BY <2>1, <2>2 DEF Shapes
<1>3. CASE StartPriorityMailboxes(b)
  BY <1>1, <1>3 DEF StartPriorityMailboxes, Shapes, WorkShape
<1>4. CASE QueueAccountMailboxes(b)
  BY <1>1, <1>4 DEF QueueAccountMailboxes, Shapes, WorkShape
<1> QED BY <1>2, <1>3, <1>4

LEMMA ShapesKept == ASSUME Shapes, ReplayInv, JobsInv, [RunnerNext]_runVars PROVE Shapes'
<1>1. UNCHANGED <<genWork, foreWork, auto, loop, again, owed, markers>> => Shapes'
  BY DEF Shapes
<1>2. CASE UNCHANGED runVars
  BY <1>1, <1>2 DEF runVars
<1>3. ASSUME NEW c \in Requests, Ask(c) PROVE Shapes'
  <2>1. c.op = "queue" => c.box \in Boxes
    BY <1>3, RunnerAssumption DEF Requests, Every, Call
  <2> QED BY <1>3, <2>1 DEF Ask, Shapes
<1>4. CASE CallStep
  <2>1. CASE Start
    BY <2>1 DEF Start, Shapes, WorkShape
  <2>2. CASE BeginForegroundOperation
    BY <2>2 DEF BeginForegroundOperation, YieldToForeground, Shapes, WorkShape
  <2>3. CASE RefreshGate \/ RefreshSenderStats \/ StartAttachmentIndex \/ \E c \in calls : GiveUpWaiting(c)
    BY <1>1, <2>3 DEF RefreshGate, RefreshSenderStats, StartAttachmentIndex, GiveUpWaiting
  <2>4. ASSUME NEW c \in calls, DecideGate(c) PROVE Shapes'
    BY <2>4, ReconcileShapes DEF DecideGate, Shapes, WokenLoop
  <2>5. CASE \E b \in Boxes :
                \/ StartMailboxes(b) \/ StartAccountMailboxes(b) \/ StartPriorityMailboxes(b)
                \/ QueueAccountMailboxes(b)
                \/ \E kind \in {"maintenance", "committed", "search"} : StartMaintenance(b, kind)
    BY <2>5, RequestShapes
  <2> QED BY <1>4, <2>1, <2>2, <2>3, <2>4, <2>5 DEF CallStep
<1>5. CASE JobStep
  <2>1. ASSUME NEW k \in Keys, BeginJob(k) \/ DiscoverGeneration(k) PROVE Shapes'
    BY <2>1, KeyOf DEF BeginJob, DiscoverGeneration, Shapes
  <2>2. ASSUME NEW k \in Keys, SignalMailboxGenerationRecovery(k) PROVE Shapes'
    BY <2>2 DEF SignalMailboxGenerationRecovery, Shapes, WokenLoop
  <2>3. ASSUME NEW k \in Keys, NEW ok \in BOOLEAN, EndJob(k, ok) PROVE Shapes'
    BY <2>3 DEF EndJob, WithoutReruns, Shapes
  <2>4. ASSUME NEW b \in Boxes, NEW ok \in BOOLEAN, EndRecovery(b, ok) PROVE Shapes'
    BY <2>4 DEF EndRecovery, Shapes
  <2>5. CASE \E ok \in BOOLEAN : SenderStatsDone(ok) \/ \E more \in BOOLEAN : AttachmentIndexDone(ok, more)
    BY <2>5 DEF SenderStatsDone, AttachmentIndexDone, Shapes, WokenLoop
  <2> QED BY <1>5, <2>1, <2>2, <2>3, <2>4, <2>5 DEF JobStep
<1>6. CASE AutoStep
  <2>1. CASE AutoPlan \/ AutoEnd
    BY <2>1 DEF AutoPlan, AutoEnd, Shapes
  <2>2. ASSUME NEW b \in Boxes, AutoNext(b) PROVE Shapes'
    BY <2>2 DEF AutoNext, Shapes, WorkShape
  <2> QED BY <1>6, <2>1, <2>2 DEF AutoStep
<1>7. CASE ForegroundStep
  <2>1. CASE PreemptAgain
    BY <2>1 DEF PreemptAgain, YieldToForeground, Shapes, WorkShape
  <2>2. CASE ForegroundAcquired \/ ForegroundTimeout
    BY <1>1, <2>2 DEF ForegroundAcquired, ForegroundTimeout
  <2>3. CASE FinishForeground
    BY <2>3 DEF FinishForeground, Shapes, WorkShape, NoWork, WokenLoop
  <2> QED BY <1>7, <2>1, <2>2, <2>3 DEF ForegroundStep
<1>8. CASE LoopStep
  <2>1. CASE ScanRebuilds \/ LoopDecides
    BY <2>1 DEF ScanRebuilds, LoopDecides, Shapes
  <2>2. CASE ReconcileScan
    BY <2>2, ReconcileShapes DEF ReconcileScan, Shapes
  <2>3. CASE AttemptRebuild
    BY <2>3 DEF AttemptRebuild, CancelOrdinary, Shapes
  <2> QED BY <1>8, <2>1, <2>2, <2>3 DEF LoopStep
<1>9. CASE ReplayStep
  <2>1. WorkShape(replay.work) /\ WorkShape(NoWork)
    BY DEF ReplayInv, ReplayShape, NoWork, WorkShape
  <2>2. ASSUME NEW w, WorkShape(w), Pause(w), UNCHANGED <<auto, again, owed, markers>> PROVE Shapes'
    BY <2>2, PauseShapes DEF Shapes
  <2>3. CASE PrepareReplay \/ ReplayReturned \/ \E k \in Keys : ReplayNext(k)
    <3>1. UNCHANGED <<auto, again, owed, markers>> /\ (Pause(replay.work) \/ UNCHANGED <<genWork, foreWork, loop>>)
      BY <2>3 DEF PrepareReplay, ReplayReturned, ReplayNext
    <3> QED BY <1>1, <2>1, <2>2, <3>1
  <2>4. CASE ReplayEnds
    <3>1. CASE markers # {}
      BY <2>4, <3>1 DEF ReplayEnds, CancelOrdinary, WokenLoop, Shapes
    <3>2. CASE markers = {} /\ gen.users
      BY <2>1, <2>2, <2>4, <3>2 DEF ReplayEnds
    <3>3. CASE markers = {} /\ ~gen.users
      BY <2>1, <2>4, <3>3 DEF ReplayEnds, Shapes
    <3> QED BY <3>1, <3>2, <3>3
  <2> QED BY <1>9, <2>3, <2>4 DEF ReplayStep
<1> QED BY <1>2, <1>3, <1>4, <1>5, <1>6, <1>7, <1>8, <1>9 DEF RunnerNext

-----------------------------------------------------------------------------
(* The flags of the gate and the replay *)
OwnPass == \A k \in Keys : jobs[k].kind = "replay" => replay.pc = "running" /\ k = replay.now
Flags ==
    /\ gen.runs => gen.users /\ ~gen.replay
    /\ gen.replay <=> replay.pc # "off"
    /\ ~gen.replay => replay = NoReplay

LEMMA ReplayParts ==
    /\ ReplayInv <=> GenShape(gen) /\ ReplayShape(replay) /\ Flags /\ OwnPass
    /\ ReplayInv' <=> GenShape(gen') /\ ReplayShape(replay') /\ Flags' /\ OwnPass'
BY DEF ReplayInv, Flags, OwnPass

\* A pass of the replay begins only when the replay takes its next mailbox.
LEMMA PassesOwned ==
    ASSUME JobsStep, JobsInv
    PROVE  \A k \in Keys : jobs'[k].kind = "replay" =>
              jobs[k].kind = "replay" \/ (replay.pc = "next" /\ replay'.pc = "running" /\ replay'.now = k)
<1> SUFFICES ASSUME NEW k \in Keys, jobs'[k].kind = "replay"
             PROVE  jobs[k].kind = "replay" \/ (replay.pc = "next" /\ replay'.pc = "running" /\ replay'.now = k)
  OBVIOUS
<1>1. CASE Quiet
  BY <1>1 DEF Quiet
<1>2. ASSUME NEW j \in Keys, Reserves(j) PROVE jobs[k].kind = "replay" \/ (replay.pc = "next" /\ replay'.pc = "running" /\ replay'.now = k)
  BY <1>2 DEF Reserves, Becomes
<1>3. CASE Recovers
  BY <1>3 DEF Recovers, Becomes
<1> QED BY <1>1, <1>2, <1>3 DEF JobsStep

LEMMA OwnPassKept ==
    ASSUME JobsStep, JobsInv, OwnPass, replay.pc \in {"next", "running"} => replay'.pc = replay.pc /\ replay'.now = replay.now
    PROVE  OwnPass'
BY PassesOwned DEF OwnPass

LEMMA ReconcileFlags ==
    ASSUME JobsStep, JobsInv, ReplayInv, Shapes, NEW list, NEW pending, NEW scanned, NEW epoch,
           Reconcile(list, pending, scanned, epoch)
    PROVE  ReplayInv'
<1>1. GenShape(gen) /\ ReplayShape(replay) /\ Flags /\ OwnPass
  BY ReplayParts
<1>2. CASE pending
  <2>1. GenShape(gen') /\ gen'.users /\ gen'.runs = gen.runs /\ gen'.replay = gen.replay /\ replay' = replay
    <3> DEFINE epoch1 == IF gen.users THEN gen.epoch ELSE gen.epoch + 1
    <3> DEFINE known1 == gen.known \/ (scanned /\ (~gen.users \/ Fresh(epoch)))
    <3> DEFINE targets1 == IF scanned /\ (~gen.users \/ Fresh(epoch)) THEN list ELSE gen.targets
    <3>1. gen' = [gen EXCEPT !.users = TRUE, !.epoch = epoch1, !.known = known1, !.targets = targets1] /\ UNCHANGED replay
      BY <1>2 DEF Reconcile
    <3>2. epoch1 \in Nat \ {0}
      BY <1>1 DEF GenShape
    <3> HIDE DEF epoch1, known1, targets1
    <3> QED BY <1>1, <3>1, <3>2 DEF GenShape
  <2>2. OwnPass'
    BY <1>1, <2>1, OwnPassKept
  <2> QED BY <1>1, <2>1, <2>2, ReplayParts DEF Flags
<1>3. CASE ~pending /\ gen.users /\ MayOpen(epoch)
  <2>1. ~gen.runs /\ ~gen.replay /\ replay = NoReplay /\ replay.pc = "off"
    BY <1>1, <1>3 DEF MayOpen, Flags, GenShape
  <2>2. GenShape(gen') /\ ~gen'.runs /\ gen'.replay
    BY <1>1, <1>3, <2>1 DEF Reconcile, GenShape
  <2>3. replay' = [NoReplay EXCEPT !.pc = "prepare", !.work = genWork]
    BY <1>3 DEF Reconcile
  <2>4. ReplayShape(replay') /\ replay'.pc = "prepare"
    BY <2>3 DEF NoReplay, ReplayShape, Shapes
  <2>5. OwnPass'
    BY <1>1, <2>1, OwnPassKept
  <2> QED BY <2>2, <2>4, <2>5, ReplayParts DEF Flags
<1>4. CASE ~pending /\ ~(gen.users /\ MayOpen(epoch))
  <2>1. /\ GenShape(gen') /\ gen'.users = gen.users /\ gen'.runs = gen.runs /\ gen'.replay = gen.replay
        /\ replay' = replay
    BY <1>1, <1>4 DEF Reconcile, GenShape
  <2>2. OwnPass'
    BY <1>1, <2>1, OwnPassKept
  <2> QED BY <1>1, <2>1, <2>2, ReplayParts DEF Flags
<1> QED BY <1>2, <1>3, <1>4

\* While no pass of the replay is under way it may be paused.
LEMMA PauseFlags ==
    ASSUME JobsStep, JobsInv, ReplayInv, Shapes, NEW w, WorkShape(w), Pause(w), gen.replay,
           replay.pc # "running", UNCHANGED jobs
    PROVE  ReplayInv'
<1>1. /\ GenShape(gen') /\ gen'.users = gen.users /\ gen'.runs = gen.runs /\ ~gen'.replay /\ replay' = NoReplay
  BY PauseShapes
<1>2. NoReplay.pc = "off" /\ ReplayShape(NoReplay)
  BY DEF NoReplay, NoWork, ReplayShape, WorkShape
<1>3. ~gen.runs /\ OwnPass'
  BY DEF ReplayInv, OwnPass
<1> HIDE DEF NoReplay
<1> QED BY <1>1, <1>2, <1>3, ReplayParts DEF Flags

LEMMA ReplayFlags ==
    ASSUME JobsStep, JobsInv, ReplayInv, Shapes, ReplayStep
    PROVE  ReplayInv'
<1>1. GenShape(gen) /\ ReplayShape(replay) /\ Flags /\ OwnPass /\ WorkShape(replay.work) /\ WorkShape(NoWork)
  BY ReplayParts DEF ReplayShape, NoWork, WorkShape
<1>2. ASSUME gen' = gen, ReplayShape(replay'), replay.pc # "off", replay'.pc # "off", OwnPass' PROVE ReplayInv'
  BY <1>1, <1>2, ReplayParts DEF Flags
<1>3. CASE PrepareReplay
  <2>1. CASE Interrupted
    BY <1>1, <1>3, <2>1, PauseFlags DEF PrepareReplay, Flags
  <2>2. CASE ~Interrupted
    <3>1. /\ gen' = gen /\ replay' = [replay EXCEPT !.pc = "next", !.work = Prepared(replay.work)]
          /\ replay.pc = "prepare" /\ UNCHANGED jobs
      BY <1>3, <2>2 DEF PrepareReplay
    <3>2. ReplayShape(replay') /\ replay'.pc = "next"
      BY <1>1, <3>1 DEF ReplayShape, Prepared, WorkShape
    <3> QED BY <1>1, <1>2, <3>1, <3>2, OwnPassKept
  <2> QED BY <2>1, <2>2
<1>4. CASE ReplayReturned
  <2>1. CASE replay.pc = "pause" \/ Interrupted
    BY <1>1, <1>4, <2>1, PauseFlags DEF ReplayReturned, Flags
  <2>2. CASE ~(replay.pc = "pause" \/ Interrupted)
    <3>1. /\ gen' = gen /\ replay' = [replay EXCEPT !.pc = "next", !.work = Without(replay.work, replay.now)]
          /\ replay.pc = "done" /\ UNCHANGED jobs
      BY <1>4, <2>2 DEF ReplayReturned
    <3>2. ReplayShape(replay') /\ replay'.pc = "next"
      BY <1>1, <3>1 DEF ReplayShape, Without, WorkShape
    <3> QED BY <1>1, <1>2, <3>1, <3>2, OwnPassKept
  <2> QED BY <2>1, <2>2
<1>5. ASSUME NEW k \in Keys, ReplayNext(k) PROVE ReplayInv'
  <2>1. CASE Interrupted
    BY <1>1, <1>5, <2>1, PauseFlags DEF ReplayNext, Flags
  <2>2. CASE ~Interrupted
    <3>1. gen' = gen /\ replay' = [replay EXCEPT !.pc = "running", !.now = k] /\ replay.pc = "next"
      BY <1>5, <2>2 DEF ReplayNext
    <3>2. ReplayShape(replay') /\ replay'.pc = "running" /\ replay'.now = k
      BY <1>1, <3>1 DEF ReplayShape
    <3>3. OwnPass'
      BY <1>1, <3>1, <3>2, PassesOwned DEF OwnPass
    <3> QED BY <1>2, <3>1, <3>2, <3>3
  <2> QED BY <2>1, <2>2
<1>6. CASE ReplayEnds
  <2>1. replay.pc = "next" /\ gen.replay /\ ~gen.runs
    BY <1>1, <1>6 DEF ReplayEnds, Flags
  <2>2. \A k \in Keys : jobs[k].kind # "replay"
    BY <1>1, <2>1 DEF OwnPass
  <2>3. ASSUME replay'.pc # "running" PROVE OwnPass'
    BY <2>2, <2>3, PassesOwned DEF OwnPass
  <2>4. NoReplay.pc = "off" /\ ReplayShape(NoReplay)
    BY DEF NoReplay, NoWork, ReplayShape, WorkShape
  <2>5. ASSUME GenShape(gen'), gen'.runs = gen.runs, ~gen'.replay, replay' = NoReplay PROVE ReplayInv'
    BY <2>1, <2>3, <2>4, <2>5, ReplayParts DEF Flags
  <2>6. CASE markers # {}
    <3>1. gen' = [SignalledGen EXCEPT !.replay = FALSE] /\ replay' = NoReplay
      BY <1>6, <2>6 DEF ReplayEnds
    <3> QED BY <1>1, <2>5, <3>1 DEF GenShape, SignalledGen
  <2>7. CASE markers = {} /\ gen.users
    <3>1. Pause(NoWork)
      BY <1>6, <2>7 DEF ReplayEnds
    <3> QED BY <1>1, <2>5, <3>1, PauseShapes
  <2>8. CASE markers = {} /\ ~gen.users /\ genWork # NoWork
    <3>1. gen' = gen /\ replay' = [NoReplay EXCEPT !.pc = "prepare", !.work = genWork]
      BY <1>6, <2>8 DEF ReplayEnds
    <3>2. ReplayShape(replay') /\ replay'.pc = "prepare"
      BY <3>1 DEF NoReplay, ReplayShape, Shapes
    <3> QED BY <1>2, <2>1, <2>3, <3>1, <3>2
  <2>9. CASE markers = {} /\ ~gen.users /\ genWork = NoWork
    <3>1. gen' = [gen EXCEPT !.replay = FALSE] /\ replay' = NoReplay
      BY <1>6, <2>9 DEF ReplayEnds
    <3> QED BY <1>1, <2>5, <3>1 DEF GenShape
  <2> QED BY <2>6, <2>7, <2>8, <2>9
<1> QED BY <1>3, <1>4, <1>5, <1>6 DEF ReplayStep

LEMMA RebuildGen ==
    ASSUME AttemptRebuild, GenShape(gen)
    PROVE  /\ GenShape(gen') /\ gen'.users /\ gen'.replay = gen.replay /\ UNCHANGED replay
           /\ gen'.epoch >= gen.epoch
           /\ gen'.runs => gen.runs \/ (MayRecover /\ ~gen.replay)
<1> DEFINE g == IF gen.users THEN gen ELSE [gen EXCEPT !.users = TRUE, !.epoch = @ + 1]
<1>1. GenShape(g) /\ g.users /\ g.replay = gen.replay /\ g.runs = gen.runs /\ g.epoch >= gen.epoch
  <2>1. CASE gen.users
    <3>1. g = gen
      BY <2>1
    <3>2. gen.epoch >= gen.epoch
      BY DEF GenShape
    <3> QED BY <2>1, <3>1, <3>2
  <2>2. CASE ~gen.users
    <3>1. g = [gen EXCEPT !.users = TRUE, !.epoch = gen.epoch + 1]
      BY <2>2
    <3> HIDE DEF g
    <3>2. g.epoch = gen.epoch + 1 /\ g.users /\ g.replay = gen.replay /\ g.runs = gen.runs /\ DOMAIN g = DOMAIN gen
      BY <3>1 DEF GenShape
    <3> QED BY <3>2 DEF GenShape
  <2> QED BY <2>1, <2>2
<1>2. UNCHANGED replay /\ (gen' = g \/ (MayRecover /\ gen' = [g EXCEPT !.runs = TRUE]))
  BY DEF AttemptRebuild
<1> HIDE DEF g
<1> QED BY <1>1, <1>2 DEF GenShape, MayRecover

LEMMA ReplayKept == ASSUME JobsInv, ReplayInv, Shapes, JobsStep, [RunnerNext]_runVars PROVE ReplayInv'
<1>1. GenShape(gen) /\ ReplayShape(replay) /\ Flags /\ OwnPass
  BY ReplayParts
<1>2. ASSUME UNCHANGED replay, GenShape(gen'), gen'.runs => gen'.users /\ ~gen'.replay, gen'.replay = gen.replay PROVE ReplayInv'
  BY <1>1, <1>2, OwnPassKept, ReplayParts DEF Flags
<1>3. ASSUME UNCHANGED <<gen, replay>> PROVE ReplayInv'
  BY <1>1, <1>2, <1>3 DEF Flags
<1>4. CASE UNCHANGED runVars
  BY <1>3, <1>4 DEF runVars
<1>5. CASE \E c \in Requests : Ask(c)
  BY <1>3, <1>5 DEF Ask
<1>6. CASE CallStep
  <2>1. CASE \E c \in calls : DecideGate(c)
    BY <2>1, ReconcileFlags DEF DecideGate
  <2>2. CASE Start \/ BeginForegroundOperation \/ RefreshGate \/ RefreshSenderStats \/ StartAttachmentIndex \/ \E c \in calls : GiveUpWaiting(c)
    BY <1>3, <2>2
    DEF Start, BeginForegroundOperation, RefreshGate, RefreshSenderStats, StartAttachmentIndex, GiveUpWaiting
  <2>3. CASE \E b \in Boxes :
          \/ StartMailboxes(b) \/ StartAccountMailboxes(b) \/ StartPriorityMailboxes(b) \/ QueueAccountMailboxes(b)
          \/ \E kind \in {"maintenance", "committed", "search"} : StartMaintenance(b, kind)
    BY <1>3, <2>3
    DEF StartMailboxes, StartAccountMailboxes, StartPriorityMailboxes, QueueAccountMailboxes, StartMaintenance
  <2> QED BY <1>6, <2>1, <2>2, <2>3 DEF CallStep
<1>7. CASE JobStep
  <2>1. ASSUME NEW k \in Keys, BeginJob(k) \/ DiscoverGeneration(k) PROVE ReplayInv'
    BY <1>3, <2>1 DEF BeginJob, DiscoverGeneration
  <2>2. ASSUME NEW k \in Keys, SignalMailboxGenerationRecovery(k) PROVE ReplayInv'
    <3>1. /\ GenShape(gen') /\ gen'.users /\ gen'.runs = gen.runs /\ gen'.replay = gen.replay /\ UNCHANGED replay
      <4>1. gen' = SignalledGen /\ UNCHANGED replay
        BY <2>2 DEF SignalMailboxGenerationRecovery
      <4> QED BY <1>1, <4>1 DEF SignalledGen, GenShape
    <3> QED BY <1>1, <1>2, <3>1 DEF Flags
  <2>3. ASSUME NEW k \in Keys, NEW ok \in BOOLEAN, EndJob(k, ok) PROVE ReplayInv'
    <3>1. CASE UNCHANGED replay
      BY <1>3, <2>3, <3>1 DEF EndJob
    <3>2. CASE ~UNCHANGED replay
      <4>1. /\ jobs[k].owner = "replay" /\ replay' = [replay EXCEPT !.pc = IF ok THEN "done" ELSE "pause"]
            /\ jobs' = [jobs EXCEPT ![k] = NoJob] /\ gen' = gen
        BY <2>3, <3>2 DEF EndJob
      <4>2. jobs[k].kind = "replay" /\ DOMAIN jobs = Keys
        BY <4>1 DEF JobsInv, JobOK
      <4>3. replay.pc = "running" /\ k = replay.now
        BY <1>1, <4>2 DEF OwnPass
      <4>4. ReplayShape(replay') /\ replay'.pc \in {"done", "pause"}
        BY <1>1, <4>1 DEF ReplayShape
      <4>5. \A j \in Keys : jobs'[j].kind # "replay"
        BY <1>1, <4>1, <4>2, <4>3 DEF OwnPass, NoJob
      <4> QED BY <1>1, <4>1, <4>3, <4>4, <4>5, ReplayParts DEF Flags, OwnPass
    <3> QED BY <3>1, <3>2
  <2>4. ASSUME NEW b \in Boxes, NEW ok \in BOOLEAN, EndRecovery(b, ok) PROVE ReplayInv'
    <3>1. GenShape(gen') /\ ~gen'.runs /\ gen'.replay = gen.replay /\ UNCHANGED replay
      BY <1>1, <2>4 DEF EndRecovery, GenShape
    <3> QED BY <1>2, <3>1
  <2>5. CASE \E ok \in BOOLEAN : SenderStatsDone(ok) \/ \E more \in BOOLEAN : AttachmentIndexDone(ok, more)
    BY <1>3, <2>5 DEF SenderStatsDone, AttachmentIndexDone
  <2> QED BY <1>7, <2>1, <2>2, <2>3, <2>4, <2>5 DEF JobStep
<1>8. CASE AutoStep
  BY <1>3, <1>8 DEF AutoStep, AutoPlan, AutoEnd, AutoNext
<1>9. CASE ForegroundStep
  BY <1>3, <1>9 DEF ForegroundStep, PreemptAgain, ForegroundAcquired, ForegroundTimeout, FinishForeground
<1>10. CASE LoopStep
  <2>1. CASE ScanRebuilds \/ LoopDecides
    BY <1>3, <2>1 DEF ScanRebuilds, LoopDecides
  <2>2. CASE ReconcileScan
    BY <2>2, ReconcileFlags DEF ReconcileScan
  <2>3. CASE AttemptRebuild
    <3>1. /\ GenShape(gen') /\ gen'.users /\ gen'.replay = gen.replay /\ UNCHANGED replay
          /\ gen'.runs => gen.runs \/ ~gen.replay
      BY <1>1, <2>3, RebuildGen
    <3> QED BY <1>1, <1>2, <3>1 DEF Flags
  <2> QED BY <1>10, <2>1, <2>2, <2>3 DEF LoopStep
<1>11. CASE ReplayStep
  BY <1>11, ReplayFlags
<1> QED BY <1>4, <1>5, <1>6, <1>7, <1>8, <1>9, <1>10, <1>11 DEF RunnerNext

-----------------------------------------------------------------------------
(* Alone during a rebuild, and behind the foreground barrier *)

\* Only the loop begins a rebuild, and the account-wide pass begins only when none runs.
LEMMA ReconcileRuns ==
    ASSUME ReplayInv, Shapes, NEW list, NEW pending, NEW scanned, NEW epoch, Reconcile(list, pending, scanned, epoch)
    PROVE  gen'.runs = gen.runs /\ (AutoOn' <=> AutoOn) /\ gen'.epoch >= gen.epoch
<1>1. GenShape(gen)
  BY ReplayParts
<1>2. AutoOn' <=> AutoOn
  BY DEF Reconcile, CancelOrdinary, AutoOn, Shapes
<1>3. gen'.runs = gen.runs /\ gen'.epoch >= gen.epoch
  <2> DEFINE epoch1 == IF gen.users THEN gen.epoch ELSE gen.epoch + 1
  <2>1. epoch1 >= gen.epoch
    BY <1>1 DEF GenShape
  <2>2. \/ gen' = gen
        \/ gen' = [gen EXCEPT !.known = TRUE, !.targets = {}]
        \/ gen' = [gen EXCEPT !.users = FALSE, !.known = FALSE, !.targets = {}, !.replay = TRUE]
        \/ \E known, targets : gen' = [gen EXCEPT !.users = TRUE, !.epoch = epoch1, !.known = known, !.targets = targets]
    BY DEF Reconcile
  <2> HIDE DEF epoch1
  <2>3. CASE gen' = gen \/ gen' = [gen EXCEPT !.known = TRUE, !.targets = {}]
    <3>1. gen'.runs = gen.runs /\ gen'.epoch = gen.epoch
      BY <1>1, <2>3 DEF GenShape
    <3> QED BY <1>1, <3>1 DEF GenShape
  <2>4. CASE gen' = [gen EXCEPT !.users = FALSE, !.known = FALSE, !.targets = {}, !.replay = TRUE]
    <3>1. gen'.runs = gen.runs /\ gen'.epoch = gen.epoch
      BY <1>1, <2>4 DEF GenShape
    <3> QED BY <1>1, <3>1 DEF GenShape
  <2>5. ASSUME NEW known, NEW targets,
               gen' = [gen EXCEPT !.users = TRUE, !.epoch = epoch1, !.known = known, !.targets = targets]
        PROVE  gen'.runs = gen.runs /\ gen'.epoch = epoch1
    BY <1>1, <2>5 DEF GenShape
  <2> QED BY <2>1, <2>2, <2>3, <2>4, <2>5
<1> QED BY <1>2, <1>3

LEMMA RunsBegin ==
    ASSUME ReplayInv, Shapes, [RunnerNext]_runVars
    PROVE  /\ gen'.runs => gen.runs \/ ~UserWorkRunning
           /\ gen'.runs /\ AutoOn' => AutoOn
           /\ gen'.epoch >= gen.epoch
<1> DEFINE Goal == /\ gen'.runs => gen.runs \/ ~UserWorkRunning
                   /\ gen'.runs /\ AutoOn' => AutoOn
                   /\ gen'.epoch >= gen.epoch
<1> SUFFICES Goal
  OBVIOUS
<1>1. GenShape(gen) /\ Flags
  BY ReplayParts
<1>2. ASSUME UNCHANGED gen, AutoOn' => AutoOn PROVE Goal
  BY <1>1, <1>2 DEF GenShape
<1>3. ASSUME UNCHANGED <<gen, auto>> PROVE Goal
  BY <1>2, <1>3 DEF AutoOn
<1>4. ASSUME NEW list, NEW pending, NEW scanned, NEW epoch, Reconcile(list, pending, scanned, epoch) PROVE Goal
  BY <1>4, ReconcileRuns
<1> HIDE DEF Goal
<1>5. CASE UNCHANGED runVars
  BY <1>3, <1>5 DEF runVars
<1>6. CASE \E c \in Requests : Ask(c)
  BY <1>3, <1>6 DEF Ask
<1>7. CASE CallStep
  <2>1. CASE Start
    <3>1. CASE Gated
      BY <1>3, <2>1, <3>1 DEF Start
    <3>2. CASE ~Gated
      BY <1>1, <2>1, <3>2 DEF Start, Gated, Flags, Goal, GenShape
    <3> QED BY <3>1, <3>2
  <2>2. CASE BeginForegroundOperation
    BY <1>2, <2>2 DEF BeginForegroundOperation, YieldToForeground, AutoOn, Shapes
  <2>3. CASE RefreshGate \/ RefreshSenderStats \/ StartAttachmentIndex \/ \E c \in calls : GiveUpWaiting(c)
    BY <1>3, <2>3 DEF RefreshGate, RefreshSenderStats, StartAttachmentIndex, GiveUpWaiting
  <2>4. CASE \E c \in calls : DecideGate(c)
    BY <1>4, <2>4 DEF DecideGate
  <2>5. CASE \E b \in Boxes :
          \/ StartMailboxes(b) \/ StartAccountMailboxes(b) \/ StartPriorityMailboxes(b)
          \/ \E kind \in {"maintenance", "committed", "search"} : StartMaintenance(b, kind)
    BY <1>3, <2>5 DEF StartMailboxes, StartAccountMailboxes, StartPriorityMailboxes, StartMaintenance
  <2>6. CASE \E b \in Boxes : QueueAccountMailboxes(b)
    BY <1>2, <2>6 DEF QueueAccountMailboxes, AutoOn, Shapes
  <2> QED BY <1>7, <2>1, <2>2, <2>3, <2>4, <2>5, <2>6 DEF CallStep
<1>8. CASE JobStep
  <2>1. CASE \E k \in Keys : BeginJob(k) \/ DiscoverGeneration(k) \/ \E ok \in BOOLEAN : EndJob(k, ok)
    BY <1>3, <2>1 DEF BeginJob, DiscoverGeneration, EndJob
  <2>2. ASSUME NEW k \in Keys, SignalMailboxGenerationRecovery(k) PROVE Goal
    <3>1. gen' = SignalledGen /\ (AutoOn' <=> AutoOn)
      BY <2>2 DEF SignalMailboxGenerationRecovery, AutoOn, Shapes
    <3>2. gen'.runs = gen.runs /\ gen'.epoch >= gen.epoch
      BY <1>1, <3>1 DEF SignalledGen, GenShape
    <3> QED BY <3>1, <3>2 DEF Goal
  <2>3. ASSUME NEW b \in Boxes, NEW ok \in BOOLEAN, EndRecovery(b, ok) PROVE Goal
    <3>1. gen' = [gen EXCEPT !.runs = FALSE]
      BY <2>3 DEF EndRecovery
    <3> QED BY <1>1, <3>1 DEF GenShape, Goal
  <2>4. CASE \E ok \in BOOLEAN : SenderStatsDone(ok) \/ \E more \in BOOLEAN : AttachmentIndexDone(ok, more)
    BY <1>3, <2>4 DEF SenderStatsDone, AttachmentIndexDone
  <2> QED BY <1>8, <2>1, <2>2, <2>3, <2>4 DEF JobStep
<1>9. CASE AutoStep
  <2>1. UNCHANGED gen /\ (AutoOn' => AutoOn)
    BY <1>9 DEF AutoStep, AutoPlan, AutoEnd, AutoNext, AutoIdle, AutoOn, Shapes
  <2> QED BY <1>2, <2>1
<1>10. CASE ForegroundStep
  <2>1. UNCHANGED gen /\ (AutoOn' => AutoOn)
    BY <1>10 DEF ForegroundStep, PreemptAgain, YieldToForeground, ForegroundAcquired, ForegroundTimeout, FinishForeground,
                 AutoOn, Shapes
  <2> QED BY <1>2, <2>1
<1>11. CASE LoopStep
  <2>1. CASE ScanRebuilds \/ LoopDecides
    BY <1>3, <2>1 DEF ScanRebuilds, LoopDecides
  <2>2. CASE ReconcileScan
    BY <1>4, <2>2 DEF ReconcileScan
  <2>3. CASE AttemptRebuild
    <3>1. AutoOn' <=> AutoOn
      BY <2>3 DEF AttemptRebuild, CancelOrdinary, AutoOn, Shapes
    <3> QED BY <1>1, <2>3, <3>1, RebuildGen DEF Goal, MayRecover
  <2> QED BY <1>11, <2>1, <2>2, <2>3 DEF LoopStep
<1>12. CASE ReplayStep
  <2>1. ASSUME NEW w, Pause(w), UNCHANGED auto PROVE Goal
    <3>1. gen' = [gen EXCEPT !.replay = FALSE]
      BY <2>1 DEF Pause
    <3> QED BY <1>1, <2>1, <3>1 DEF GenShape, Goal, AutoOn
  <2>2. CASE PrepareReplay \/ ReplayReturned \/ \E k \in Keys : ReplayNext(k)
    BY <1>3, <2>1, <2>2 DEF PrepareReplay, ReplayReturned, ReplayNext
  <2>3. CASE ReplayEnds
    <3>1. AutoOn' <=> AutoOn
      BY <2>3 DEF ReplayEnds, CancelOrdinary, AutoOn, Shapes
    <3>2. gen' = [SignalledGen EXCEPT !.replay = FALSE] \/ gen' = [gen EXCEPT !.replay = FALSE] \/ gen' = gen
      BY <2>3 DEF ReplayEnds, Pause
    <3>3. gen'.runs = gen.runs /\ gen'.epoch >= gen.epoch
      <4>1. CASE gen' = [SignalledGen EXCEPT !.replay = FALSE]
        <5>1. gen'.runs = gen.runs /\ gen'.epoch = gen.epoch + 1
          BY <1>1, <4>1 DEF SignalledGen, GenShape
        <5> QED BY <1>1, <5>1 DEF GenShape
      <4>2. CASE gen' = [gen EXCEPT !.replay = FALSE] \/ gen' = gen
        <5>1. gen'.runs = gen.runs /\ gen'.epoch = gen.epoch
          BY <1>1, <4>2 DEF GenShape
        <5> QED BY <1>1, <5>1 DEF GenShape
      <4> QED BY <3>2, <4>1, <4>2
    <3> QED BY <3>1, <3>3 DEF Goal
  <2> QED BY <1>12, <2>2, <2>3 DEF ReplayStep
<1> QED BY <1>5, <1>6, <1>7, <1>8, <1>9, <1>10, <1>11, <1>12 DEF RunnerNext

LEMMA AloneKept == ASSUME JobsInv, ReplayInv, Shapes, JobsStep, AloneInv, [RunnerNext]_runVars PROVE AloneInv'
<1> SUFFICES ASSUME gen'.runs
             PROVE  /\ ~AutoOn'
                    /\ \A k \in Keys : Busy(k)' /\ jobs'[k].kind # "recovery" =>
                          k = <<"acct", Inbox>> /\ jobs'[k].kind \in Passes
  BY DEF AloneInv
<1>1. (gen.runs \/ ~UserWorkRunning) /\ (AutoOn' => AutoOn)
  BY RunsBegin
<1>2. ~AutoOn'
  BY <1>1 DEF AloneInv, UserWorkRunning, OrdinaryRunning
<1>3. \A k \in Keys : Busy(k) /\ jobs[k].kind # "recovery" => k = <<"acct", Inbox>> /\ jobs[k].kind \in Passes
  BY <1>1 DEF AloneInv, UserWorkRunning, OrdinaryRunning
<1> SUFFICES ASSUME NEW k \in Keys, Busy(k)', jobs'[k].kind # "recovery"
             PROVE  k = <<"acct", Inbox>> /\ jobs'[k].kind \in Passes
  BY <1>2
<1>4. CASE Quiet
  BY <1>3, <1>4 DEF Quiet, Busy
<1>5. ASSUME NEW j \in Keys, Reserves(j) PROVE k = <<"acct", Inbox>> /\ jobs'[k].kind \in Passes
  BY <1>3, <1>5 DEF Reserves, Becomes, Busy
<1>6. CASE Recovers
  BY <1>3, <1>6 DEF Recovers, Becomes, Busy
<1> QED BY <1>4, <1>5, <1>6 DEF JobsStep

LEMMA ForegroundKept ==
    ASSUME JobsInv, ReplayInv, Shapes, JobsStep, ForegroundAlone, [RunnerNext]_runVars
    PROVE  ForegroundAlone'
<1> SUFFICES ASSUME fore' = "held", NEW k \in Keys, Busy(k)' PROVE jobs'[k].kind = "search"
  BY DEF ForegroundAlone
<1>1. CASE ForegroundAcquired
  BY <1>1 DEF ForegroundAcquired, Yielded, MailboxWriter, Busy
<1>2. CASE ~ForegroundAcquired
  <2>1. fore = "held"
    BY <1>2
    DEF RunnerNext, runVars, CallStep, JobStep, AutoStep, ForegroundStep, LoopStep, ReplayStep, Ask, Start,
        BeginForegroundOperation, RefreshGate, RefreshSenderStats, StartAttachmentIndex, DecideGate, GiveUpWaiting,
        StartMailboxes, StartAccountMailboxes, StartPriorityMailboxes, QueueAccountMailboxes, StartMaintenance,
        BeginJob, DiscoverGeneration, SignalMailboxGenerationRecovery, EndJob, EndRecovery, SenderStatsDone,
        AttachmentIndexDone, AutoPlan, AutoEnd, AutoNext, PreemptAgain, ForegroundTimeout, FinishForeground,
        ScanRebuilds, ReconcileScan, AttemptRebuild, LoopDecides, PrepareReplay, ReplayReturned, ReplayEnds, ReplayNext
  <2>2. \A j \in Keys : Busy(j) => jobs[j].kind = "search"
    BY <2>1 DEF ForegroundAlone
  <2>3. CASE Quiet
    BY <2>2, <2>3 DEF Quiet, Busy
  <2>4. ~\E j \in Keys : Reserves(j)
    BY <2>1 DEF Reserves, ForegroundOn
  <2>5. ~Recovers
    BY <2>1 DEF Recovers, UserWorkRunning, OrdinaryRunning, ForegroundOn
  <2> QED BY <2>3, <2>4, <2>5 DEF JobsStep
<1> QED BY <1>1, <1>2

-----------------------------------------------------------------------------
(* The recovery loop lives *)
LoopInv == LoopAlive /\ (loop.pc # "wait" => loop.on)

LEMMA LoopStays ==
    ASSUME ReplayInv', LoopInv, loop'.on \/ (loop' = loop /\ (gen'.users => gen.users))
    PROVE  LoopInv'
<1>1. gen'.runs => gen'.users
  BY DEF ReplayInv
<1> QED BY <1>1 DEF LoopInv, LoopAlive

LEMMA LoopKept == ASSUME ReplayInv, ReplayInv', Shapes, LoopInv, [RunnerNext]_runVars PROVE LoopInv'
<1>1. ASSUME loop'.on PROVE LoopInv'
  BY <1>1, LoopStays
<1>2. ASSUME UNCHANGED <<loop, gen>> PROVE LoopInv'
  BY <1>2, LoopStays
<1>3. GenShape(gen) /\ Flags
  BY ReplayParts
<1>4. ASSUME loop' = WokenLoop PROVE LoopInv'
  BY <1>1, <1>4 DEF WokenLoop, Shapes
<1>5. CASE UNCHANGED runVars
  BY <1>2, <1>5 DEF runVars
<1>6. CASE \E c \in Requests : Ask(c)
  BY <1>2, <1>6 DEF Ask
<1>7. CASE CallStep
  <2>1. CASE \E c \in calls : DecideGate(c)
    BY <1>4, <2>1 DEF DecideGate
  <2>2. CASE Start \/ BeginForegroundOperation \/ RefreshGate \/ RefreshSenderStats \/ StartAttachmentIndex \/ \E c \in calls : GiveUpWaiting(c)
    BY <1>2, <2>2
    DEF Start, BeginForegroundOperation, RefreshGate, RefreshSenderStats, StartAttachmentIndex, GiveUpWaiting
  <2>3. CASE \E b \in Boxes :
          \/ StartMailboxes(b) \/ StartAccountMailboxes(b) \/ StartPriorityMailboxes(b) \/ QueueAccountMailboxes(b)
          \/ \E kind \in {"maintenance", "committed", "search"} : StartMaintenance(b, kind)
    BY <1>2, <2>3
    DEF StartMailboxes, StartAccountMailboxes, StartPriorityMailboxes, QueueAccountMailboxes, StartMaintenance
  <2> QED BY <1>7, <2>1, <2>2, <2>3 DEF CallStep
<1>8. CASE JobStep
  <2>1. CASE \E k \in Keys : BeginJob(k) \/ DiscoverGeneration(k) \/ \E ok \in BOOLEAN : EndJob(k, ok)
    BY <1>2, <2>1 DEF BeginJob, DiscoverGeneration, EndJob
  <2>2. CASE \E k \in Keys : SignalMailboxGenerationRecovery(k)
    BY <1>4, <2>2 DEF SignalMailboxGenerationRecovery
  <2>3. ASSUME NEW b \in Boxes, NEW ok \in BOOLEAN, EndRecovery(b, ok) PROVE LoopInv'
    <3>1. gen' = [gen EXCEPT !.runs = FALSE] /\ (loop' = loop \/ loop' = [loop EXCEPT !.on = TRUE])
      BY <2>3 DEF EndRecovery
    <3>2. gen'.users = gen.users
      BY <1>3, <3>1 DEF GenShape
    <3>3. loop' = loop \/ loop'.on
      BY <3>1 DEF Shapes
    <3> QED BY <3>2, <3>3, LoopStays
  <2>4. CASE \E ok \in BOOLEAN : SenderStatsDone(ok)
    BY <1>2, <2>4 DEF SenderStatsDone
  <2>5. CASE \E ok \in BOOLEAN, more \in BOOLEAN : AttachmentIndexDone(ok, more)
    BY <1>4, <2>5 DEF AttachmentIndexDone
  <2> QED BY <1>8, <2>1, <2>2, <2>3, <2>4, <2>5 DEF JobStep
<1>9. CASE AutoStep
  BY <1>2, <1>9 DEF AutoStep, AutoPlan, AutoEnd, AutoNext
<1>10. CASE ForegroundStep
  BY <1>2, <1>4, <1>10 DEF ForegroundStep, PreemptAgain, ForegroundAcquired, ForegroundTimeout, FinishForeground
<1>11. CASE LoopStep
  <2>1. CASE ScanRebuilds
    BY <1>1, <2>1 DEF ScanRebuilds, Shapes
  <2>2. CASE ReconcileScan \/ AttemptRebuild
    BY <1>1, <2>2 DEF ReconcileScan, AttemptRebuild, Shapes, LoopInv
  <2>3. CASE LoopDecides
    <3>1. loop' = [loop EXCEPT !.pc = "wait", !.on = ~LoopStops] /\ gen' = gen
      BY <2>3 DEF LoopDecides
    <3>2. loop'.pc = "wait" /\ loop'.on = ~LoopStops /\ loop'.wake = loop.wake
      BY <3>1 DEF Shapes
    <3> QED BY <3>1, <3>2 DEF LoopStops, LoopInv, LoopAlive
  <2> QED BY <1>11, <2>1, <2>2, <2>3 DEF LoopStep
<1>12. CASE ReplayStep
  <2>1. ASSUME NEW w, Pause(w) PROVE LoopInv'
    <3>1. gen' = [gen EXCEPT !.replay = FALSE] /\ (loop' = loop \/ loop' = WokenLoop)
      BY <2>1 DEF Pause
    <3>2. gen'.users = gen.users
      BY <1>3, <3>1 DEF GenShape
    <3> QED BY <1>4, <3>1, <3>2, LoopStays
  <2>2. CASE PrepareReplay \/ ReplayReturned \/ \E k \in Keys : ReplayNext(k)
    BY <1>2, <2>1, <2>2 DEF PrepareReplay, ReplayReturned, ReplayNext
  <2>3. CASE ReplayEnds
    <3>1. CASE markers # {}
      BY <1>4, <2>3, <3>1 DEF ReplayEnds
    <3>2. CASE markers = {} /\ gen.users
      BY <2>1, <2>3, <3>2 DEF ReplayEnds
    <3>3. CASE markers = {} /\ ~gen.users
      <4>1. loop' = loop /\ (gen' = gen \/ gen' = [gen EXCEPT !.replay = FALSE])
        BY <2>3, <3>3 DEF ReplayEnds
      <4>2. gen'.users = gen.users
        BY <1>3, <4>1 DEF GenShape
      <4> QED BY <4>1, <4>2, LoopStays
    <3> QED BY <3>1, <3>2, <3>3
  <2> QED BY <1>12, <2>2, <2>3 DEF ReplayStep
<1> QED BY <1>5, <1>6, <1>7, <1>8, <1>9, <1>10, <1>11, <1>12 DEF RunnerNext

-----------------------------------------------------------------------------
(* The gate opens on a fresh list *)

\* What somebody who read no marker in an epoch may rely on: if the epoch is the current one,
\* every marker is of a pass that has not signalled yet, and the gate waits for that pass.
Clean == markers = {} \/ \E k \in Keys : jobs[k].phase = "signal"
Right(e) == e \in Nat /\ e <= gen.epoch /\ (e = gen.epoch => Clean)
GateInv ==
    /\ \A c \in calls : c.op = "decide" /\ ~c.pending => Right(c.epoch)
    /\ loop.pc = "reconcile" /\ loop.list = {} => Right(loop.epoch)

\* A marker that appears comes with a pass that signals; a signal begins a new epoch.
LEMMA MarkersSignalled ==
    ASSUME JobsInv, ReplayInv, [RunnerNext]_runVars
    PROVE  \/ markers' \subseteq markers
           \/ \E k \in Keys : DiscoverGeneration(k)
<1>1. CASE UNCHANGED runVars
  BY <1>1 DEF runVars
<1>2. CASE RunnerNext
  BY <1>2
  DEF RunnerNext, CallStep, JobStep, AutoStep, ForegroundStep, LoopStep, ReplayStep, Ask, Start,
      BeginForegroundOperation, RefreshGate, RefreshSenderStats, StartAttachmentIndex, DecideGate, GiveUpWaiting,
      StartMailboxes, StartAccountMailboxes, StartPriorityMailboxes, QueueAccountMailboxes, StartMaintenance,
      BeginJob, SignalMailboxGenerationRecovery, EndJob, EndRecovery, SenderStatsDone,
      AttachmentIndexDone, AutoPlan, AutoEnd, AutoNext, PreemptAgain, ForegroundAcquired, ForegroundTimeout,
      FinishForeground, ScanRebuilds, ReconcileScan, AttemptRebuild, LoopDecides, PrepareReplay, ReplayReturned,
      ReplayEnds, ReplayNext
<1> QED BY <1>1, <1>2

LEMMA SignalEpoch ==
    ASSUME GenShape(gen), NEW k, SignalMailboxGenerationRecovery(k)
    PROVE  gen'.epoch = gen.epoch + 1
<1>1. gen' = SignalledGen
  BY DEF SignalMailboxGenerationRecovery
<1> QED BY <1>1 DEF SignalledGen, GenShape

LEMMA RightKept ==
    ASSUME JobsInv, ReplayInv, Shapes, JobsStep, [RunnerNext]_runVars
    PROVE  \A e : Right(e) => Right(e)'
<1> SUFFICES ASSUME NEW e, Right(e) PROVE Right(e)'
  OBVIOUS
<1>1. GenShape(gen) /\ gen'.epoch >= gen.epoch
  BY RunsBegin, ReplayParts
<1>2. gen.epoch \in Nat /\ gen'.epoch \in Nat
  <2>1. gen.epoch \in Nat
    BY <1>1 DEF GenShape
  <2>2. GenShape(gen')
    BY ReplayKept, ReplayParts
  <2> QED BY <2>1, <2>2 DEF GenShape
<1>3. CASE \E k \in Keys : SignalMailboxGenerationRecovery(k)
  BY <1>1, <1>2, <1>3, SignalEpoch DEF Right
<1>4. CASE \E k \in Keys : DiscoverGeneration(k)
  <2>1. PICK k \in Keys : DiscoverGeneration(k)
    BY <1>4
  <2>2. jobs'[k].phase = "signal" /\ gen' = gen
    BY <2>1 DEF DiscoverGeneration, JobsInv, JobOK, JobShape
  <2> QED BY <2>2 DEF Right, Clean
<1>5. CASE markers' \subseteq markers /\ ~\E k \in Keys : SignalMailboxGenerationRecovery(k)
  <2>1. Clean => Clean'
    BY <1>5 DEF Clean, JobsStep, SignalsStay
  <2> QED BY <1>1, <1>2, <2>1 DEF Right
<1> QED BY <1>3, <1>4, <1>5, MarkersSignalled

\* A decision on the gate is asked for only by a refresh of the gate.
LEMMA DecisionsAsked ==
    ASSUME [RunnerNext]_runVars, NEW c \in calls', c.op = "decide", c \notin calls
    PROVE  RefreshGate
<1>1. \A op, b : Call(op, b).op = op
  BY DEF Call
<1>2. \A op : Every(op).op = op
  BY DEF Every, Call
<1>3. CASE CallStep
  <2>1. \A d \in calls : DecideGate(d) \/ GiveUpWaiting(d) => calls' \subseteq calls
    BY DEF DecideGate, GiveUpWaiting
  <2>2. Start \/ BeginForegroundOperation \/ RefreshSenderStats \/ StartAttachmentIndex => calls' \subseteq calls
    BY DEF Start, BeginForegroundOperation, RefreshSenderStats, StartAttachmentIndex
  <2>3. \A b \in Boxes :
           (\/ StartMailboxes(b) \/ StartAccountMailboxes(b) \/ StartPriorityMailboxes(b) \/ QueueAccountMailboxes(b)
            \/ \E kind \in {"maintenance", "committed", "search"} : StartMaintenance(b, kind)) => calls' \subseteq calls
    BY DEF StartMailboxes, StartAccountMailboxes, StartPriorityMailboxes, QueueAccountMailboxes, StartMaintenance
  <2> QED BY <1>3, <2>1, <2>2, <2>3 DEF CallStep
<1>4. CASE \E r \in Requests : Ask(r)
  BY <1>1, <1>2, <1>4 DEF Ask, Requests
<1>5. CASE JobStep
  <2>1. ASSUME NEW k \in Keys, NEW ok \in BOOLEAN, EndJob(k, ok) PROVE FALSE
    <3>1. calls' \subseteq calls \cup Reruns(k[2]) \cup Afterwards
      BY <2>1 DEF EndJob
    <3> QED BY <1>1, <1>2, <3>1 DEF Reruns, Afterwards
  <2>2. ASSUME NEW b \in Boxes, NEW ok \in BOOLEAN, EndRecovery(b, ok) PROVE FALSE
    BY <1>2, <2>2 DEF EndRecovery
  <2>3. ASSUME NEW ok \in BOOLEAN, SenderStatsDone(ok) PROVE FALSE
    <3>1. calls' \subseteq calls \cup {Every("stats"), Every("attach")}
      BY <2>3 DEF SenderStatsDone
    <3> QED BY <1>2, <3>1
  <2>4. ASSUME NEW ok \in BOOLEAN, NEW more \in BOOLEAN, AttachmentIndexDone(ok, more) PROVE FALSE
    <3>1. calls' \subseteq calls \cup {Every("gate"), Every("stats"), Every("attach")}
      BY <2>4 DEF AttachmentIndexDone
    <3> QED BY <1>2, <3>1
  <2> QED BY <1>5, <2>1, <2>2, <2>3, <2>4 DEF JobStep, BeginJob, DiscoverGeneration, SignalMailboxGenerationRecovery
<1>6. CASE AutoStep
  <2>1. calls' \subseteq calls \cup Afterwards \cup {Call("queue", b) : b \in auto.held}
    BY <1>6 DEF AutoStep, AutoPlan, AutoEnd, AutoNext
  <2> QED BY <1>1, <1>2, <2>1 DEF Afterwards
<1>7. CASE ForegroundStep
  <2>1. CASE FinishForeground
    <3>1. calls' \subseteq calls \cup {Every("gate")} \cup DerivedCalls \cup WorkCalls(foreWork)
      BY <2>1 DEF FinishForeground
    <3> QED BY <1>1, <1>2, <3>1 DEF DerivedCalls, WorkCalls
  <2> QED BY <1>7, <2>1 DEF ForegroundStep, PreemptAgain, ForegroundAcquired, ForegroundTimeout
<1>8. CASE LoopStep
  BY <1>8 DEF LoopStep, ScanRebuilds, ReconcileScan, AttemptRebuild, LoopDecides
<1>9. CASE ReplayStep
  <2>1. calls' \subseteq calls \cup DerivedCalls
    BY <1>9 DEF ReplayStep, PrepareReplay, ReplayReturned, ReplayEnds, ReplayNext
  <2> QED BY <1>2, <2>1 DEF DerivedCalls
<1>10. CASE UNCHANGED runVars
  BY <1>10 DEF runVars
<1> QED BY <1>3, <1>4, <1>5, <1>6, <1>7, <1>8, <1>9, <1>10 DEF RunnerNext

LEMMA ScansRead ==
    ASSUME Shapes, [RunnerNext]_runVars, loop'.pc = "reconcile"
    PROVE  ScanRebuilds \/ (loop.pc = "reconcile" /\ loop'.list = loop.list /\ loop'.epoch = loop.epoch)
<1> DEFINE Same == loop.pc = "reconcile" /\ loop'.list = loop.list /\ loop'.epoch = loop.epoch
<1>1. UNCHANGED loop => Same
  OBVIOUS
<1>2. loop' = WokenLoop => Same
  BY DEF WokenLoop, Shapes
<1>3. CASE LoopStep
  BY <1>3 DEF LoopStep, ReconcileScan, AttemptRebuild, LoopDecides, Shapes
<1>4. CASE ReplayStep
  <2>1. loop' = loop \/ loop' = WokenLoop
    BY <1>4 DEF ReplayStep, PrepareReplay, ReplayReturned, ReplayEnds, ReplayNext, Pause
  <2> QED BY <1>1, <1>2, <2>1
<1>5. CASE JobStep
  <2>1. loop' = loop \/ loop' = WokenLoop \/ loop' = [loop EXCEPT !.on = TRUE]
    BY <1>5 DEF JobStep, BeginJob, DiscoverGeneration, SignalMailboxGenerationRecovery, EndJob, EndRecovery,
                SenderStatsDone, AttachmentIndexDone
  <2> QED BY <1>1, <1>2, <2>1 DEF Shapes
<1>6. CASE (\E c \in Requests : Ask(c)) \/ CallStep \/ AutoStep \/ ForegroundStep \/ UNCHANGED runVars
  <2>1. loop' = loop \/ loop' = WokenLoop
    BY <1>6
    DEF Ask, CallStep, AutoStep, ForegroundStep, runVars, Start, BeginForegroundOperation, RefreshGate,
        RefreshSenderStats, StartAttachmentIndex, DecideGate, GiveUpWaiting, StartMailboxes, StartAccountMailboxes,
        StartPriorityMailboxes, QueueAccountMailboxes, StartMaintenance, AutoPlan, AutoEnd, AutoNext, PreemptAgain,
        ForegroundAcquired, ForegroundTimeout, FinishForeground
  <2> QED BY <1>1, <1>2, <2>1
<1> QED BY <1>3, <1>4, <1>5, <1>6 DEF RunnerNext

LEMMA GateKept ==
    ASSUME JobsInv, ReplayInv, Shapes, JobsStep, GateInv, [RunnerNext]_runVars
    PROVE  GateInv'
<1>1. \A e : Right(e) => Right(e)'
  BY RightKept
<1>2. GenShape(gen)
  BY ReplayParts
<1>3. ASSUME NEW c \in calls', c.op = "decide", ~c.pending PROVE Right(c.epoch)'
  <2>1. CASE c \in calls
    BY <1>1, <1>3, <2>1 DEF GateInv
  <2>2. CASE c \notin calls
    <3>1. RefreshGate
      BY <1>3, <2>2, DecisionsAsked
    <3>2. c = [op |-> "decide", box |-> Inbox, pending |-> markers # {}, epoch |-> gen.epoch]
      BY <1>3, <2>2, <3>1 DEF RefreshGate
    <3>3. c.epoch = gen.epoch /\ c.pending = (markers # {}) /\ UNCHANGED <<gen, markers>>
      BY <3>1, <3>2 DEF RefreshGate
    <3>4. markers' = {}
      BY <1>3, <3>3
    <3>5. c.epoch = gen'.epoch /\ gen.epoch \in Nat /\ gen' = gen
      BY <1>2, <3>3 DEF GenShape
    <3> QED BY <3>4, <3>5 DEF Right, Clean
  <2> QED BY <2>1, <2>2
<1>4. ASSUME loop'.pc = "reconcile", loop'.list = {} PROVE Right(loop.epoch)' 
  <2>1. CASE ScanRebuilds
    <3>1. /\ loop'.list = markers /\ loop'.epoch = IF gen.users THEN gen.epoch ELSE 0
          /\ gen' = gen /\ markers' = markers
      BY <2>1 DEF ScanRebuilds, Shapes
    <3> QED BY <1>2, <1>4, <3>1 DEF Right, Clean, GenShape
  <2>2. CASE ~ScanRebuilds
    <3>1. loop.pc = "reconcile" /\ loop'.list = loop.list /\ loop'.epoch = loop.epoch
      BY <1>4, <2>2, ScansRead
    <3>2. Right(loop.epoch)
      BY <1>4, <3>1 DEF GateInv
    <3>3. PICK e : e = loop.epoch
      OBVIOUS
    <3> QED BY <1>1, <3>1, <3>2, <3>3 DEF Right
  <2> QED BY <2>1, <2>2
<1> QED BY <1>3, <1>4 DEF GateInv

LEMMA OpensClean ==
    ASSUME JobsInv, ReplayInv, NEW list, NEW pending, NEW scanned, NEW epoch,
           Reconcile(list, pending, scanned, epoch), pending \/ Right(epoch), gen.users, ~gen'.users
    PROVE  markers = {}
<1>1. GenShape(gen)
  BY ReplayParts
<1>2. ~pending /\ MayOpen(epoch)
  <2>1. CASE pending
    <3>1. \E v, w, x : gen' = [gen EXCEPT !.users = TRUE, !.epoch = v, !.known = w, !.targets = x]
      BY <2>1 DEF Reconcile
    <3> QED BY <1>1, <3>1 DEF GenShape
  <2>2. CASE ~pending /\ ~MayOpen(epoch)
    <3>1. gen' = [gen EXCEPT !.known = TRUE, !.targets = {}] \/ gen' = gen
      BY <2>2 DEF Reconcile
    <3> QED BY <1>1, <3>1 DEF GenShape
  <2> QED BY <2>1, <2>2
<1>3. Clean
  BY <1>2 DEF MayOpen, Fresh, Right
<1> QED BY <1>2, <1>3 DEF MayOpen, OrdinaryRunning, Busy, Clean, JobsInv, JobOK

LEMMA OpensOnFreshList ==
    ASSUME JobsInv, ReplayInv, Shapes, GateInv, [RunnerNext]_runVars, gen.users, ~gen'.users
    PROVE  markers = {}
<1>1. GenShape(gen)
  BY ReplayParts
<1>2. gen' # gen
  OBVIOUS
<1>3. ASSUME NEW c \in calls, DecideGate(c) PROVE markers = {}
  <2>1. Reconcile({}, c.pending, FALSE, c.epoch) /\ (c.pending \/ Right(c.epoch))
    BY <1>3 DEF DecideGate, GateInv
  <2> QED BY <2>1, OpensClean
<1>4. CASE ReconcileScan
  <2>1. Reconcile(loop.list, loop.list # {}, TRUE, loop.epoch) /\ (loop.list # {} \/ Right(loop.epoch))
    BY <1>4 DEF ReconcileScan, GateInv
  <2>2. PICK list, pending, epoch : list = loop.list /\ pending = (loop.list # {}) /\ epoch = loop.epoch
    OBVIOUS
  <2>3. Reconcile(list, pending, TRUE, epoch) /\ (pending \/ Right(epoch))
    BY <2>1, <2>2
  <2> QED BY <2>3, OpensClean
<1>5. CASE UNCHANGED gen
  BY <1>2, <1>5
<1>6. ASSUME NEW k, SignalMailboxGenerationRecovery(k) PROVE FALSE
  <2>1. gen' = SignalledGen
    BY <1>6 DEF SignalMailboxGenerationRecovery
  <2> QED BY <1>1, <2>1 DEF SignalledGen, GenShape
<1>7. ASSUME NEW b, NEW ok, EndRecovery(b, ok) PROVE FALSE
  <2>1. gen' = [gen EXCEPT !.runs = FALSE]
    BY <1>7 DEF EndRecovery
  <2> QED BY <1>1, <2>1 DEF GenShape
<1>8. CASE AttemptRebuild
  BY <1>1, <1>8, RebuildGen
<1>9. CASE ReplayStep
  <2>1. gen' = [SignalledGen EXCEPT !.replay = FALSE] \/ gen' = [gen EXCEPT !.replay = FALSE] \/ gen' = gen
    BY <1>9 DEF ReplayStep, PrepareReplay, ReplayReturned, ReplayEnds, ReplayNext, Pause
  <2> QED BY <1>1, <2>1 DEF SignalledGen, GenShape
<1>10. CASE CallStep /\ ~\E c \in calls : DecideGate(c)
  <2>1. gen' = gen
    BY <1>10
    DEF CallStep, Start, BeginForegroundOperation, RefreshGate, RefreshSenderStats, StartAttachmentIndex, GiveUpWaiting,
        StartMailboxes, StartAccountMailboxes, StartPriorityMailboxes, QueueAccountMailboxes, StartMaintenance
  <2> QED BY <1>2, <2>1
<1>11. CASE (\E c \in Requests : Ask(c)) \/ AutoStep \/ ForegroundStep \/ ScanRebuilds \/ LoopDecides \/ UNCHANGED runVars
  <2>1. gen' = gen
    BY <1>11
    DEF Ask, AutoStep, ForegroundStep, ScanRebuilds, LoopDecides, runVars, AutoPlan, AutoEnd, AutoNext, PreemptAgain,
        ForegroundAcquired, ForegroundTimeout, FinishForeground
  <2> QED BY <1>2, <2>1
<1>12. CASE JobStep
  <2>1. UNCHANGED gen \/ (\E k : SignalMailboxGenerationRecovery(k)) \/ (\E b, ok : EndRecovery(b, ok))
    BY <1>12 DEF JobStep, BeginJob, DiscoverGeneration, EndJob, SenderStatsDone, AttachmentIndexDone
  <2> QED BY <1>5, <1>6, <1>7, <2>1
<1> QED BY <1>3, <1>4, <1>8, <1>9, <1>10, <1>11, <1>12 DEF RunnerNext, LoopStep

-----------------------------------------------------------------------------
(* What was promised *)

\* Where a pass over b waits that no job has begun: called, marked to run again, held by the
\* account-wide pass, or deferred by the gate, the foreground or the replay, which is done
\* with a mailbox once its pass has returned.
Called(b) == Call("queue", b) \in calls \/ Call("priority", b) \in calls
Again(b) == <<"all", b>> \in again \/ <<"acct", b>> \in again
Listed(b, w) == b \in w.boxes \/ b \in w.accts
Remaining == IF replay.pc = "done" THEN Without(replay.work, replay.now) ELSE replay.work
Waiting(b) ==
    Called(b) \/ Again(b) \/ b \in auto.held \/ Listed(b, genWork) \/ Listed(b, foreWork) \/ Listed(b, Remaining)

\* A promised pass waits or has a job; one whose job was told to stop waits again.
Serving(k) == jobs[k].kind \in Passes
Stopped(k) == Serving(k) /\ jobs[k].stop /\ jobs[k].phase # "reserved"
OwedInv ==
    \A b \in owed : /\ Waiting(b) \/ \E k \in Keys : k[2] = b /\ Serving(k)
                    /\ \A k \in Keys : k[2] = b /\ Stopped(k) => Waiting(b)

\* b waits as before, its jobs go on, and none of them was stopped; or a job of its own was reserved.
Goes(b) ==
    /\ b \in owed /\ (Waiting(b) => Waiting(b)')
    /\ \A k \in Keys : k[2] = b => (Serving(k) => Serving(k)') /\ (Stopped(k)' => Stopped(k))
Renewed(b) == (\E k \in Keys : k[2] = b /\ Serving(k)') /\ \A k \in Keys : k[2] = b => ~Stopped(k)'

LEMMA OwedFrom == ASSUME OwedInv, \A b \in owed' : Waiting(b)' \/ Renewed(b) \/ Goes(b) PROVE OwedInv'
<1> SUFFICES ASSUME NEW b \in owed'
             PROVE  /\ Waiting(b)' \/ \E k \in Keys : k[2] = b /\ Serving(k)'
                    /\ \A k \in Keys : k[2] = b /\ Stopped(k)' => Waiting(b)'
  BY DEF OwedInv
<1>1. CASE Waiting(b)' \/ Renewed(b)
  BY <1>1 DEF Renewed
<1>2. CASE Goes(b)
  BY <1>2 DEF Goes, OwedInv
<1> QED BY <1>1, <1>2

LEMMA OwedSame ==
    ASSUME OwedInv, UNCHANGED jobs, owed' \subseteq owed, \A b \in owed' : Waiting(b) => Waiting(b)'
    PROVE  OwedInv'
BY OwedFrom DEF Goes, Serving, Stopped

LEMMA CallParts == \A op, b : Call(op, b).op = op /\ Call(op, b).box = b /\ Every(op).op = op
BY DEF Call, Every

LEMMA CallsLeft ==
    ASSUME NEW c, c.op \notin {"queue", "priority"}, calls \ {c} \subseteq calls'
    PROVE  \A b : Called(b) => Called(b)'
BY CallParts DEF Called

\* A job that begins where none was disturbs no other.
LEMMA OwedBegins ==
    ASSUME JobsInv, OwedInv, owed' \subseteq owed, \A b \in owed' : Waiting(b) => Waiting(b)',
           NEW k \in Keys, Becomes(k, jobs'[k]), ~Busy(k), jobs'[k].phase = "reserved" \/ jobs'[k].kind \notin Passes
    PROVE  OwedInv'
<1>1. \A j \in Keys : (Serving(j) => Serving(j)') /\ (Stopped(j)' => Stopped(j))
  BY DEF Becomes, Busy, Serving, Stopped, Passes
<1> QED BY <1>1, OwedFrom DEF Goes

\* A reservation for b itself may take up what waited for b.
LEMMA OwedRenewed ==
    ASSUME JobsInv, OwedInv, owed' \subseteq owed, NEW k \in Keys, NEW kind \in Passes, NEW owner,
           Reserve(k, kind, owner), ~ReservedByAny(k[2]),
           \A b \in owed' : b # k[2] /\ Waiting(b) => Waiting(b)'
    PROVE  OwedInv'
<1>1. Becomes(k, Reservation(kind, owner)) /\ jobs'[k].kind = kind /\ jobs'[k].phase = "reserved"
  BY Reserving
<1>2. \A j \in Keys : j # k => jobs'[j] = jobs[j]
  BY <1>1 DEF Becomes
<1>3. Renewed(k[2])
  <2>1. Serving(k)'
    BY <1>1 DEF Serving
  <2>2. ASSUME NEW j \in Keys, j[2] = k[2], j # k PROVE ~Stopped(j)'
    <3>1. ~Busy(j)
      BY <2>2, KeyOf DEF ReservedByAny
    <3> QED BY <1>2, <2>2, <3>1 DEF Stopped, Serving, Busy, Passes
  <2> QED BY <1>1, <2>1, <2>2 DEF Renewed, Stopped
<1>4. ASSUME NEW b \in owed', b # k[2] PROVE Goes(b)
  BY <1>2, <1>4 DEF Goes, Serving, Stopped
<1> QED BY <1>3, <1>4, OwedFrom

\* Recovery cancels passes and takes them for done; the foreground has them run again.
LEMMA OwedCanceled ==
    ASSUME JobsInv, OwedInv, CancelOrdinary, \A b \in owed' : Waiting(b) => Waiting(b)'
    PROVE  OwedInv'
<1>1. Marked /\ \A k \in Keys : jobs'[k].stop = (StopsForRecovery(k) \/ jobs[k].stop)
  BY CancelMarks
<1>2. owed' = {b \in owed : \A k \in Keys : ~(k[2] = b /\ jobs[k].serves /\ StopsForRecovery(k))}
  BY DEF CancelOrdinary
<1>3. ASSUME NEW b \in owed', NEW k \in Keys, k[2] = b PROVE (Serving(k) => Serving(k)') /\ (Stopped(k)' => Stopped(k))
  <2>1. SameJob(jobs[k], jobs'[k]) /\ JobOK(jobs[k])
    BY <1>1 DEF Marked, JobsInv
  <2>2. ~(jobs[k].serves /\ StopsForRecovery(k))
    BY <1>2, <1>3
  <2> QED BY <1>1, <2>1, <2>2 DEF Serving, Stopped, SameJob, JobOK
<1>4. \A b \in owed' : Goes(b)
  BY <1>2, <1>3 DEF Goes
<1> QED BY <1>4, OwedFrom

LEMMA OwedYields ==
    ASSUME JobsInv, OwedInv, Shapes, YieldToForeground, UNCHANGED <<owed, genWork, replay>>,
           \A b : Called(b) => Called(b)'
    PROVE  OwedInv'
<1>1. Marked /\ \A k \in Keys : jobs'[k].stop = (StopsForForeground(k) \/ jobs[k].kind = "recovery" \/ jobs[k].stop)
  BY YieldMarks
<1>2. again' = again \cup {k \in Keys : StopsForForeground(k)} /\ auto'.held = auto.held
  BY DEF YieldToForeground, Shapes
<1>3. foreWork'.boxes = foreWork.boxes /\ foreWork'.accts = foreWork.accts
  BY DEF YieldToForeground, Shapes, WorkShape
<1>4. \A b : Waiting(b) => Waiting(b)'
  BY <1>2, <1>3 DEF Waiting, Again, Listed, Remaining, Without
<1>5. ASSUME NEW b \in owed', NEW k \in Keys, k[2] = b
      PROVE  (Serving(k) => Serving(k)') /\ (Stopped(k)' => Stopped(k) \/ Waiting(b)')
  <2>1. SameJob(jobs[k], jobs'[k]) /\ JobOK(jobs[k])
    BY <1>1 DEF Marked, JobsInv
  <2>2. StopsForForeground(k) => Waiting(b)'
    BY <1>2, <1>5, KeyOf DEF Waiting, Again
  <2> QED BY <1>1, <2>1, <2>2 DEF Serving, Stopped, SameJob, JobOK, Passes
<1>6. \A b \in owed' : Waiting(b)' \/ Goes(b)
  BY <1>4, <1>5 DEF Goes
<1> QED BY <1>6, OwedFrom

LEMMA OwedRequests ==
    ASSUME JobsInv, Shapes, OwedInv, NEW b \in Boxes,
           \/ StartMailboxes(b)
           \/ \E kind \in {"maintenance", "committed", "search"} : StartMaintenance(b, kind)
    PROVE  OwedInv'
<1>1. /\ <<"all", b>> \in Keys /\ <<"acct", b>> \in Keys /\ <<"all", b>>[2] = b /\ <<"acct", b>>[2] = b
  BY KeyOf
<1>2. CASE StartMailboxes(b)
  <2>1. \A x : Called(x) => Called(x)'
    BY <1>2, CallsLeft, CallParts DEF StartMailboxes
  <2>2. UNCHANGED <<again, auto, foreWork, replay, owed>>
    BY <1>2 DEF StartMailboxes
  <2>3. \A x : Listed(x, genWork) => Listed(x, genWork)'
    BY <1>2 DEF StartMailboxes, Shapes, WorkShape, Listed
  <2>4. \A x : Waiting(x) => Waiting(x)'
    BY <2>1, <2>2, <2>3 DEF Waiting, Again, Listed, Remaining
  <2>5. CASE UNCHANGED jobs
    BY <2>2, <2>4, <2>5, OwedSame
  <2>6. CASE ~UNCHANGED jobs
    <3>1. Reserve(<<"all", b>>, "sync", "own") /\ ~ReservedByAny(b)
      BY <1>2, <2>6 DEF StartMailboxes
    <3>2. Becomes(<<"all", b>>, jobs'[<<"all", b>>]) /\ jobs'[<<"all", b>>].phase = "reserved"
      BY <1>1, <3>1, Reserving DEF Becomes
    <3>3. ~Busy(<<"all", b>>)
      BY <3>1 DEF ReservedByAny
    <3> QED BY <1>1, <2>2, <2>4, <3>2, <3>3, OwedBegins
  <2> QED BY <2>5, <2>6
<1>3. ASSUME NEW kind \in {"maintenance", "committed", "search"}, StartMaintenance(b, kind) PROVE OwedInv'
  <2>1. \A x : Called(x) => Called(x)'
    BY <1>3, CallsLeft, CallParts DEF StartMaintenance
  <2>2. UNCHANGED <<again, auto, foreWork, genWork, replay, owed>>
    BY <1>3 DEF StartMaintenance
  <2>4. \A x : Waiting(x) => Waiting(x)'
    BY <2>1, <2>2 DEF Waiting, Again, Listed, Remaining
  <2>5. CASE UNCHANGED jobs
    BY <2>2, <2>4, <2>5, OwedSame
  <2>6. CASE ~UNCHANGED jobs
    <3>1. Reserve(<<"acct", b>>, kind, "own") /\ ~AccountReserved(b)
      BY <1>3, <2>6 DEF StartMaintenance
    <3>2. Becomes(<<"acct", b>>, jobs'[<<"acct", b>>]) /\ jobs'[<<"acct", b>>].phase = "reserved"
      BY <1>1, <3>1, Reserving DEF Becomes
    <3>3. ~Busy(<<"acct", b>>)
      BY <3>1 DEF AccountReserved
    <3> QED BY <1>1, <2>2, <2>4, <3>2, <3>3, OwedBegins
  <2> QED BY <2>5, <2>6
<1> QED BY <1>2, <1>3

LEMMA OwedPolls == ASSUME JobsInv, Shapes, OwedInv, NEW b \in Boxes, StartAccountMailboxes(b) PROVE OwedInv'
<1>1. <<"acct", b>> \in Keys /\ <<"acct", b>>[2] = b
  BY KeyOf
<1>2. \A x : Called(x) => Called(x)'
  BY CallsLeft, CallParts DEF StartAccountMailboxes
<1>3. UNCHANGED <<again, auto, foreWork, replay, owed>>
  BY DEF StartAccountMailboxes
<1>4. CASE UNCHANGED jobs
  <2>1. \A x : Listed(x, genWork) => Listed(x, genWork)'
    <3>1. genWork' = genWork \/ genWork' = [genWork EXCEPT !.accts = @ \cup {b}] \/ Reserve(<<"acct", b>>, "sync", "own")
      BY DEF StartAccountMailboxes
    <3>2. Reserve(<<"acct", b>>, "sync", "own") => Busy(<<"acct", b>>)
      BY <1>1, <1>4, Reserving DEF Busy
    <3>3. genWork' = genWork \/ genWork' = [genWork EXCEPT !.accts = @ \cup {b}]
      BY <3>1, <3>2 DEF StartAccountMailboxes, AccountReserved
    <3> QED BY <3>3 DEF Shapes, WorkShape, Listed
  <2>2. \A x : Waiting(x) => Waiting(x)'
    BY <1>2, <1>3, <2>1 DEF Waiting, Again, Listed, Remaining
  <2> QED BY <1>3, <1>4, <2>2, OwedSame
<1>5. CASE ~UNCHANGED jobs
  <2>1. /\ Reserve(<<"acct", b>>, "sync", "own") /\ ~ReservedByAny(b) /\ "sync" \in Passes
        /\ genWork' = [genWork EXCEPT !.accts = @ \ {b}]
    BY <1>5 DEF StartAccountMailboxes, AccountReserved, ReservedByAny, Passes
  <2>2. \A x : x # b /\ Listed(x, genWork) => Listed(x, genWork)'
    BY <2>1 DEF Shapes, WorkShape, Listed
  <2>3. \A x : x # b /\ Waiting(x) => Waiting(x)'
    BY <1>2, <1>3, <2>2 DEF Waiting, Again, Listed, Remaining
  <2> QED BY <1>1, <1>3, <2>1, <2>3, OwedRenewed
<1> QED BY <1>4, <1>5

LEMMA OwedPriority == ASSUME JobsInv, Shapes, OwedInv, NEW b \in Boxes, StartPriorityMailboxes(b) PROVE OwedInv'
<1>1. <<"all", b>> \in Keys /\ <<"all", b>>[2] = b
  BY KeyOf
<1>2. \A x : x # b /\ Called(x) => Called(x)'
  BY CallParts DEF Called, StartPriorityMailboxes
<1>3. UNCHANGED <<auto, replay, owed>>
  BY DEF StartPriorityMailboxes
<1>4. /\ \A x : Listed(x, genWork) => Listed(x, genWork)'
      /\ \A x : Listed(x, foreWork) => Listed(x, foreWork)'
      /\ again \subseteq again'
  BY DEF StartPriorityMailboxes, Shapes, WorkShape, Listed
<1>5. \A x : x # b /\ Waiting(x) => Waiting(x)'
  BY <1>2, <1>3, <1>4 DEF Waiting, Again, Remaining
<1>6. CASE UNCHANGED jobs
  <2>1. Waiting(b)'
    <3>1. CASE Gated
      BY <3>1 DEF StartPriorityMailboxes, Shapes, WorkShape, Listed, Waiting
    <3>2. CASE ~Gated /\ ForegroundOn
      BY <3>2 DEF StartPriorityMailboxes, Shapes, WorkShape, Listed, Waiting
    <3>3. CASE ~Gated /\ ~ForegroundOn /\ ReservedByAny(b)
      BY <3>3 DEF StartPriorityMailboxes, Waiting, Again
    <3>4. CASE ~Gated /\ ~ForegroundOn /\ ~ReservedByAny(b)
      <4>1. Reserve(<<"all", b>>, "sync", "own")
        BY <3>4 DEF StartPriorityMailboxes
      <4> QED BY <1>1, <1>6, <3>4, <4>1, Reserving DEF ReservedByAny, Busy
    <3> QED BY <3>1, <3>2, <3>3, <3>4
  <2> QED BY <1>3, <1>5, <1>6, <2>1, OwedSame
<1>7. CASE ~UNCHANGED jobs
  <2>1. Reserve(<<"all", b>>, "sync", "own") /\ ~ReservedByAny(b) /\ "sync" \in Passes
    BY <1>7 DEF StartPriorityMailboxes, Passes
  <2> QED BY <1>1, <1>3, <1>5, <2>1, OwedRenewed
<1> QED BY <1>6, <1>7

LEMMA OwedQueue == ASSUME JobsInv, Shapes, OwedInv, NEW b \in Boxes, QueueAccountMailboxes(b) PROVE OwedInv'
<1>1. <<"acct", b>> \in Keys /\ <<"acct", b>>[2] = b
  BY KeyOf
<1>2. \A x : x # b /\ Called(x) => Called(x)'
  BY CallParts DEF Called, QueueAccountMailboxes
<1>3. UNCHANGED <<replay, owed>>
  BY DEF QueueAccountMailboxes
<1>4. /\ \A x : x # b /\ Listed(x, genWork) => Listed(x, genWork)'
      /\ \A x : Listed(x, foreWork) => Listed(x, foreWork)'
      /\ again \subseteq again' /\ auto.held \subseteq auto'.held
  BY DEF QueueAccountMailboxes, Shapes, WorkShape, Listed
<1>5. \A x : x # b /\ Waiting(x) => Waiting(x)'
  BY <1>2, <1>3, <1>4 DEF Waiting, Again, Remaining
<1>6. CASE UNCHANGED jobs
  <2>1. Waiting(b)'
    <3>1. CASE AutoOn
      BY <3>1 DEF QueueAccountMailboxes, Shapes, Waiting
    <3>2. CASE ~AutoOn /\ AccountGated(b)
      BY <3>2 DEF QueueAccountMailboxes, Shapes, WorkShape, Listed, Waiting
    <3>3. CASE ~AutoOn /\ ~AccountGated(b) /\ ForegroundOn
      BY <3>3 DEF QueueAccountMailboxes, Shapes, WorkShape, Listed, Waiting
    <3>4. CASE ~AutoOn /\ ~AccountGated(b) /\ ~ForegroundOn /\ AccountReserved(b)
      BY <3>4 DEF QueueAccountMailboxes, Waiting, Again
    <3>5. CASE ~AutoOn /\ ~AccountGated(b) /\ ~ForegroundOn /\ ~AccountReserved(b)
      <4>1. Reserve(<<"acct", b>>, "sync", "own")
        BY <3>5 DEF QueueAccountMailboxes
      <4> QED BY <1>1, <1>6, <3>5, <4>1, Reserving DEF AccountReserved, Busy
    <3> QED BY <3>1, <3>2, <3>3, <3>4, <3>5
  <2> QED BY <1>3, <1>5, <1>6, <2>1, OwedSame
<1>7. CASE ~UNCHANGED jobs
  <2>1. Reserve(<<"acct", b>>, "sync", "own") /\ ~ReservedByAny(b) /\ "sync" \in Passes
    BY <1>7 DEF QueueAccountMailboxes, AccountReserved, ReservedByAny, Passes
  <2> QED BY <1>1, <1>3, <1>5, <2>1, OwedRenewed
<1> QED BY <1>6, <1>7

LEMMA OwedBegun ==
    ASSUME JobsInv, OwedInv, NEW k \in Keys, BeginJob(k) \/ DiscoverGeneration(k)
    PROVE  OwedInv'
<1>1. JobOK(jobs[k]) /\ JobShape(jobs[k]) /\ k[2] \in Boxes
  BY KeyOf DEF JobsInv, JobOK
<1>2. UNCHANGED <<again, auto, foreWork, genWork, replay, calls>> /\ owed' \subseteq owed
  BY DEF BeginJob, DiscoverGeneration
<1>3. \A b : Waiting(b) => Waiting(b)'
  BY <1>2 DEF Waiting, Called, Again, Listed, Remaining
<1>4. \A j \in Keys : j # k => jobs'[j] = jobs[j]
  BY DEF BeginJob, DiscoverGeneration, JobsInv
<1>5. ASSUME NEW b \in owed', k[2] = b PROVE (Serving(k) => Serving(k)') /\ (Stopped(k)' => Stopped(k))
  <2>1. CASE DiscoverGeneration(k)
    <3>1. jobs'[k] = [jobs[k] EXCEPT !.phase = "signal"] /\ jobs[k].phase = "running"
      BY <2>1 DEF DiscoverGeneration, JobsInv
    <3> QED BY <1>1, <3>1 DEF Serving, Stopped, JobShape
  <2>2. CASE BeginJob(k)
    <3> DEFINE stop == RecoveryPending /\ ~(k = <<"acct", Inbox>> /\ jobs[k].kind \in {"sync", "replay"})
    <3> DEFINE next == [jobs[k] EXCEPT !.phase = "running", !.stop = stop, !.serves = jobs[k].kind \in {"sync", "replay"}]
    <3>1. jobs' = [jobs EXCEPT ![k] = next]
      BY <2>2 DEF BeginJob
    <3>2. owed' = IF stop /\ jobs[k].kind \in {"sync", "replay"} THEN owed \ {k[2]} ELSE owed
      BY <2>2 DEF BeginJob
    <3>3. stop \in BOOLEAN
      OBVIOUS
    <3> HIDE DEF stop
    <3>4. jobs'[k].kind = jobs[k].kind /\ jobs'[k].stop = stop
      BY <1>1, <3>1, <3>3 DEF JobShape, JobsInv
    <3> QED BY <1>5, <3>2, <3>4 DEF Serving, Stopped, Passes
  <2> QED BY <2>1, <2>2
<1>6. \A b \in owed' : Goes(b)
  BY <1>2, <1>3, <1>4, <1>5 DEF Goes, Serving, Stopped
<1> QED BY <1>6, OwedFrom

LEMMA OwedSignalled ==
    ASSUME JobsInv, Shapes, OwedInv, NEW k \in Keys, SignalMailboxGenerationRecovery(k)
    PROVE  OwedInv'
<1>1. UNCHANGED <<again, foreWork, genWork, replay, calls>> /\ auto'.held = auto.held
  BY DEF SignalMailboxGenerationRecovery, Shapes
<1>2. \A b : Waiting(b) => Waiting(b)'
  BY <1>1 DEF Waiting, Called, Again, Listed, Remaining
<1>3. owed' = {b \in owed : \A j \in Keys : ~(j[2] = b /\ jobs[j].serves /\ StopsForRecovery(j))}
  BY DEF SignalMailboxGenerationRecovery
<1>4. jobs[k].phase = "signal"
  BY DEF SignalMailboxGenerationRecovery
<1>5. ASSUME NEW b \in owed', NEW j \in Keys, j[2] = b PROVE (Serving(j) => Serving(j)') /\ (Stopped(j)' => Stopped(j))
  <2>1. JobOK(jobs[j]) /\ JobShape(jobs[j])
    BY DEF JobsInv, JobOK
  <2>2. ~(jobs[j].serves /\ StopsForRecovery(j))
    BY <1>3, <1>5
  <2>3. j # k
    BY <1>4, <2>1, <2>2 DEF JobOK, StopsForRecovery, Passes
  <2>4. jobs'[j] = IF StopsForRecovery(j) THEN [jobs[j] EXCEPT !.stop = TRUE] ELSE jobs[j]
    BY <2>3 DEF SignalMailboxGenerationRecovery
  <2>5. jobs'[j].kind = jobs[j].kind /\ jobs'[j].phase = jobs[j].phase /\ (StopsForRecovery(j) \/ jobs'[j].stop = jobs[j].stop)
    BY <2>1, <2>4 DEF JobShape
  <2> QED BY <2>1, <2>2, <2>5 DEF Serving, Stopped, JobOK
<1>6. \A b \in owed' : Goes(b)
  BY <1>2, <1>3, <1>5 DEF Goes
<1> QED BY <1>6, OwedFrom

LEMMA WithoutOne ==
    ASSUME NEW w, WorkShape(w), NEW k \in Keys
    PROVE  \A b : b # k[2] /\ Listed(b, w) => Listed(b, Without(w, k))
BY DEF WorkShape, Listed, Without

\* A job that ends hands the reruns asked for meanwhile to a call; the pass that the replay
\* waited for is over.
LEMMA OwedEnded ==
    ASSUME JobsInv, ReplayInv, Shapes, OwedInv, NEW k \in Keys, NEW ok \in BOOLEAN, EndJob(k, ok)
    PROVE  OwedInv'
<1>1. JobOK(jobs[k]) /\ JobShape(jobs[k]) /\ k[2] \in Boxes /\ jobs[k].phase = "running"
  BY KeyOf DEF EndJob, JobsInv, JobOK
<1>2. /\ UNCHANGED <<auto, foreWork, genWork>> /\ owed' \subseteq owed /\ calls \cup Reruns(k[2]) \subseteq calls'
      /\ again' = WithoutReruns(k[2])
      /\ owed' = IF jobs[k].serves /\ ~jobs[k].stop THEN owed \ {k[2]} ELSE owed
  BY DEF EndJob
<1>3. \A b : Called(b) => Called(b)'
  BY <1>2 DEF Called
<1>4. \A b : Again(b) => Again(b)' \/ Called(b)'
  <2>1. ASSUME NEW b, Again(b), b # k[2] PROVE Again(b)'
    <3>1. <<"all", b>>[2] = b /\ <<"acct", b>>[2] = b
      OBVIOUS
    <3> QED BY <1>2, <2>1, <3>1 DEF Again, WithoutReruns
  <2>2. Again(k[2]) => Called(k[2])'
    BY <1>2 DEF Again, Called, Reruns
  <2> QED BY <2>1, <2>2
<1>5. jobs[k].kind \in Passes => jobs[k].stop \/ k[2] \notin owed'
  BY <1>1, <1>2 DEF JobOK
<1>6. ASSUME NEW b \in owed', Listed(b, Remaining) PROVE Listed(b, Remaining')
  <2>1. CASE jobs[k].owner # "replay"
    <3>1. replay' = replay
      BY <2>1 DEF EndJob
    <3> QED BY <1>6, <3>1 DEF Remaining
  <2>2. CASE jobs[k].owner = "replay"
    <3>1. jobs[k].kind = "replay" /\ replay.pc = "running" /\ k = replay.now
      BY <1>1, <2>2 DEF JobOK, ReplayInv
    <3>2. replay' = [replay EXCEPT !.pc = IF ok THEN "done" ELSE "pause"]
      BY <2>2 DEF EndJob
    <3>3. replay'.work = replay.work /\ replay'.now = k /\ replay'.pc = IF ok THEN "done" ELSE "pause"
      BY <3>1, <3>2 DEF ReplayInv, ReplayShape
    <3>4. Listed(b, replay.work) /\ WorkShape(replay.work)
      BY <1>6, <3>1 DEF Remaining, ReplayInv, ReplayShape
    <3>5. CASE ~ok
      BY <3>3, <3>4, <3>5 DEF Remaining
    <3>6. CASE ok
      <4>1. ~jobs[k].stop
        BY <3>1, <3>6 DEF EndJob
      <4>2. b # k[2]
        BY <1>5, <3>1, <4>1 DEF Passes
      <4>3. Listed(b, Without(replay.work, k))
        BY <3>4, <4>2, WithoutOne
      <4> QED BY <3>3, <3>6, <4>3 DEF Remaining
    <3> QED BY <3>5, <3>6
  <2> QED BY <2>1, <2>2
<1>7. \A b \in owed' : Waiting(b) => Waiting(b)'
  BY <1>2, <1>3, <1>4, <1>6 DEF Waiting, Listed
<1>8. jobs' = [jobs EXCEPT ![k] = NoJob] /\ NoJob.kind = "none"
  BY DEF EndJob, NoJob
<1>9. \A j \in Keys : (j # k => jobs'[j] = jobs[j]) /\ ~Stopped(k)'
  BY <1>8 DEF JobsInv, Stopped, Serving, Passes
<1>10. ASSUME NEW b \in owed' PROVE Waiting(b)' \/ Goes(b)
  <2>1. CASE b = k[2] /\ jobs[k].kind \in Passes
    <3>1. Stopped(k)
      BY <1>1, <1>5, <2>1 DEF Stopped, Serving
    <3> QED BY <1>2, <1>7, <2>1, <3>1 DEF OwedInv
  <2>2. CASE b # k[2] \/ jobs[k].kind \notin Passes
    BY <1>2, <1>7, <1>9, <2>2 DEF Goes, Serving, Stopped
  <2> QED BY <2>1, <2>2
<1> QED BY <1>10, OwedFrom

LEMMA OwedRecovered ==
    ASSUME JobsInv, OwedInv, NEW b \in Boxes, NEW ok \in BOOLEAN, EndRecovery(b, ok)
    PROVE  OwedInv'
<1>1. UNCHANGED <<again, auto, foreWork, genWork, replay, owed>> /\ calls \subseteq calls'
  BY DEF EndRecovery
<1>2. \A x : Waiting(x) => Waiting(x)'
  BY <1>1 DEF Waiting, Called, Again, Listed, Remaining
<1>3. <<"acct", b>> \in Keys /\ jobs' = [jobs EXCEPT ![<<"acct", b>>] = NoJob] /\ jobs[<<"acct", b>>].kind = "recovery"
      /\ NoJob.kind = "none"
  BY KeyOf DEF EndRecovery, NoJob
<1>4. \A j \in Keys : (Serving(j) => Serving(j)') /\ (Stopped(j)' => Stopped(j))
  BY <1>3 DEF JobsInv, Serving, Stopped, Passes
<1>5. \A x \in owed' : Goes(x)
  BY <1>1, <1>2, <1>4 DEF Goes
<1> QED BY <1>5, OwedFrom

LEMMA OwedAuto == ASSUME JobsInv, Shapes, OwedInv, AutoStep PROVE OwedInv'
<1>1. CASE AutoPlan
  <2>1. UNCHANGED <<jobs, again, foreWork, genWork, replay, calls, owed>> /\ auto'.held = auto.held
    BY <1>1 DEF AutoPlan, Shapes
  <2>2. \A b : Waiting(b) => Waiting(b)'
    BY <2>1 DEF Waiting, Called, Again, Listed, Remaining
  <2> QED BY <2>1, <2>2, OwedSame
<1>2. CASE AutoEnd
  <2>1. UNCHANGED <<jobs, again, foreWork, genWork, replay, owed>> /\ calls \cup {Call("queue", b) : b \in auto.held} \subseteq calls'
    BY <1>2 DEF AutoEnd
  <2>2. \A b : Waiting(b) => Waiting(b)'
    BY <2>1 DEF Waiting, Called, Again, Listed, Remaining
  <2> QED BY <2>1, <2>2, OwedSame
<1>3. ASSUME NEW b \in Boxes, AutoNext(b) PROVE OwedInv'
  <2>1. UNCHANGED <<again, foreWork, replay, calls, owed>> /\ auto'.held = auto.held
    BY <1>3 DEF AutoNext, Shapes
  <2>2. \A x : Listed(x, genWork) => Listed(x, genWork)'
    BY <1>3 DEF AutoNext, Shapes, WorkShape, Listed
  <2>3. \A x : Waiting(x) => Waiting(x)'
    BY <2>1, <2>2 DEF Waiting, Called, Again, Listed, Remaining
  <2>4. CASE UNCHANGED jobs
    BY <2>1, <2>3, <2>4, OwedSame
  <2>5. CASE ~UNCHANGED jobs
    <3>1. Reserve(<<"all", b>>, "sync", "auto") /\ ~ReservedByAny(b) /\ <<"all", b>> \in Keys
      BY <1>3, <2>5, KeyOf DEF AutoNext
    <3>2. Becomes(<<"all", b>>, jobs'[<<"all", b>>]) /\ jobs'[<<"all", b>>].phase = "reserved"
      BY <3>1, Reserving DEF Becomes
    <3>3. ~Busy(<<"all", b>>)
      BY <3>1 DEF ReservedByAny
    <3> QED BY <2>1, <2>3, <3>1, <3>2, <3>3, OwedBegins
  <2> QED BY <2>4, <2>5
<1> QED BY <1>1, <1>2, <1>3 DEF AutoStep

LEMMA OwedForeground == ASSUME JobsInv, Shapes, OwedInv, ForegroundStep \/ BeginForegroundOperation PROVE OwedInv'
<1>1. CASE BeginForegroundOperation
  <2>1. \A b : Called(b) => Called(b)'
    BY <1>1, CallsLeft, CallParts DEF BeginForegroundOperation
  <2> QED BY <1>1, <2>1, OwedYields DEF BeginForegroundOperation
<1>2. CASE PreemptAgain
  BY <1>2, OwedYields DEF PreemptAgain, Called
<1>3. CASE ForegroundAcquired \/ ForegroundTimeout
  <2>1. UNCHANGED <<jobs, again, auto, foreWork, genWork, replay, calls, owed>>
    BY <1>3 DEF ForegroundAcquired, ForegroundTimeout
  <2>2. \A b : Waiting(b) => Waiting(b)'
    BY <2>1 DEF Waiting, Called, Again, Listed, Remaining
  <2> QED BY <2>1, <2>2, OwedSame
<1>4. CASE FinishForeground
  <2>1. UNCHANGED <<jobs, again, auto, genWork, replay, owed>> /\ calls \cup WorkCalls(foreWork) \subseteq calls'
    BY <1>4 DEF FinishForeground
  <2>2. \A b : Listed(b, foreWork) => Called(b)'
    BY <2>1 DEF WorkCalls, Listed, Called
  <2>3. \A b : Waiting(b) => Waiting(b)'
    BY <2>1, <2>2 DEF Waiting, Called, Again, Listed, Remaining
  <2> QED BY <2>1, <2>3, OwedSame
<1> QED BY <1>1, <1>2, <1>3, <1>4 DEF ForegroundStep

LEMMA OwedReconciled ==
    ASSUME JobsInv, ReplayInv, Shapes, OwedInv, \A b : Called(b) => Called(b)', UNCHANGED <<again, foreWork>>,
           NEW list, NEW pending, NEW scanned, NEW epoch, Reconcile(list, pending, scanned, epoch)
    PROVE  OwedInv'
<1>1. auto'.held = auto.held /\ owed' \subseteq owed
  BY DEF Reconcile, CancelOrdinary, Shapes
<1>2. \A b : Listed(b, genWork) \/ Listed(b, Remaining) => Listed(b, genWork)' \/ Listed(b, Remaining)'
  <2>1. CASE UNCHANGED <<genWork, replay>>
    BY <2>1 DEF Remaining, Listed
  <2>2. CASE ~UNCHANGED <<genWork, replay>>
    <3>1. ~gen.replay /\ replay' = [NoReplay EXCEPT !.pc = "prepare", !.work = genWork]
      BY <2>2 DEF Reconcile, MayOpen
    <3>2. replay = NoReplay /\ replay'.work = genWork /\ replay'.pc = "prepare"
      BY <3>1 DEF ReplayInv, NoReplay
    <3>3. \A b : ~Listed(b, Remaining)
      BY <3>2 DEF NoReplay, NoWork, Remaining, Listed
    <3> QED BY <3>2, <3>3 DEF Remaining
  <2> QED BY <2>1, <2>2
<1>3. \A b : Waiting(b) => Waiting(b)'
  BY <1>1, <1>2 DEF Waiting, Again, Listed
<1>4. CASE UNCHANGED jobs
  BY <1>1, <1>3, <1>4, OwedSame
<1>5. CASE CancelOrdinary
  BY <1>3, <1>5, OwedCanceled
<1> QED BY <1>4, <1>5 DEF Reconcile

LEMMA OwedLoop == ASSUME JobsInv, ReplayInv, Shapes, OwedInv, LoopStep PROVE OwedInv'
<1>1. CASE ScanRebuilds \/ LoopDecides
  <2>1. UNCHANGED <<jobs, again, auto, foreWork, genWork, replay, calls, owed>>
    BY <1>1 DEF ScanRebuilds, LoopDecides
  <2>2. \A b : Waiting(b) => Waiting(b)'
    BY <2>1 DEF Waiting, Called, Again, Listed, Remaining
  <2> QED BY <2>1, <2>2, OwedSame
<1>2. CASE ReconcileScan
  <2>1. UNCHANGED <<again, foreWork, calls>> /\ Reconcile(loop.list, loop.list # {}, TRUE, loop.epoch)
    BY <1>2 DEF ReconcileScan
  <2>2. PICK list, pending, epoch : list = loop.list /\ pending = (loop.list # {}) /\ epoch = loop.epoch
    OBVIOUS
  <2>3. Reconcile(list, pending, TRUE, epoch)
    BY <2>1, <2>2
  <2>4. \A b : Called(b) => Called(b)'
    BY <2>1 DEF Called
  <2> QED BY <2>1, <2>3, <2>4, OwedReconciled
<1>3. CASE AttemptRebuild
  <2>1. UNCHANGED <<again, foreWork, genWork, replay, calls>> /\ auto'.held = auto.held
    BY <1>3 DEF AttemptRebuild, CancelOrdinary, Shapes
  <2>2. \A b : Waiting(b) => Waiting(b)'
    BY <2>1 DEF Waiting, Called, Again, Listed, Remaining
  <2>3. CASE ~MayRecover
    <3>1. UNCHANGED <<jobs, owed>> \/ CancelOrdinary
      BY <1>3, <2>3 DEF AttemptRebuild
    <3> QED BY <2>2, <3>1, OwedSame, OwedCanceled
  <2>4. CASE MayRecover
    <3> DEFINE k == <<"acct", First(loop.list)>>
    <3> DEFINE next == [NoJob EXCEPT !.kind = "recovery", !.phase = "running", !.owner = "own"]
    <3>1. k \in Keys
      <4>1. First(loop.list) \in loop.list
        BY <1>3 DEF AttemptRebuild, First
      <4> QED BY <4>1, KeyOf DEF Shapes
    <3>2. jobs' = [jobs EXCEPT ![k] = next] /\ next.kind \notin Passes /\ owed' = owed
      BY <1>3, <2>4 DEF AttemptRebuild, NoJob, Passes
    <3> HIDE DEF next, k
    <3>3. Becomes(k, next) /\ jobs'[k] = next
      BY <3>1, <3>2 DEF Becomes, JobsInv
    <3>4. ~Busy(k)
      BY <2>4, <3>1 DEF MayRecover, UserWorkRunning, OrdinaryRunning
    <3> QED BY <2>2, <3>1, <3>2, <3>3, <3>4, OwedBegins
  <2> QED BY <2>3, <2>4
<1> QED BY <1>1, <1>2, <1>3 DEF LoopStep

\* A replay that pauses hands what remains to the foreground or to the gate.
LEMMA OwedPaused ==
    ASSUME JobsInv, ReplayInv, Shapes, OwedInv, NEW w, WorkShape(w), Pause(w), UNCHANGED <<again, auto, calls>>,
           \A b : Listed(b, Remaining) => Listed(b, w)
    PROVE  \A b : Waiting(b) => Waiting(b)'
<1>1. /\ \A b : Listed(b, genWork) => Listed(b, genWork)'
      /\ \A b : Listed(b, foreWork) => Listed(b, foreWork)'
      /\ \A b : Listed(b, w) => Listed(b, genWork)' \/ Listed(b, foreWork)'
  BY DEF Pause, Join, Listed, Shapes, WorkShape
<1> QED BY <1>1 DEF Waiting, Called, Again

LEMMA OwedReplay == ASSUME JobsInv, ReplayInv, Shapes, OwedInv, ReplayStep PROVE OwedInv'
<1>1. WorkShape(replay.work) /\ ReplayShape(replay) /\ WorkShape(NoWork) /\ \A b : ~Listed(b, NoWork)
  BY DEF ReplayInv, ReplayShape, NoWork, WorkShape, Listed
<1>2. \A b : Listed(b, Remaining) => Listed(b, replay.work)
  BY <1>1 DEF Remaining, Without, Listed, WorkShape
<1>3. ASSUME Pause(replay.work), UNCHANGED <<jobs, again, auto, calls, owed>> PROVE OwedInv'
  BY <1>1, <1>2, <1>3, OwedPaused, OwedSame
<1>4. CASE PrepareReplay
  <2>1. CASE Interrupted
    BY <1>3, <1>4, <2>1 DEF PrepareReplay
  <2>2. CASE ~Interrupted
    <3>1. /\ replay' = [replay EXCEPT !.pc = "next", !.work = Prepared(replay.work)] /\ replay.pc = "prepare"
          /\ UNCHANGED <<genWork, foreWork, jobs, again, auto, calls, owed>>
      BY <1>4, <2>2 DEF PrepareReplay
    <3>2. Remaining = replay.work /\ Remaining' = Prepared(replay.work)
      BY <1>1, <3>1 DEF Remaining, ReplayShape
    <3>3. \A b \in Boxes : Listed(b, replay.work) => Listed(b, Prepared(replay.work))
      BY DEF Prepared, Listed
    <3>4. \A b \in owed' : Waiting(b) => Waiting(b)'
      <4>1. owed' \subseteq Boxes
        BY <3>1 DEF Shapes
      <4> QED BY <3>1, <3>2, <3>3, <4>1 DEF Waiting, Called, Again, Listed
    <3> QED BY <3>1, <3>4, OwedSame
  <2> QED BY <2>1, <2>2
<1>5. CASE ReplayReturned
  <2>1. CASE replay.pc = "pause" \/ Interrupted
    BY <1>3, <1>5, <2>1 DEF ReplayReturned
  <2>2. CASE ~(replay.pc = "pause" \/ Interrupted)
    <3>1. /\ replay' = [replay EXCEPT !.pc = "next", !.work = Without(replay.work, replay.now)] /\ replay.pc = "done"
          /\ UNCHANGED <<genWork, foreWork, jobs, again, auto, calls, owed>>
      BY <1>5, <2>2 DEF ReplayReturned
    <3>2. Remaining' = Remaining
      BY <1>1, <3>1 DEF Remaining, ReplayShape
    <3>3. \A b : Waiting(b) => Waiting(b)'
      BY <3>1, <3>2 DEF Waiting, Called, Again, Listed
    <3> QED BY <3>1, <3>3, OwedSame
  <2> QED BY <2>1, <2>2
<1>6. ASSUME NEW k \in Keys, ReplayNext(k) PROVE OwedInv'
  <2>1. CASE Interrupted
    BY <1>3, <1>6, <2>1 DEF ReplayNext
  <2>2. CASE ~Interrupted
    <3>1. /\ replay' = [replay EXCEPT !.pc = "running", !.now = k] /\ replay.pc = "next"
          /\ Reserve(k, "replay", "replay") /\ UNCHANGED <<genWork, foreWork, again, auto, calls, owed>>
      BY <1>6, <2>2 DEF ReplayNext
    <3>2. Remaining' = Remaining
      BY <1>1, <3>1 DEF Remaining, ReplayShape
    <3>3. \A b : Waiting(b) => Waiting(b)'
      BY <3>1, <3>2 DEF Waiting, Called, Again, Listed
    <3>4. ~Busy(k)
      BY <1>6, <2>2, KeyOf DEF ReplayNext, ReservedByAny, AccountReserved
    <3>5. Becomes(k, jobs'[k]) /\ jobs'[k].phase = "reserved"
      BY <3>1, Reserving DEF Becomes
    <3> QED BY <3>1, <3>3, <3>4, <3>5, OwedBegins
  <2> QED BY <2>1, <2>2
<1>7. CASE ReplayEnds
  <2>1. replay.pc = "next" /\ UNCHANGED <<again, foreWork>> /\ \A b : ~Listed(b, Remaining)
    <3>1. replay.pc = "next" /\ ReplayOrder(replay.work) = {} /\ UNCHANGED <<again, foreWork>>
      BY <1>7 DEF ReplayEnds
    <3>2. replay.work.boxes = {} /\ replay.work.accts = {}
      BY <3>1 DEF ReplayOrder
    <3> QED BY <3>1, <3>2 DEF Remaining, Listed
  <2>2. CASE markers # {}
    <3>1. UNCHANGED <<calls, genWork>> /\ CancelOrdinary /\ auto'.held = auto.held
      BY <1>7, <2>2 DEF ReplayEnds, CancelOrdinary, Shapes
    <3>2. \A b : Waiting(b) => Waiting(b)'
      BY <2>1, <3>1 DEF Waiting, Called, Again, Listed
    <3> QED BY <3>1, <3>2, OwedCanceled
  <2>3. CASE markers = {} /\ gen.users
    <3>1. Pause(NoWork) /\ UNCHANGED <<jobs, auto, owed, calls>>
      BY <1>7, <2>3 DEF ReplayEnds
    <3>2. \A b : Waiting(b) => Waiting(b)'
      BY <1>1, <2>1, <3>1, OwedPaused
    <3> QED BY <3>1, <3>2, OwedSame
  <2>4. CASE markers = {} /\ ~gen.users
    <3>1. UNCHANGED <<jobs, auto, owed>> /\ calls \subseteq calls'
      BY <1>7, <2>4 DEF ReplayEnds
    <3>2. \A b : Listed(b, genWork) => Listed(b, genWork)' \/ Listed(b, Remaining)'
      <4>1. CASE genWork = NoWork
        BY <1>1, <4>1
      <4>2. CASE genWork # NoWork
        <5>1. replay' = [NoReplay EXCEPT !.pc = "prepare", !.work = genWork]
          BY <1>7, <2>4, <4>2 DEF ReplayEnds
        <5>2. replay'.work = genWork /\ replay'.pc = "prepare"
          BY <5>1 DEF NoReplay
        <5> QED BY <5>2 DEF Remaining
      <4> QED BY <4>1, <4>2
    <3>3. \A b : Waiting(b) => Waiting(b)'
      BY <2>1, <3>1, <3>2 DEF Waiting, Called, Again, Listed
    <3> QED BY <3>1, <3>3, OwedSame
  <2> QED BY <2>2, <2>3, <2>4
<1> QED BY <1>4, <1>5, <1>6, <1>7 DEF ReplayStep

LEMMA OwedCalls == ASSUME JobsInv, ReplayInv, Shapes, OwedInv, CallStep PROVE OwedInv'
<1>1. CASE Start
  <2>1. UNCHANGED <<jobs, again, foreWork, replay, owed>> /\ auto'.held = auto.held
    BY <1>1 DEF Start, Shapes
  <2>2. \A b : Called(b) => Called(b)'
    BY <1>1, CallsLeft, CallParts DEF Start
  <2>3. \A b : Listed(b, genWork) => Listed(b, genWork)'
    BY <1>1 DEF Start, Shapes, WorkShape, Listed
  <2>4. \A b : Waiting(b) => Waiting(b)'
    BY <2>1, <2>2, <2>3 DEF Waiting, Again, Listed, Remaining
  <2> QED BY <2>1, <2>4, OwedSame
<1>2. CASE BeginForegroundOperation
  BY <1>2, OwedForeground
<1>3. CASE RefreshGate \/ RefreshSenderStats \/ StartAttachmentIndex
  <2>1. UNCHANGED <<jobs, again, auto, foreWork, genWork, replay, owed>>
    BY <1>3 DEF RefreshGate, RefreshSenderStats, StartAttachmentIndex
  <2>2. \A b : Called(b) => Called(b)'
    BY <1>3, CallsLeft, CallParts DEF RefreshGate, RefreshSenderStats, StartAttachmentIndex
  <2>3. \A b : Waiting(b) => Waiting(b)'
    BY <2>1, <2>2 DEF Waiting, Again, Listed, Remaining
  <2> QED BY <2>1, <2>3, OwedSame
<1>4. ASSUME NEW c \in calls, DecideGate(c) PROVE OwedInv'
  <2>1. \A b : Called(b) => Called(b)'
    BY <1>4, CallsLeft DEF DecideGate
  <2> QED BY <1>4, <2>1, OwedReconciled DEF DecideGate
<1>5. ASSUME NEW c \in calls, GiveUpWaiting(c) PROVE OwedInv'
  <2>1. UNCHANGED <<jobs, again, auto, foreWork, genWork, replay, owed>>
    BY <1>5 DEF GiveUpWaiting
  <2>2. \A b : Called(b) => Called(b)'
    BY <1>5, CallsLeft DEF GiveUpWaiting
  <2>3. \A b : Waiting(b) => Waiting(b)'
    BY <2>1, <2>2 DEF Waiting, Again, Listed, Remaining
  <2> QED BY <2>1, <2>3, OwedSame
<1> QED BY <1>1, <1>2, <1>3, <1>4, <1>5, OwedRequests, OwedPolls, OwedPriority, OwedQueue DEF CallStep

LEMMA OwedKept == ASSUME JobsInv, ReplayInv, Shapes, OwedInv, [RunnerNext]_runVars PROVE OwedInv'
<1>1. CASE UNCHANGED runVars
  BY <1>1, OwedSame DEF runVars, Waiting, Called, Again, Listed, Remaining
<1>2. ASSUME NEW c \in Requests, Ask(c) PROVE OwedInv'
  <2>1. UNCHANGED <<jobs, again, auto, foreWork, genWork, replay>> /\ calls' = calls \cup {c}
        /\ owed' = IF c.op = "queue" THEN owed \cup {c.box} ELSE owed
    BY <1>2 DEF Ask
  <2>2. \A b : Waiting(b) => Waiting(b)'
    BY <2>1 DEF Waiting, Called, Again, Listed, Remaining
  <2>3. c.op = "queue" => c = Call("queue", c.box)
    BY CallParts DEF Requests, Every
  <2>4. c.op = "queue" => Waiting(c.box)'
    BY <2>1, <2>3 DEF Waiting, Called
  <2>5. \A b \in owed' : Waiting(b)' \/ Goes(b)
    BY <2>1, <2>2, <2>4 DEF Goes, Serving, Stopped
  <2> QED BY <2>5, OwedFrom
<1>3. CASE JobStep
  <2>1. ASSUME NEW ok \in BOOLEAN, SenderStatsDone(ok) \/ \E more \in BOOLEAN : AttachmentIndexDone(ok, more) PROVE OwedInv'
    <3>1. UNCHANGED <<jobs, again, auto, foreWork, genWork, replay, owed>> /\ calls \subseteq calls'
      BY <2>1 DEF SenderStatsDone, AttachmentIndexDone
    <3>2. \A b : Waiting(b) => Waiting(b)'
      BY <3>1 DEF Waiting, Called, Again, Listed, Remaining
    <3> QED BY <3>1, <3>2, OwedSame
  <2> QED BY <1>3, <2>1, OwedBegun, OwedSignalled, OwedEnded, OwedRecovered DEF JobStep
<1> QED BY <1>1, <1>2, <1>3, OwedCalls, OwedAuto, OwedForeground, OwedLoop, OwedReplay DEF RunnerNext

-----------------------------------------------------------------------------
(* The theorems *)
WorkInv == JobsInv /\ ReplayInv /\ Shapes /\ AloneInv /\ ForegroundAlone /\ LoopInv /\ GateInv /\ OwedInv

LEMMA WorkInitially == RunnerInit => WorkInv
<1> SUFFICES ASSUME RunnerInit PROVE WorkInv
  OBVIOUS
<1>1. JobOK(NoJob) /\ NoJob.kind = "none"
  BY DEF JobOK, JobShape, NoJob, Passes
<1>2. DOMAIN jobs = Keys /\ \A k \in Keys : jobs[k] = NoJob
  BY DEF RunnerInit
<1>3. JobsInv
  BY <1>1, <1>2, KeyOf DEF JobsInv, OneJobPerMailbox, Busy
<1>4. WorkShape(NoWork) /\ ReplayShape(NoReplay) /\ NoReplay.pc = "off"
  BY DEF NoWork, NoReplay, WorkShape, ReplayShape
<1>5. ReplayInv /\ ~gen.runs /\ ~gen.users
  BY <1>1, <1>2, <1>4 DEF RunnerInit, ReplayInv, GenShape
<1>6. Shapes
  BY <1>4 DEF RunnerInit, Shapes
<1>7. AloneInv /\ ForegroundAlone
  BY <1>5 DEF RunnerInit, AloneInv, ForegroundAlone
<1>8. LoopInv /\ GateInv /\ OwedInv
  BY <1>5 DEF RunnerInit, LoopInv, LoopAlive, GateInv, OwedInv
<1> QED BY <1>3, <1>5, <1>6, <1>7, <1>8 DEF WorkInv

LEMMA WorkKept == WorkInv /\ [RunnerNext]_runVars => WorkInv'
<1> SUFFICES ASSUME WorkInv, [RunnerNext]_runVars PROVE WorkInv'
  OBVIOUS
<1>1. JobsStep
  BY JobSteps DEF WorkInv
<1>2. ReplayInv' /\ Shapes'
  BY <1>1, ReplayKept, ShapesKept DEF WorkInv
<1>3. AloneInv' /\ ForegroundAlone'
  BY <1>1, AloneKept, ForegroundKept DEF WorkInv
<1>4. LoopInv' /\ GateInv' /\ OwedInv'
  BY <1>1, <1>2, LoopKept, GateKept, OwedKept DEF WorkInv
<1> QED BY <1>1, <1>2, <1>3, <1>4 DEF WorkInv, JobsStep

\* The set of at most one mailbox that is busy beside a rebuild.
LEMMA OthersAreFew == AloneInv => RecoveryAlone
<1> DEFINE others == {k \in Keys : Busy(k) /\ jobs[k].kind # "recovery"}
<1> SUFFICES ASSUME AloneInv, gen.runs
             PROVE  /\ ~AutoOn /\ Cardinality(others) <= 1
                    /\ \A k \in others : k = <<"acct", Inbox>> /\ jobs[k].kind \in {"sync", "replay"}
  BY DEF RecoveryAlone
<1>1. ~AutoOn /\ \A k \in others : k = <<"acct", Inbox>> /\ jobs[k].kind \in {"sync", "replay"}
  BY DEF AloneInv, Passes
<1> HIDE DEF others
<1>2. others \subseteq {<<"acct", Inbox>>}
  BY <1>1
<1>3. IsFiniteSet({<<"acct", Inbox>>}) /\ Cardinality({<<"acct", Inbox>>}) = 1
  BY FS_Singleton
<1>4. Cardinality(others) <= 1
  BY <1>2, <1>3, FS_Subset
<1> QED BY <1>1, <1>4

LEMMA OwedIsKept == ReplayInv /\ Shapes /\ OwedInv => PromiseKept
<1> SUFFICES ASSUME ReplayInv, Shapes, OwedInv, NEW b \in owed PROVE Kept(b)
  BY DEF PromiseKept
<1>1. <<"all", b>> \in again => \E k \in Keys : k[2] = b /\ k \in again
  BY KeyOf DEF Shapes
<1>2. <<"acct", b>> \in again => \E k \in Keys : k[2] = b /\ k \in again
  BY KeyOf DEF Shapes
<1>3. Listed(b, Remaining) => Listed(b, replay.work)
  BY DEF ReplayInv, ReplayShape, WorkShape, Remaining, Without, Listed
<1>4. \A w \in {genWork, foreWork, replay.work} : Listed(b, w) => b \in w.boxes \cup w.accts \/ w.auto
  BY DEF Listed
<1>5. CASE Waiting(b)
  <2>1. CASE Called(b) \/ b \in auto.held
    BY <2>1 DEF Called, Kept
  <2>2. CASE Again(b)
    BY <1>1, <1>2, <2>2 DEF Again, Kept
  <2>3. CASE Listed(b, genWork) \/ Listed(b, foreWork) \/ Listed(b, Remaining)
    BY <1>3, <1>4, <2>3 DEF Kept
  <2> QED BY <1>5, <2>1, <2>2, <2>3 DEF Waiting
<1>6. CASE \E k \in Keys : k[2] = b /\ Serving(k)
  BY <1>6 DEF Serving, Passes, Kept
<1> QED BY <1>5, <1>6 DEF OwedInv

\* What the runner keeps to at all times: one job has a mailbox, nothing but one pass over
\* the Inbox runs beside a rebuild and nothing but a search rebuild behind the barrier of a
\* send, the recovery loop lives while the gate is closed, and no promised pass is dropped.
THEOREM RunnerIsSafe == RunnerSpec => []RunnerSafe
<1>1. WorkInv => RunnerSafe
  BY OthersAreFew, OwedIsKept DEF WorkInv, RunnerSafe, JobsInv, LoopInv
<1> QED BY <1>1, WorkInitially, WorkKept, PTL DEF RunnerSpec

\* The gate of a user opens only when no mailbox waits for its rebuild, although the markers
\* are read before the lock is taken.
THEOREM GateIsFresh == RunnerSpec => GateOpensClean
<1>1. WorkInv /\ [RunnerNext]_runVars => [gen.users /\ ~gen'.users => markers = {}]_runVars
  BY OpensOnFreshList DEF WorkInv
<1> QED BY <1>1, WorkInitially, WorkKept, PTL DEF RunnerSpec, GateOpensClean

-----------------------------------------------------------------------------
(* The passes over a mailbox *)
\* The places of a pass: with a plan, before and after it works, and at work; of those with a message in hand.
Plans == {"reset", "purge", "pending"}
Fetches == {"replay", "snapshot", "fetch", "repair"}
Ends == {"flags", "apply", "reconcile", "finalize"}
Works == {"item", "index", "complete", "record", "checkpoint", "refresh", "flush", "history", "finish", "advance"}
Inside == {"index", "complete", "record", "checkpoint"}

\* The shapes of what the parts hold.
ServerShape ==
    /\ DOMAIN server = {"gen", "next", "mail", "seen", "count"}
    /\ server.gen \in Nat \ {0} /\ server.next \in Nat \ {0} /\ server.count \in Nat
    /\ UIDs(server) \subseteq 1..(server.next - 1)
    /\ \A u \in UIDs(server) : server.mail[u] \in 1..server.count
StoreShape ==
    /\ DOMAIN box = {"gen", "last", "empty"} /\ box.gen \in Nat /\ box.last \in Nat
    /\ DOMAIN rows \subseteq Nat \ {0}
    /\ \A u \in DOMAIN rows : /\ DOMAIN rows[u] = {"msg", "gen", "done", "read", "pend"}
                              /\ rows[u].msg \in 1..server.count /\ rows[u].gen = box.gen
                              /\ rows[u].done \in BOOLEAN /\ rows[u].pend \in BOOLEAN
    /\ DOMAIN marker = {"target", "floor"} /\ marker.target \in Nat /\ marker.floor \in Nat
    /\ DOMAIN journal \subseteq 1..server.count
    /\ due \subseteq Nat \X Nat
PlanShape(p) ==
    /\ DOMAIN p = {"pc", "kind", "requested", "start", "gen", "next", "count", "wasEmpty"}
    /\ {p.gen, p.next} \subseteq Nat \ {0}
FetchShape(p) == p.gen \in Nat \ {0} /\ p.rebuild \in BOOLEAN
AtWork(p) ==
    /\ DOMAIN p = {"pc", "gen", "start", "wasEmpty", "floor", "rebuild", "phase", "queue", "bad", "cur", "batch", "compl",
                   "pend", "whole", "final", "snap", "top"}
    /\ FetchShape(p)
    /\ p.phase \in {"prewarm", "repair", "history", "refresh"}
    /\ {p.cur, p.pend, p.top, p.start} \subseteq Nat /\ {p.whole, p.final} \subseteq BOOLEAN
    /\ \A i \in p.queue : i.uid \in Nat \ {0} /\ i.msg \in 1..server.count
    /\ p.snap \subseteq Nat /\ IsFiniteSet(p.snap)
PassShape ==
    /\ pass.pc \in {"none", "status"} \cup Plans \cup Fetches \cup Ends \cup Works
    /\ pass.pc = "none" => pass = NoPass
    /\ pass.pc = "status" => DOMAIN pass = {"pc", "kind", "requested", "start"}
    /\ pass.pc \in Plans => PlanShape(pass)
    /\ pass.pc \in Fetches \cup Ends =>
          /\ {"pc", "gen", "start", "wasEmpty", "floor", "rebuild"} \subseteq DOMAIN pass
          /\ FetchShape(pass)
    /\ pass.pc \in Works => AtWork(pass)

\* The row has a generation that the server has or had, and what is stored is of it.  A marker is of it too.
StoreGenerations ==
    /\ box.gen <= server.gen
    /\ box.gen = 0 => box.last = 0 /\ DOMAIN rows = {}
    /\ box.gen = server.gen => box.last < server.next
    /\ marker.target \in {0, box.gen} /\ marker.target # 1
    /\ marker.target = 0 => DOMAIN journal = {}
    /\ marker.target # 0 => marker.floor > 0
    /\ \A d \in due : d[1] <= box.gen
    /\ oper # "idle" => oper = "purge" /\ pass = NoPass /\ box.gen > 1
\* A pass that has looked at the generation works in the one of the row, and rebuilds as long as there is a marker.
PassGenerations ==
    /\ pass.pc \in Plans => box.gen <= pass.gen /\ pass.gen <= server.gen
    /\ pass.pc \in {"purge", "pending"} \cup Fetches \cup Ends \cup Works => pass.gen = box.gen
    /\ pass.pc \in Fetches \cup Ends \cup Works =>
          (pass.rebuild <=> marker.target = pass.gen) /\ (pass.rebuild => pass.floor = marker.floor)
    /\ pass.pc = "purge" => box.gen > 1

\* The order of the phases.
Flow ==
    /\ pass.pc \in {"replay", "snapshot"} => pass.rebuild
    /\ pass.pc \in {"fetch", "repair"} => ~pass.rebuild
    /\ pass.pc \in Works =>
          /\ pass.phase \in {"prewarm", "refresh"} => pass.rebuild
          /\ pass.phase = "repair" => ~pass.rebuild
          /\ pass.pc = "checkpoint" => pass.phase = "history"
          /\ pass.pc = "history" => pass.phase = "prewarm"
          /\ pass.pc = "refresh" => pass.phase = "history" /\ pass.rebuild
          /\ pass.pc \in {"flush", "finish", "advance"} => (pass.phase = "history" => ~pass.rebuild)
          /\ pass.pc \in {"finish", "advance"} => pass.phase # "prewarm"
          /\ pass.pc \in {"history", "refresh", "flush", "finish", "advance"} => pass.queue = {}
          /\ pass.pc \in Inside => pass.queue # {}
          /\ pass.phase # "history" \/ pass.rebuild => pass.pend = 0

\* A pass begins at the checkpoint of the row and takes it along; what it still has to handle is above.
Places ==
    /\ pass.pc \in {"status"} \cup Plans \cup Fetches => pass.start = box.last
    /\ pass.pc \in Works =>
          /\ pass.cur = box.last /\ pass.start <= box.last
          /\ pass.phase \in {"prewarm", "repair"} => pass.start = box.last
          /\ \A i \in pass.queue : i.uid > box.last /\ i.uid > pass.pend

\* One UID of a generation is of one message: in the rows, at the server and in the hands of a pass.
StoreAgrees ==
    /\ \A u, v \in UIDs(server) : server.mail[u] = server.mail[v] => u = v
    /\ \A u, v \in DOMAIN rows : rows[u].msg = rows[v].msg => u = v
    /\ box.gen = server.gen =>
          \A u \in DOMAIN rows : u < server.next /\ \A v \in UIDs(server) : u = v <=> rows[u].msg = server.mail[v]
PassAgrees ==
    pass.pc \in Works =>
          /\ \A i, j \in pass.queue : i.uid = j.uid \/ i.msg = j.msg => i = j
          /\ \A i \in pass.queue, u \in DOMAIN rows : i.uid = u <=> i.msg = rows[u].msg
          /\ pass.gen = server.gen =>
                \A i \in pass.queue : i.uid < server.next /\ \A v \in UIDs(server) : i.uid = v <=> i.msg = server.mail[v]

\* What a checkpoint may pass: all that is below is imported, or will be with its batch.
Taken(u) == u \in DOMAIN rows /\ (rows[u].done \/ u \in pass.compl)
Queued(u) == \E i \in pass.queue : i.uid = u
Taking ==
    pass.pc \in Works =>
        /\ pass.gen = server.gen =>
              \A u \in UIDs(server) :
                 /\ u <= pass.pend => Taken(u)
                 /\ pass.phase = "history" => \A i \in pass.queue : u < i.uid => Taken(u) \/ Queued(u)
                 /\ pass.phase = "repair" => (u <= pass.top => Taken(u) \/ Queued(u))
                 /\ pass.phase = "prewarm" => \A v \in pass.snap : u < v => u \in pass.snap
        /\ pass.gen = server.gen =>
              /\ pass.pend < server.next /\ pass.top < server.next
              /\ pass.phase = "prewarm" => \A v \in pass.snap : v < server.next
\* The message in hand has its row, and what is to be completed with a batch holds the checkpoint back.
InHand ==
    pass.pc \in Works =>
        /\ pass.pc \in Inside => Taken(Head1.uid)
        /\ pass.pc \in {"index", "complete"} => Head1.uid \in pass.compl /\ ~rows[Head1.uid].done
        /\ pass.pc \in {"record", "checkpoint"} /\ pass.phase = "history" =>
              IF pass.whole THEN pass.compl = {} ELSE pass.pend # 0 \/ ~rows[Head1.uid].done
        /\ pass.pc = "item" /\ pass.phase = "history" /\ pass.pend = 0 => pass.compl = {}
        /\ pass.rebuild /\ pass.pc \notin {"index", "complete"} => pass.compl = {}
        /\ pass.pc = "advance" => pass.compl = {}

\* What still waits in the journal is what the rebuild has not stored yet.
Left == DOMAIN journal \cap Range(server.mail)
StoreJournal ==
    /\ DOMAIN unsent \subseteq Range(server.mail)
    /\ \A u \in DOMAIN rows : rows[u].msg \notin DOMAIN journal
PassJournal ==
    /\ pass.pc \in Works /\ pass.rebuild =>
          /\ pass.phase = "prewarm" /\ pass.gen = server.gen =>
                \A v \in UIDs(server) : server.mail[v] \in DOMAIN journal => v \in pass.snap
          /\ pass.phase = "history" /\ pass.final => \A m \in Left : \E i \in pass.queue : i.msg = m
          /\ pass.phase = "refresh" /\ pass.final => Left = {}
    /\ pass.pc \in Ends /\ pass.rebuild => Left = {}

\* In the first generation an import waits for its document.
Documented ==
    pass.pc \in Works =>
        /\ pass.gen = 1 => \A u \in pass.compl \cap DOMAIN rows : u \in pass.batch \/ <<1, u>> \in docs
        /\ pass.pc \in {"finish", "advance"} => pass.batch = {}
        /\ pass.pc = "complete" /\ Hooks /\ ~pass.rebuild => pass.batch = {}

\* New mail nobody was told of yet is above the checkpoint, and a pass comes to it before its checkpoint does.
Owed(u) ==
    /\ <<rows[u].gen, u>> \in due
    /\ rows[u].msg \in Range(server.mail) /\ rows[u].msg \notin bypassed /\ rows[u].msg \notin announced
StoreOwes ==
    /\ \A u \in DOMAIN rows :
          Owed(u) => u > box.last /\ IF marker.target = 0 THEN box.last > 0 ELSE u >= marker.floor
    /\ box.gen = server.gen =>
          \A u \in Nat : <<box.gen, u>> \in due => u < server.next /\ (u \in UIDs(server) => u \in DOMAIN rows)
PassOwes ==
    /\ \A u \in DOMAIN rows : Owed(u) =>
          /\ pass.pc \in Works /\ ~pass.rebuild /\ pass.phase = "history" =>
                /\ pass.start > 0 /\ u > pass.pend
                /\ \A i \in pass.queue : u < i.uid => Queued(u)
                /\ pass.pc = "checkpoint" => u # Head1.uid
          /\ pass.pc \in Works \cup Ends \cup {"snapshot"} /\ pass.rebuild =>
                pass.pc \in {"index", "complete", "record"} /\ u = Head1.uid
    /\ pass.pc \in Works => \A i \in pass.queue : <<box.gen, i.uid>> \in due => i.uid \in DOMAIN rows

\* The invariant: of what is stored, and of a pass under way.
StoreInv ==
    /\ ServerShape /\ StoreShape /\ StoreGenerations /\ StoreAgrees /\ StoreJournal /\ StoreOwes
    /\ CheckpointCovered /\ CompletedIsIndexed /\ UnsentChangeKept
PassInv ==
    /\ PassShape /\ PassGenerations /\ Flow /\ Places /\ PassAgrees
    /\ Taking /\ InHand /\ PassJournal /\ Documented /\ PassOwes
MailInv == StoreInv /\ PassInv

\* Without stubs a pass takes the items it fetched by ascending UID.
LEMMA HeadIsLeast ==
    ASSUME Oversized = {}, pass.queue # {}, \A i \in pass.queue : i.uid \in Nat
    PROVE  Head1 \in pass.queue /\ \A i \in pass.queue : Head1.uid <= i.uid
<1> DEFINE uids == {i.uid : i \in pass.queue}
<1>1. uids \subseteq Nat /\ uids # {}
  OBVIOUS
<1>2. IsWellFoundedOn(OpToRel(<, Nat), Nat)
  BY NatLessThanWellFounded
<1>3. PICK least \in uids : \A v \in uids : ~(<<v, least>> \in OpToRel(<, Nat))
  BY <1>1, <1>2, WFMin
<1>4. \A v \in uids : v < least => <<v, least>> \in OpToRel(<, Nat)
  BY <1>1 DEF OpToRel
<1>5. \A v \in uids : v \in Nat /\ least \in Nat /\ ~(v < least)
  BY <1>1, <1>3, <1>4
<1>6. \A v \in uids : least <= v
  BY <1>5
<1>7. PICK i \in pass.queue : \A j \in pass.queue : i.uid <= j.uid
  BY <1>3, <1>6
<1>8. FetchedFirst = pass.queue
  BY DEF FetchedFirst, Stubs
<1> QED BY <1>7, <1>8 DEF Head1

\* The largest of a set of UIDs, as a sparse repair takes it, bounds them all.
LEMMA TopIsLargest ==
    ASSUME NEW n \in Nat, NEW S, S \subseteq 1..n
    PROVE  Top(S) \in 0..n /\ \A u \in S : u <= Top(S)
<1>1. CASE S = {}
  BY <1>1 DEF Top
<1>2. CASE S # {}
  <2> DEFINE below == {n - u : u \in S}
  <2>0. \A u \in S : u \in Nat /\ u <= n /\ n - u \in Nat
    OBVIOUS
  <2>1. below \subseteq Nat /\ below # {}
    <3>1. below # {}
      BY <1>2
    <3> QED BY <2>0, <3>1
  <2>2. IsWellFoundedOn(OpToRel(<, Nat), Nat)
    BY NatLessThanWellFounded
  <2>3. PICK least \in below : \A v \in below : ~(<<v, least>> \in OpToRel(<, Nat))
    BY <2>1, <2>2, WFMin
  <2>4. \A v \in below : v < least => <<v, least>> \in OpToRel(<, Nat)
    BY <2>1 DEF OpToRel
  <2>5. \A v \in below : v \in Nat /\ least \in Nat /\ ~(v < least)
    BY <2>1, <2>3, <2>4
  <2>6. PICK largest \in S : least = n - largest
    BY <2>3
  <2>7. \A u \in S : largest >= u
    <3> SUFFICES ASSUME NEW u \in S PROVE largest >= u
      OBVIOUS
    <3>1. n - u \in below /\ ~(n - u < n - largest)
      BY <2>5, <2>6
    <3>2. u \in Nat /\ largest \in Nat /\ n \in Nat
      BY <2>0, <2>6
    <3> QED BY <3>1, <3>2
  <2>8. Max(S) \in S /\ \A u \in S : Max(S) >= u
    BY <2>6, <2>7 DEF Max
  <2>9. Top(S) = Max(S)
    BY <1>2 DEF Top
  <2>10. Top(S) \in 1..n
    BY <2>8, <2>9
  <2> QED BY <2>0, <2>8, <2>9, <2>10
<1> QED BY <1>1, <1>2

\* The larger of two UIDs, as UpdateMailboxLastUIDForGeneration takes it, is one of them and neither is above it.
LEMMA LargerOfTwo ==
    ASSUME NEW a \in Nat, NEW b \in Nat
    PROVE  Max({a, b}) \in {a, b} /\ a <= Max({a, b}) /\ b <= Max({a, b})
<1>1. PICK larger \in {a, b} : \A x \in {a, b} : larger >= x
  <2>1. CASE a >= b
    BY <2>1
  <2>2. CASE b >= a
    BY <2>2
  <2> QED BY <2>1, <2>2
<1> QED BY <1>1 DEF Max

\* What is below a UID of a turn of the snapshot is in the turn too.
LEMMA OldestAreBelow ==
    ASSUME NEW S, S \subseteq Nat, IsFiniteSet(S), NEW u \in S, NEW v \in Oldest(S), u < v
    PROVE  u \in Oldest(S)
<1>1. v \in S /\ Cardinality({w \in S : w < v}) < TurnSize /\ TurnSize \in Nat
  BY MailboxSyncAssumption DEF Oldest
<1>2. {w \in S : w < u} \subseteq {w \in S : w < v}
  <2>1. \A w \in S : w < u => w < v
    BY <1>1
  <2> QED BY <2>1
<1>3. IsFiniteSet({w \in S : w < v}) /\ IsFiniteSet({w \in S : w < u})
  BY FS_Subset
<1>4. Cardinality({w \in S : w < u}) <= Cardinality({w \in S : w < v})
  BY <1>2, <1>3, FS_Subset
<1>5. Cardinality({w \in S : w < u}) \in Nat /\ Cardinality({w \in S : w < v}) \in Nat
  BY <1>3, FS_CardinalityType
<1> QED BY <1>1, <1>4, <1>5 DEF Oldest

\* The server lists finitely many messages.
LEMMA ListedIsFinite == ServerShape => IsFiniteSet(UIDs(server))
<1> SUFFICES ASSUME ServerShape PROVE IsFiniteSet(UIDs(server))
  OBVIOUS
<1>1. IsFiniteSet(1..(server.next - 1))
  BY FS_Interval DEF ServerShape
<1> QED BY <1>1, FS_Subset DEF ServerShape

\* A step that writes no row, checkpoint, marker or change.
StoreKeeps ==
    /\ UNCHANGED <<server, rows, marker, journal, due, unsent>>
    /\ DOMAIN box' = DOMAIN box /\ box'.gen = box.gen /\ box'.last = box.last
    /\ docs \subseteq docs' /\ announced \subseteq announced' /\ bypassed \subseteq bypassed'
    /\ oper' = "idle" \/ (oper' = oper /\ pass' = pass)

\* Such a step keeps what is true of the store.
LEMMA StoreStays == ASSUME StoreInv, StoreKeeps PROVE StoreInv'
<1>1. ServerShape' /\ StoreShape' /\ StoreGenerations' /\ StoreAgrees' /\ StoreJournal'
  BY DEF StoreInv, StoreKeeps, ServerShape, StoreShape, StoreGenerations, StoreAgrees, StoreJournal, UIDs
<1>2. StoreOwes'
  BY DEF StoreInv, StoreKeeps, StoreOwes, Owed, UIDs
<1>3. CheckpointCovered' /\ CompletedIsIndexed' /\ UnsentChangeKept'
  BY DEF StoreInv, StoreKeeps, CheckpointCovered, CompletedIsIndexed, UnsentChangeKept, UIDs
<1> QED BY <1>1, <1>2, <1>3 DEF StoreInv

\* Without a pass there is nothing to keep.
LEMMA NobodyWorks == ASSUME pass' = NoPass PROVE PassInv'
  BY DEF PassInv, NoPass, Plans, Fetches, Ends, Works, Inside, PassShape, PassGenerations, Flow, Places, PassAgrees,
         Taking, InHand, PassJournal, Documented, PassOwes

-----------------------------------------------------------------------------
(* The server *)

\* A step of the server: messages come under new UIDs, go, or get other UIDs in a new generation.
ServerMoves ==
    /\ ServerShape' /\ server'.gen >= server.gen /\ server'.count >= server.count
    /\ server'.gen = server.gen =>
          /\ server.next <= server'.next
          /\ \A u \in DOMAIN server'.mail :
                IF u \in DOMAIN server.mail THEN server'.mail[u] = server.mail[u]
                ELSE u >= server.next /\ server'.mail[u] > server.count
    /\ \A m \in Range(server'.mail) : m \in Range(server.mail) \/ m > server.count
    /\ \A u, v \in DOMAIN server'.mail : server'.mail[u] = server'.mail[v] => u = v
    /\ DOMAIN unsent' \subseteq DOMAIN unsent \cap Range(server'.mail) /\ \A m \in DOMAIN unsent' : unsent'[m] = unsent[m]
    /\ UNCHANGED <<store, docs, announced, due, bypassed, pass, oper>>

\* A delivery takes the next UID.
LEMMA MailArrives == ASSUME StoreInv, Deliver PROVE ServerMoves
<1> ServerShape /\ StoreAgrees /\ StoreJournal
  BY DEF StoreInv
<1>1. /\ DOMAIN server' = DOMAIN server /\ server'.gen = server.gen
      /\ server'.next = server.next + 1 /\ server'.count = server.count + 1
      /\ server'.mail = With(server.mail, server.next, server.count + 1)
  BY DEF Deliver, ServerShape
<1>2. /\ DOMAIN server'.mail = DOMAIN server.mail \cup {server.next}
      /\ server'.mail[server.next] = server.count + 1
      /\ \A u \in DOMAIN server.mail : u # server.next /\ server'.mail[u] = server.mail[u]
  BY <1>1 DEF With, ServerShape, UIDs
<1>3. \A m : m \in Range(server'.mail) <=> m \in Range(server.mail) \/ m = server.count + 1
  BY <1>2 DEF Range
<1>4. ServerShape'
  <2>1. DOMAIN server'.mail \subseteq 1..(server'.next - 1)
    BY <1>1, <1>2 DEF ServerShape, UIDs
  <2>2. \A u \in DOMAIN server'.mail : server'.mail[u] \in 1..server'.count
    BY <1>1, <1>2 DEF ServerShape, UIDs
  <2> QED BY <1>1, <2>1, <2>2 DEF ServerShape, UIDs
<1>5. \A u, v \in DOMAIN server'.mail : server'.mail[u] = server'.mail[v] => u = v
  BY <1>2 DEF ServerShape, StoreAgrees, UIDs
<1>6. unsent' = unsent
  BY DEF Deliver, ghosts
<1>7. UNCHANGED <<store, docs, announced, due, bypassed, pass, oper>>
  BY DEF Deliver, ghosts
<1> QED BY <1>1, <1>2, <1>3, <1>4, <1>5, <1>6, <1>7 DEF ServerMoves, ServerShape, StoreJournal

\* An expunge takes the change of its message with it.
LEMMA MailGoes == ASSUME StoreInv, NEW gone \in UIDs(server), Expunge(gone) PROVE ServerMoves
<1> ServerShape /\ StoreAgrees /\ StoreJournal
  BY DEF StoreInv
<1>1. /\ DOMAIN server' = DOMAIN server /\ server'.gen = server.gen
      /\ server'.next = server.next /\ server'.count = server.count
      /\ server'.mail = Drop(server.mail, gone)
  BY DEF Expunge, ServerShape
<1>2. /\ DOMAIN server'.mail = DOMAIN server.mail \ {gone}
      /\ \A u \in DOMAIN server'.mail : server'.mail[u] = server.mail[u]
  BY <1>1 DEF Drop
<1>3. \A m : m \in Range(server'.mail) <=> m \in Range(server.mail) /\ m # server.mail[gone]
  BY <1>2 DEF Range, StoreAgrees, UIDs
<1>4. ServerShape'
  BY <1>1, <1>2 DEF ServerShape, UIDs
<1>5. unsent' = Drop(unsent, server.mail[gone])
  BY DEF Expunge
<1>6. DOMAIN unsent' = DOMAIN unsent \ {server.mail[gone]} /\ \A m \in DOMAIN unsent' : unsent'[m] = unsent[m]
  BY <1>5 DEF Drop
<1>7. UNCHANGED <<store, docs, announced, due, bypassed, pass, oper>>
  BY DEF Expunge
<1>8. \A u, v \in DOMAIN server'.mail : server'.mail[u] = server'.mail[v] => u = v
  BY <1>2 DEF StoreAgrees, UIDs
<1> QED BY <1>1, <1>2, <1>3, <1>4, <1>6, <1>7, <1>8 DEF ServerMoves, ServerShape, StoreJournal

\* A new generation gives every message another UID.
LEMMA MailIsRenumbered == ASSUME StoreInv, NewGeneration PROVE ServerMoves
<1> ServerShape /\ StoreAgrees /\ StoreJournal
  BY DEF StoreInv
<1> DEFINE size == Cardinality(UIDs(server))
<1>1. size \in Nat
  BY ListedIsFinite, FS_CardinalityType
<1>2. PICK order \in [1..size -> Range(server.mail)] :
         /\ Range(order) = Range(server.mail)
         /\ \A u, v \in DOMAIN order : u < v => order[u] < order[v]
         /\ server' = [server EXCEPT !.gen = @ + 1, !.next = size + 1, !.mail = order]
  BY DEF NewGeneration
<1> HIDE DEF size
<1>3. /\ DOMAIN server' = DOMAIN server /\ server'.gen = server.gen + 1
      /\ server'.next = size + 1 /\ server'.count = server.count /\ server'.mail = order
  BY <1>2 DEF ServerShape
<1>4. \A m \in Range(server.mail) : m \in 1..server.count
  BY DEF Range, ServerShape, UIDs
<1>5. \A u \in DOMAIN order : u \in 1..size /\ order[u] \in Range(server.mail)
  BY <1>2
<1>6. ServerShape'
  BY <1>1, <1>3, <1>4, <1>5 DEF ServerShape, UIDs
<1>7. \A u, v \in DOMAIN order : order[u] = order[v] => u = v
  BY <1>1, <1>2, <1>4, <1>5
<1>8. UNCHANGED <<store, docs, announced, due, bypassed, unsent, pass, oper>>
  BY DEF NewGeneration, ghosts
<1> QED BY <1>2, <1>3, <1>6, <1>7, <1>8 DEF ServerMoves, ServerShape, StoreJournal

\* What is stored of a generation stays true of it.
LEMMA StoreSeesServer == ASSUME StoreInv, ServerMoves PROVE StoreInv'
<1> ServerShape /\ StoreShape /\ StoreGenerations /\ StoreAgrees /\ StoreJournal /\ StoreOwes
  BY DEF StoreInv
<1> USE DEF UIDs
<1>1. ServerShape' /\ UNCHANGED <<box, rows, marker, journal, docs, announced, due, bypassed, pass, oper>>
  BY DEF ServerMoves, store
<1>2. StoreShape' /\ StoreGenerations'
  BY <1>1 DEF StoreShape, StoreGenerations, ServerMoves, ServerShape
<1>3. StoreAgrees'
  <2>1. ASSUME box.gen = server'.gen, NEW u \in DOMAIN rows
        PROVE  u < server'.next /\ \A v \in DOMAIN server'.mail : u = v <=> rows[u].msg = server'.mail[v]
    <3>1. server'.gen = server.gen
      BY <2>1 DEF ServerMoves, StoreGenerations, StoreShape, ServerShape
    <3>2. u < server.next /\ u \in Nat /\ rows[u].msg <= server.count /\ rows[u].msg \in Nat
      BY <2>1, <3>1 DEF StoreAgrees, StoreShape, ServerShape
    <3> QED BY <2>1, <3>1, <3>2 DEF ServerMoves, StoreAgrees, ServerShape
  <2> QED BY <1>1, <2>1 DEF ServerMoves, StoreAgrees, StoreGenerations, StoreShape, ServerShape
<1>4. StoreJournal'
  BY <1>1 DEF ServerMoves, StoreJournal
<1>5. \A u \in DOMAIN rows : Owed(u)' => Owed(u)
  BY <1>1 DEF Owed, ServerMoves, StoreShape, ServerShape
<1>6. StoreOwes'
  <2>1. box.gen = server'.gen => \A u \in Nat : <<box.gen, u>> \in due => u < server'.next /\
           (u \in DOMAIN server'.mail => u \in DOMAIN rows)
    BY <1>1 DEF ServerMoves, StoreOwes, StoreGenerations, StoreShape, ServerShape
  <2> QED BY <1>1, <1>5, <2>1 DEF StoreOwes
<1>7. CheckpointCovered'
  BY <1>1 DEF StoreInv, CheckpointCovered, ServerMoves, StoreGenerations, StoreShape, ServerShape
<1>8. CompletedIsIndexed' /\ UnsentChangeKept'
  BY <1>1 DEF StoreInv, CompletedIsIndexed, UnsentChangeKept, ServerMoves
<1> QED BY <1>1, <1>2, <1>3, <1>4, <1>6, <1>7, <1>8 DEF StoreInv

\* What the server gets while a pass is under way is above all that the pass has listed.
LEMMA PassSeesServer == ASSUME StoreInv, PassInv, ServerMoves PROVE PassInv'
<1> /\ ServerShape /\ StoreShape /\ StoreGenerations /\ StoreAgrees /\ StoreJournal
    /\ PassShape /\ PassGenerations /\ Flow /\ Places /\ PassAgrees /\ Taking /\ InHand /\ PassJournal /\ Documented /\
          PassOwes
  BY DEF StoreInv, PassInv
<1> USE DEF UIDs
<1>1. ServerShape' /\ UNCHANGED <<box, rows, marker, journal, docs, announced, due, bypassed, pass, oper>>
  BY DEF ServerMoves, store
<1>2. server'.gen = server.gen \/ ~(box.gen = server'.gen)
  BY DEF ServerMoves, StoreGenerations, StoreShape, ServerShape
<1>3. PassShape'
  <2>1. \A m : m \in 1..server.count => m \in 1..server'.count
    BY <1>1 DEF ServerMoves, ServerShape
  <2> QED BY <1>1, <2>1 DEF PassShape, AtWork, PlanShape, FetchShape
<1>4. PassGenerations' /\ Flow' /\ Places' /\ Documented'
  BY <1>1
  DEF PassGenerations, Flow, Places, Documented, ServerMoves, StoreShape, ServerShape, PassShape, PlanShape, Plans
<1>5. PassAgrees'
  <2>1. pass.pc \in Works /\ pass.gen = server'.gen => \A i \in pass.queue : i.uid < server'.next /\
           \A v \in DOMAIN server'.mail : i.uid = v <=> i.msg = server'.mail[v]
    BY <1>1, <1>2 DEF PassAgrees, PassGenerations, PassShape, AtWork, ServerMoves, ServerShape
  <2> QED BY <1>1, <2>1 DEF PassAgrees
<1>6. Taking'
  <2> SUFFICES ASSUME pass.pc \in Works, pass.gen = server'.gen
               PROVE  /\ \A u \in DOMAIN server'.mail :
                            /\ u <= pass.pend => Taken(u)
                            /\ pass.phase = "history" => \A i \in pass.queue : u < i.uid => Taken(u) \/ Queued(u)
                            /\ pass.phase = "repair" => (u <= pass.top => Taken(u) \/ Queued(u))
                            /\ pass.phase = "prewarm" => \A v \in pass.snap : u < v => u \in pass.snap
                      /\ pass.pend < server'.next /\ pass.top < server'.next
                      /\ pass.phase = "prewarm" => \A v \in pass.snap : v < server'.next
    BY <1>1 DEF Taking, Taken, Queued
  <2>1. AtWork(pass) /\ pass.gen = server.gen /\ server.next <= server'.next
    BY <1>2 DEF PassShape, PassGenerations, ServerMoves
  <2>2. \A u \in DOMAIN server'.mail : u \in DOMAIN server.mail \/ (u \in Nat /\ u >= server.next)
    BY <1>1, <2>1 DEF ServerMoves, ServerShape
  <2>3. pass.pend \in Nat /\ pass.top \in Nat /\ server.next \in Nat /\ server'.next \in Nat /\
           pass.snap \subseteq Nat /\ \A i \in pass.queue : i.uid \in Nat
    BY <1>1, <2>1 DEF AtWork, ServerShape
  <2>4. \A u \in DOMAIN server'.mail \ DOMAIN server.mail : u > pass.pend /\ u > pass.top /\
           (\A i \in pass.queue : u > i.uid) /\ (pass.phase = "prewarm" => \A v \in pass.snap : u > v)
    BY <2>1, <2>2, <2>3 DEF Taking, PassAgrees
  <2> QED BY <2>1, <2>2, <2>3, <2>4 DEF Taking
<1>7. InHand'
  BY <1>1 DEF InHand, Taken, Head1, FetchedFirst, Stubs, Rest
<1>8. PassJournal'
  <2>1. \A m \in Left' : m \in Left
    BY <1>1 DEF Left, ServerMoves, StoreShape, ServerShape
  <2>2. pass.pc \in Works /\ pass.gen = server'.gen =>
           \A v \in DOMAIN server'.mail : server'.mail[v] \in DOMAIN journal => v \in DOMAIN server.mail /\
           server'.mail[v] = server.mail[v]
    BY <1>1, <1>2 DEF ServerMoves, StoreShape, ServerShape, PassGenerations
  <2> QED BY <1>1, <1>2, <2>1, <2>2 DEF PassJournal, PassGenerations
<1>9. PassOwes'
  <2>1. \A u \in DOMAIN rows : Owed(u)' => Owed(u)
    BY <1>1 DEF Owed, ServerMoves, StoreShape, ServerShape
  <2> QED BY <1>1, <2>1 DEF PassOwes, Queued, Head1, FetchedFirst, Stubs
<1> QED BY <1>3, <1>4, <1>5, <1>6, <1>7, <1>8, <1>9 DEF PassInv

-----------------------------------------------------------------------------
(* Read state *)

\* A step that changes no more than flags, in rows or at the server.
Flagged ==
    /\ DOMAIN server' = DOMAIN server /\ server'.gen = server.gen /\ server'.next = server.next
    /\ server'.mail = server.mail /\ server'.count = server.count
    /\ DOMAIN rows' = DOMAIN rows
    /\ \A u \in DOMAIN rows : /\ DOMAIN rows'[u] = DOMAIN rows[u] /\ rows'[u].msg = rows[u].msg /\
                                 rows'[u].gen = rows[u].gen
                              /\ rows'[u].done = rows[u].done /\ rows'[u].pend \in BOOLEAN
    /\ UNCHANGED <<box, marker, journal, docs, announced, due, bypassed, oper>>

\* Flags matter to the changes of the user alone.
LEMMA StoreIsFlagged ==
    ASSUME StoreInv, Flagged, oper = "idle" \/
       pass' = pass, DOMAIN unsent' \subseteq Range(server.mail), UnsentChangeKept'
    PROVE  StoreInv'
<1> ServerShape /\ StoreShape /\ StoreGenerations /\ StoreAgrees /\ StoreJournal /\ StoreOwes
  BY DEF StoreInv
<1>1. ServerShape' /\ StoreShape' /\ StoreGenerations'
  BY DEF Flagged, ServerShape, StoreShape, StoreGenerations, UIDs
<1>2. StoreAgrees' /\ StoreJournal'
  BY DEF Flagged, StoreAgrees, StoreJournal, UIDs
<1>3. StoreOwes'
  BY DEF Flagged, StoreOwes, Owed, UIDs
<1>4. CheckpointCovered' /\ CompletedIsIndexed'
  BY DEF StoreInv, Flagged, CheckpointCovered, CompletedIsIndexed, UIDs
<1> QED BY <1>1, <1>2, <1>3, <1>4 DEF StoreInv

\* No pass depends on flags.
LEMMA PassIsFlagged == ASSUME PassInv, Flagged, pass' = pass PROVE PassInv'
<1> PassShape /\ PassGenerations /\ Flow /\ Places /\ PassAgrees /\ Taking /\ InHand /\ PassJournal /\ Documented /\
       PassOwes
  BY DEF PassInv
<1>1. PassShape' /\ PassGenerations' /\ Flow' /\ Places' /\ Documented'
  BY DEF Flagged, PassShape, AtWork, PlanShape, FetchShape, PassGenerations, Flow, Places, Documented
<1>2. PassAgrees'
  BY DEF Flagged, PassAgrees, UIDs
<1>3. Taking'
  BY DEF Flagged, Taking, Taken, Queued, UIDs
<1>4. Head1' = Head1
  BY DEF Head1, FetchedFirst, Stubs
<1>5. InHand'
  <2>1. \A v \in DOMAIN rows : rows'[v].done = rows[v].done /\ v \in DOMAIN rows'
    BY DEF Flagged
  <2>2. pass.pc \in Works /\ pass.pc \in Inside => Head1.uid \in DOMAIN rows
    BY DEF InHand, Taken
  <2>3. DOMAIN rows' = DOMAIN rows
    BY DEF Flagged
  <2> QED BY <1>4, <2>1, <2>2, <2>3 DEF InHand, Taken, Inside
<1>6. PassJournal'
  BY DEF Flagged, PassJournal, Left, UIDs
<1>7. PassOwes'
  BY <1>4 DEF Flagged, PassOwes, Owed, Queued
<1> QED BY <1>1, <1>2, <1>3, <1>5, <1>6, <1>7 DEF PassInv

\* A read mark of the user is a change of its row.
LEMMA MarkKept == ASSUME MailInv, NEW u \in DOMAIN rows, NEW value, MarkMessageRead(u, value) PROVE MailInv'
<1> ServerShape /\ StoreShape /\ StoreJournal /\ StoreInv /\ PassInv
  BY DEF MailInv, StoreInv
<1>1. rows' = [rows EXCEPT ![u].read = value, ![u].pend = TRUE]
  BY DEF MarkMessageRead
<1>2. /\ DOMAIN rows' = DOMAIN rows
      /\ rows'[u].msg = rows[u].msg /\ rows'[u].gen = rows[u].gen /\ rows'[u].done = rows[u].done
      /\ rows'[u].read = value /\ rows'[u].pend = TRUE /\ DOMAIN rows'[u] = DOMAIN rows[u]
      /\ \A v \in DOMAIN rows : v # u => rows'[v] = rows[v]
  BY <1>1 DEF StoreShape
<1>3. Flagged /\ pass' = pass
  BY <1>2 DEF MarkMessageRead, Flagged, StoreShape
<1>4. CASE rows[u].msg \in Range(server.mail)
  <2>1. unsent' = With(unsent, rows[u].msg, value)
    BY <1>4 DEF MarkMessageRead, Range, UIDs
  <2>2. DOMAIN unsent' = DOMAIN unsent \cup {rows[u].msg} /\
           \A m \in DOMAIN unsent' : unsent'[m] = IF m = rows[u].msg THEN value ELSE unsent[m]
    BY <2>1 DEF With
  <2>3. UnsentChangeKept'
    BY <1>2, <1>3, <2>2 DEF UnsentChangeKept, StoreInv, Flagged
  <2> QED BY <1>3, <1>4, <2>2, <2>3, StoreIsFlagged, PassIsFlagged DEF MailInv, StoreJournal
<1>5. CASE rows[u].msg \notin Range(server.mail)
  <2>1. unsent' = unsent
    BY <1>5 DEF MarkMessageRead, Range, UIDs
  <2>2. UnsentChangeKept'
    BY <1>2, <1>3, <1>5, <2>1 DEF UnsentChangeKept, StoreInv, Flagged, StoreJournal
  <2> QED BY <1>3, <2>1, <2>2, StoreIsFlagged, PassIsFlagged DEF MailInv, StoreJournal
<1> QED BY <1>4, <1>5

\* The pusher clears a change only on the row it has read it from.
LEMMA PushKept == ASSUME MailInv, (\E u \in DOMAIN rows : SyncReadState(u)) \/ SetSeenWithUIDValidity \/
        ClearReadSyncPending PROVE MailInv'
<1> ServerShape /\ StoreShape /\ StoreJournal /\ StoreInv /\ PassInv
  BY DEF MailInv, StoreInv
<1>1. CASE (\E u \in DOMAIN rows : SyncReadState(u)) \/ SetSeenWithUIDValidity
  <2>1. UNCHANGED <<store, docs, ghosts, pass, oper>>
    BY <1>1 DEF SyncReadState, SetSeenWithUIDValidity
  <2>2. \/ server' = server
        \/ server' = [server EXCEPT !.seen = IF push.read THEN @ \cup {server.mail[push.uid]} ELSE @ \ {server.mail[push.uid]}]
    BY <1>1 DEF SyncReadState, SetSeenWithUIDValidity
  <2>3. Flagged /\ unsent' = unsent
    BY <2>1, <2>2 DEF Flagged, store, ghosts, StoreShape, ServerShape
  <2>4. UnsentChangeKept'
    BY <2>1 DEF UnsentChangeKept, StoreInv, store, ghosts
  <2> QED BY <2>1, <2>3, <2>4, StoreIsFlagged, PassIsFlagged DEF MailInv, StoreJournal
<1>2. CASE ClearReadSyncPending
  <2> DEFINE there == push.uid \in DOMAIN rows /\ rows[push.uid].gen = push.gen
  <2>1. CASE ~there
    <3>1. UNCHANGED <<server, store, docs, ghosts, pass, oper>>
      BY <1>2, <2>1 DEF ClearReadSyncPending, store, ghosts
    <3>2. Flagged /\ unsent' = unsent /\ UnsentChangeKept'
      BY <3>1 DEF Flagged, store, ghosts, StoreShape, UnsentChangeKept, StoreInv
    <3> QED BY <3>1, <3>2, StoreIsFlagged, PassIsFlagged DEF MailInv, StoreJournal
  <2>2. CASE there
    <3> DEFINE u == push.uid
    <3>1. rows' = [rows EXCEPT ![u].pend = FALSE] /\ unsent' = Drop(unsent, rows[u].msg) /\ u \in DOMAIN rows
      BY <1>2, <2>2 DEF ClearReadSyncPending
    <3> HIDE DEF u
    <3>2. /\ DOMAIN rows' = DOMAIN rows
          /\ rows'[u].msg = rows[u].msg /\ rows'[u].gen = rows[u].gen /\ rows'[u].done = rows[u].done
          /\ rows'[u].pend = FALSE /\ DOMAIN rows'[u] = DOMAIN rows[u]
          /\ \A v \in DOMAIN rows : v # u => rows'[v] = rows[v]
      BY <3>1 DEF StoreShape
    <3>3. Flagged /\ pass' = pass
      BY <1>2, <3>2 DEF ClearReadSyncPending, Flagged, StoreShape
    <3>4. DOMAIN unsent' = DOMAIN unsent \ {rows[u].msg} /\ \A m \in DOMAIN unsent' : unsent'[m] = unsent[m]
      BY <3>1 DEF Drop
    <3>5. UnsentChangeKept'
      BY <3>2, <3>3, <3>4 DEF UnsentChangeKept, StoreInv, Flagged
    <3> QED BY <3>3, <3>4, <3>5, StoreIsFlagged, PassIsFlagged DEF MailInv, StoreJournal
  <2> QED BY <2>1, <2>2
<1> QED BY <1>1, <1>2

-----------------------------------------------------------------------------
(* The beginning of a pass *)

\* A reset is for a newer generation of a mailbox that has one.
LEMMA NeedsNewer == ASSUME StoreInv, NEW g \in Nat \ {0}, box.gen <= g
                    PROVE  IF NeedsReset(g) THEN 0 < box.gen /\ box.gen < g
                                            ELSE box.gen = g \/ (box.gen = 0 /\ box.last = 0 /\ DOMAIN rows = {})
  BY DEF StoreInv, StoreShape, StoreGenerations, NeedsReset

\* The snapshot of a reset has the state of every row, and of every message an earlier one has saved.
LEMMA SnapshotTakesRows ==
    ASSUME StoreInv
    PROVE  /\ DOMAIN SnapshotState = {rows[u].msg : u \in DOMAIN rows} \cup DOMAIN journal
           /\ \A u \in DOMAIN rows : SnapshotState[rows[u].msg] = [read |-> rows[u].read, pend |-> rows[u].pend]
           /\ \A m \in DOMAIN journal : SnapshotState[m] = journal[m]
<1>1. DOMAIN Saved = {rows[u].msg : u \in DOMAIN rows}
  BY DEF Saved
<1>2. ASSUME NEW u \in DOMAIN rows PROVE Saved[rows[u].msg] = [read |-> rows[u].read, pend |-> rows[u].pend]
  <2> DEFINE r == CHOOSE r \in Range(rows) : r.msg = rows[u].msg
  <2>1. rows[u] \in Range(rows)
    BY DEF Range
  <2>2. r \in Range(rows) /\ r.msg = rows[u].msg
    BY <2>1
  <2>3. r = rows[u]
    BY <2>2 DEF Range, StoreInv, StoreAgrees
  <2>4. Saved[rows[u].msg] = [read |-> r.read, pend |-> r.pend]
    BY <1>1 DEF Saved
  <2> QED BY <2>3, <2>4
<1>3. \A m \in DOMAIN journal : m \notin DOMAIN Saved
  BY <1>1 DEF StoreInv, StoreJournal
<1> QED BY <1>1, <1>2, <1>3 DEF SnapshotState

\* Changes of the user move to the journal, everything else is of the old generation and goes.
LEMMA ResetKept ==
    ASSUME StoreInv, NEW g \in Nat \ {0}, NEW uidnext \in Nat \ {0}, box.gen <= g, g <= server.gen,
           ResetMailboxForRemoteGeneration(g, uidnext), UNCHANGED <<server, docs, ghosts>>,
           oper' = "idle" \/ (oper' = "purge" /\ pass' = NoPass /\ NeedsReset(g))
    PROVE  StoreInv' /\ box'.gen = g /\ (NeedsReset(g) => box'.gen > 1 /\ box'.last = 0) /\ (~NeedsReset(g) =>
       box'.last = box.last)
<1> ServerShape /\ StoreShape /\ StoreGenerations /\ StoreAgrees /\ StoreJournal /\ StoreOwes
  BY DEF StoreInv
<1>1. CASE NeedsReset(g)
  <2>1. /\ box' = [box EXCEPT !.gen = g, !.last = 0] /\ marker' = [target |-> g, floor |-> FloorOf(g, uidnext)]
        /\ journal' = SnapshotState /\ rows' = NoFunction
    BY <1>1 DEF ResetMailboxForRemoteGeneration
  <2>2. /\ DOMAIN box' = DOMAIN box /\ box'.gen = g /\ box'.last = 0 /\ DOMAIN rows' = {}
        /\ DOMAIN marker' = {"target", "floor"} /\ marker'.target = g /\ marker'.floor = FloorOf(g, uidnext)
    BY <2>1 DEF StoreShape, NoFunction
  <2>3. FloorOf(g, uidnext) \in Nat \ {0} /\ 0 < box.gen /\ box.gen < g
    BY <1>1, NeedsNewer DEF FloorOf, StoreShape
  <2>4. DOMAIN journal' \subseteq 1..server.count
    BY <2>1, SnapshotTakesRows DEF StoreShape
  <2>5. ServerShape' /\ StoreShape' /\ StoreGenerations' /\ StoreAgrees' /\ StoreJournal'
    <3>1. UNCHANGED <<server, due, unsent>>
      BY DEF ghosts
    <3>2. ServerShape' /\ StoreJournal' /\ StoreAgrees'
      BY <2>2, <3>1 DEF ServerShape, StoreJournal, StoreAgrees, UIDs
    <3>3. StoreShape'
      BY <2>2, <2>3, <2>4, <3>1 DEF StoreShape
    <3>4. StoreGenerations'
      BY <2>2, <2>3, <3>1 DEF StoreGenerations, StoreShape, ServerShape
    <3> QED BY <3>2, <3>3, <3>4
  <2>6. StoreOwes' /\ CheckpointCovered' /\ CompletedIsIndexed'
    BY <2>2, <2>3
    DEF ghosts, StoreOwes, CheckpointCovered, CompletedIsIndexed, StoreGenerations, StoreShape, ServerShape, UIDs
  <2>7. UnsentChangeKept'
    <3> SUFFICES ASSUME NEW m \in DOMAIN unsent
                 PROVE  m \in DOMAIN journal' /\ journal'[m] = [read |-> unsent[m], pend |-> TRUE]
      BY DEF UnsentChangeKept, ghosts
    <3>1. CASE \E u \in DOMAIN rows : rows[u].msg = m /\ rows[u].pend /\ rows[u].read = unsent[m]
      <4>1. PICK u \in DOMAIN rows : rows[u].msg = m /\ rows[u].pend /\ rows[u].read = unsent[m]
        BY <3>1
      <4>2. rows[u].pend = TRUE
        BY <4>1 DEF StoreShape
      <4> QED BY <2>1, <4>1, <4>2, SnapshotTakesRows
    <3>2. CASE m \in DOMAIN journal /\ journal[m] = [read |-> unsent[m], pend |-> TRUE]
      BY <2>1, <3>2, SnapshotTakesRows
    <3> QED BY <3>1, <3>2 DEF StoreInv, UnsentChangeKept
  <2>8. box'.gen > 1 /\ box'.last = 0
    BY <2>2, <2>3 DEF StoreShape
  <2>9. StoreInv'
    BY <2>5, <2>6, <2>7 DEF StoreInv
  <2> QED BY <1>1, <2>2, <2>8, <2>9
<1>2. CASE ~NeedsReset(g)
  <2>1. box' = [box EXCEPT !.gen = g] /\ UNCHANGED <<rows, marker, journal>>
    BY <1>2 DEF ResetMailboxForRemoteGeneration
  <2>2. DOMAIN box' = DOMAIN box /\ box'.gen = g /\ box'.last = box.last
    BY <2>1 DEF StoreShape
  <2>3. box.gen = g \/ (box.gen = 0 /\ box.last = 0 /\ DOMAIN rows = {})
    BY <1>2, NeedsNewer
  <2>4. ServerShape' /\ StoreShape' /\ StoreGenerations' /\ StoreAgrees' /\ StoreJournal'
    BY <1>2, <2>1, <2>2, <2>3 DEF ghosts, ServerShape, StoreShape, StoreGenerations, StoreAgrees, StoreJournal, UIDs
  <2>5. StoreOwes'
    BY <2>1, <2>2, <2>3 DEF ghosts, StoreOwes, Owed, StoreGenerations, StoreShape, ServerShape, UIDs
  <2>6. CheckpointCovered' /\ CompletedIsIndexed' /\ UnsentChangeKept'
    BY <2>1, <2>2, <2>3
    DEF ghosts, StoreInv, CheckpointCovered, CompletedIsIndexed, UnsentChangeKept, StoreShape, ServerShape, UIDs
  <2> QED BY <1>2, <2>2, <2>4, <2>5, <2>6 DEF StoreInv
<1> QED BY <1>1, <1>2

\* A pass takes the checkpoint along, or begins at zero after a reset.
LEMMA PlanningKept ==
    ASSUME MailInv,
           PlanMailboxes \/ ResetMailboxGeneration \/ PurgeMailbox \/
              (\E kind \in {"ordinary", "recovery"}, requested \in BOOLEAN : StartPass(kind, requested))
    PROVE  MailInv'
<1> /\ StoreInv /\ PassInv /\ ServerShape /\ StoreShape /\ StoreGenerations /\ PassShape /\ PassGenerations /\ Places
  BY DEF MailInv, StoreInv, PassInv
<1>1. ASSUME NEW kind, NEW requested, StartPass(kind, requested) PROVE MailInv'
  <2>1. StoreKeeps
    BY <1>1 DEF StartPass, StoreKeeps, store, ghosts
  <2>2. pass' = [pc |-> "status", kind |-> kind, requested |-> requested, start |-> box.last] /\ box' = box
    BY <1>1 DEF StartPass, store
  <2>3. PassInv'
    BY <2>2 DEF PassInv, Plans, Fetches, Ends, Works, Inside, PassShape, PassGenerations, Flow, Places, PassAgrees,
        Taking, InHand,
                PassJournal, Documented, PassOwes
  <2> QED BY <2>1, <2>3, StoreStays DEF MailInv
<1>2. CASE PlanMailboxes
  <2>1. UNCHANGED <<server, store, docs, ghosts, oper>> /\ pass.pc = "status"
    BY <1>2 DEF PlanMailboxes
  <2>2. oper = "idle"
    BY <2>1 DEF StoreGenerations, NoPass
  <2>3. /\ pass'.pc = "reset" /\ pass'.start = pass.start /\ pass'.gen = server.gen /\ pass'.next = server.next
        /\ PlanShape(pass')
    BY <1>2 DEF PlanMailboxes, PlanShape, ServerShape
  <2>4. pass.start = box.last
    BY <2>1 DEF Places
  <2>5. PassInv'
    BY <2>1, <2>3, <2>4 DEF store, PassInv, Plans, Fetches, Ends, Works, Inside, PassShape, PassGenerations, Flow,
        Places, PassAgrees, Taking, InHand,
                PassJournal, Documented, PassOwes, StoreGenerations, StoreShape, ServerShape
  <2> QED BY <2>1, <2>2, <2>5, StoreStays DEF MailInv, StoreKeeps, store, ghosts
<1>3. CASE ResetMailboxGeneration
  <2>1. /\ pass.pc = "reset" /\ ResetMailboxForRemoteGeneration(pass.gen, pass.next) /\
              UNCHANGED <<server, docs, ghosts, oper>>
    BY <1>3 DEF ResetMailboxGeneration
  <2>2. PlanShape(pass) /\ box.gen <= pass.gen /\ pass.gen <= server.gen /\ pass.start = box.last
    BY <2>1 DEF PassShape, PassGenerations, Places, Plans
  <2>3. oper = "idle"
    BY <2>1 DEF StoreGenerations, NoPass
  <2>4. /\ StoreInv' /\ box'.gen = pass.gen /\ (NeedsReset(pass.gen) => box'.gen > 1 /\ box'.last = 0)
        /\ (~NeedsReset(pass.gen) => box'.last = box.last)
    BY <2>1, <2>2, <2>3, ResetKept DEF PlanShape
  <2>5. /\ PlanShape(pass') /\ pass'.gen = pass.gen /\ pass'.start = box'.last
        /\ pass'.pc = IF NeedsReset(pass.gen) THEN "purge" ELSE "pending"
    <3>1. CASE NeedsReset(pass.gen)
      <4>1. pass' = [pass EXCEPT !.pc = "purge", !.start = 0]
        BY <1>3, <3>1 DEF ResetMailboxGeneration
      <4> QED BY <2>2, <2>4, <3>1, <4>1 DEF PlanShape
    <3>2. CASE ~NeedsReset(pass.gen)
      <4>1. pass' = [pass EXCEPT !.pc = "pending"]
        BY <1>3, <3>2 DEF ResetMailboxGeneration
      <4> QED BY <2>2, <2>4, <3>2, <4>1 DEF PlanShape
    <3> QED BY <3>1, <3>2
  <2>6. pass'.pc \in {"purge", "pending"} /\ (pass'.pc = "purge" => box'.gen > 1) /\ server' = server
    BY <2>1, <2>4, <2>5
  <2>7. PassInv'
    BY <2>2, <2>4, <2>5, <2>6 DEF PassInv, Plans, Fetches, Ends, Works, Inside, PassShape, PassGenerations, Flow,
        Places, PassAgrees, Taking, InHand,
                PassJournal, Documented, PassOwes, PlanShape, StoreShape
  <2> QED BY <2>4, <2>7 DEF MailInv
<1>4. CASE PurgeMailbox
  <2>1. /\ pass.pc = "purge" /\ docs' = {} /\ pass' = [pass EXCEPT !.pc = "pending"] /\
              UNCHANGED <<server, store, ghosts, oper>>
    BY <1>4 DEF PurgeMailbox
  <2>2. PlanShape(pass) /\ pass.gen = box.gen /\ pass.start = box.last /\ box.gen > 1 /\ pass.gen <= server.gen
    BY <2>1 DEF PassShape, PassGenerations, Places, Plans
  <2>3. PlanShape(pass') /\ pass'.pc = "pending" /\ pass'.gen = pass.gen /\ pass'.start = pass.start
    BY <2>1, <2>2 DEF PlanShape
  <2>4. oper = "idle"
    BY <2>1 DEF StoreGenerations, NoPass
  <2>5. CompletedIsIndexed'
    BY <2>1, <2>2 DEF CompletedIsIndexed, store, ghosts, StoreShape
  <2>6. StoreInv'
    BY <2>1, <2>4, <2>5
    DEF store, ghosts, StoreInv, ServerShape, StoreShape, StoreGenerations, StoreAgrees, StoreJournal, StoreOwes,
        Owed,
         CheckpointCovered, UnsentChangeKept, UIDs
  <2>7. PassInv'
    BY <2>1, <2>2, <2>3 DEF store, PassInv, Plans, Fetches, Ends, Works, Inside, PassShape, PassGenerations, Flow,
        Places, PassAgrees, Taking, InHand,
                PassJournal, Documented, PassOwes, StoreShape
  <2> QED BY <2>6, <2>7 DEF MailInv
<1> QED BY <1>1, <1>2, <1>3, <1>4

\* With no pass under way a copy may reset the mailbox.
LEMMA OperationKept == ASSUME MailInv, OperationResets \/ OperationPurges PROVE MailInv'
<1> /\ StoreInv /\ PassInv /\ ServerShape /\ StoreShape /\ StoreGenerations
  BY DEF MailInv, StoreInv
<1>1. CASE OperationResets
  <2>1. /\ pass = NoPass /\ pass' = NoPass /\ NeedsReset(server.gen) /\ oper' = "purge"
        /\ ResetMailboxForRemoteGeneration(server.gen, server.next) /\ UNCHANGED <<server, docs, ghosts>>
    BY <1>1 DEF OperationResets
  <2>2. StoreInv'
    BY <2>1, ResetKept DEF ServerShape, StoreGenerations
  <2> QED BY <2>1, <2>2, NobodyWorks DEF MailInv
<1>2. CASE OperationPurges
  <2>1. pass = NoPass /\ box.gen > 1 /\ docs' = {} /\ oper' = "idle" /\ UNCHANGED <<server, store, ghosts, pass>>
    BY <1>2 DEF OperationPurges, StoreGenerations
  <2>2. CompletedIsIndexed'
    BY <2>1 DEF CompletedIsIndexed, store, ghosts, StoreShape
  <2>3. StoreInv'
    BY <2>1, <2>2
    DEF store, ghosts, StoreInv, ServerShape, StoreShape, StoreGenerations, StoreAgrees, StoreJournal, StoreOwes,
        Owed,
         CheckpointCovered, UnsentChangeKept, UIDs
  <2> QED BY <2>1, <2>3, NobodyWorks DEF MailInv
<1> QED BY <1>1, <1>2

\* What is stored when a pass stops is all a later one needs.
LEMMA StopKept == ASSUME MailInv, Stop PROVE MailInv'
<1>1. StoreKeeps /\ pass' = NoPass
  BY DEF Stop, StoreKeeps, store, ghosts
<1> QED BY <1>1, StoreStays, NobodyWorks DEF MailInv

\* What a pass is once it has looked at the marker.
LEMMA Fetching ==
    ASSUME StoreInv, pass'.pc \in Fetches, pass'.gen = box'.gen, box'.gen \in Nat \ {0}, pass'.start = box'.last,
       pass'.rebuild \in BOOLEAN,
           {"pc", "gen", "start", "wasEmpty", "floor", "rebuild"} \subseteq DOMAIN pass',
           pass'.rebuild <=> marker'.target = pass'.gen, pass'.rebuild => pass'.floor = marker'.floor,
           pass'.pc \in {"replay", "snapshot"} <=> pass'.rebuild,
           pass'.pc = "snapshot" => \A u \in DOMAIN rows' : ~Owed(u)'
    PROVE  PassInv'
<1>1. pass'.pc \notin Works \cup Ends \cup Plans \cup {"status", "none", "purge", "pending"} /\ pass'.pc \in Fetches
  BY DEF Fetches, Works, Ends, Plans
<1>2. PassShape' /\ PassGenerations' /\ Flow' /\ Places'
  BY <1>1 DEF PassShape, FetchShape, PassGenerations, Flow, Places, Fetches
<1>3. PassAgrees' /\ Taking' /\ InHand' /\ PassJournal' /\ Documented' /\ PassOwes'
  BY <1>1 DEF PassAgrees, Taking, InHand, PassJournal, Documented, PassOwes
<1> QED BY <1>2, <1>3 DEF PassInv

\* The marker decides whether the pass rebuilds.
LEMMA PendingKept == ASSUME MailInv, CheckRebuildPending PROVE MailInv'
<1> /\ StoreInv /\ PassInv /\ ServerShape /\ StoreShape /\ StoreGenerations /\ PassShape /\ PassGenerations /\ Places
  BY DEF MailInv, StoreInv, PassInv
<1>1. pass.pc = "pending" /\ UNCHANGED <<server, rows, marker, journal, docs, ghosts, oper>>
  BY DEF CheckRebuildPending
<1>2. PlanShape(pass) /\ pass.gen = box.gen /\ pass.start = box.last /\ oper = "idle" /\ pass.gen \in Nat \ {0}
  BY <1>1 DEF PassShape, PassGenerations, Places, Plans, StoreGenerations, NoPass, PlanShape
<1>3. box' = [box EXCEPT !.empty = EmptyStatus]
  BY <1>1, <1>2 DEF CheckRebuildPending
<1>4. DOMAIN box' = DOMAIN box /\ box'.gen = box.gen /\ box'.last = box.last
  BY <1>3 DEF StoreShape
<1>5. StoreInv'
  BY <1>1, <1>2, <1>4, StoreStays DEF StoreKeeps, ghosts
<1>6. \/ pass' = NoPass
      \/ marker.target = pass.gen /\ pass' = Planned("replay", pass.start, marker.floor, TRUE)
      \/ marker.target # pass.gen /\ pass' = PlannedRepair
      \/ marker.target # pass.gen /\ pass' = Planned("fetch", pass.start, 0, FALSE)
  BY <1>1, <1>2 DEF CheckRebuildPending
<1>7. CASE marker.target = pass.gen /\ pass' = Planned("replay", pass.start, marker.floor, TRUE)
  <2>1. /\ DOMAIN pass' = {"pc", "gen", "start", "wasEmpty", "floor", "rebuild"} /\ pass'.pc = "replay"
        /\ pass'.gen = pass.gen /\ pass'.start = pass.start /\ pass'.floor = marker.floor /\ pass'.rebuild = TRUE
    BY <1>7 DEF Planned
  <2> QED BY <1>1, <1>2, <1>4, <1>5, <1>7, <2>1, Fetching DEF MailInv, Fetches
<1>8. CASE marker.target # pass.gen /\ (pass' = PlannedRepair \/ pass' = Planned("fetch", pass.start, 0, FALSE))
  <2>1. /\ {"pc", "gen", "start", "wasEmpty", "floor", "rebuild"} \subseteq DOMAIN pass' /\
              pass'.pc \in {"repair", "fetch"}
        /\ pass'.gen = pass.gen /\ pass'.start = pass.start /\ pass'.rebuild = FALSE
    BY <1>8 DEF Planned, PlannedRepair
  <2> QED BY <1>1, <1>2, <1>4, <1>5, <1>8, <2>1, Fetching DEF MailInv, Fetches
<1> QED BY <1>5, <1>6, <1>7, <1>8, NobodyWorks DEF MailInv

\* The replay of a rebuild announces every stored row above the floor.
LEMMA StoredReplayKept == ASSUME MailInv, ReplayStoredArrivals PROVE MailInv'
<1> /\ StoreInv /\ PassInv /\ ServerShape /\ StoreShape /\ StoreGenerations /\ PassShape /\ PassGenerations /\
          Places /\ Flow /\ StoreOwes
  BY DEF MailInv, StoreInv, PassInv
<1>1. /\ pass.pc = "replay" /\ pass' = [pass EXCEPT !.pc = "snapshot"] /\
            UNCHANGED <<server, store, docs, due, bypassed, unsent, oper>>
      /\ announced' = announced \cup {rows[u].msg : u \in {v \in DOMAIN rows : rows[v].gen = pass.gen /\ v >= pass.floor}}
  BY DEF ReplayStoredArrivals
<1>2. /\ {"pc", "gen", "start", "wasEmpty", "floor", "rebuild"} \subseteq DOMAIN pass /\ FetchShape(pass)
      /\ pass.gen = box.gen /\ pass.start = box.last /\ pass.rebuild /\ pass.floor = marker.floor /\
            marker.target = pass.gen
      /\ oper = "idle"
  BY <1>1 DEF PassShape, PassGenerations, Places, Flow, Fetches, StoreGenerations, NoPass, FetchShape
<1>3. /\ DOMAIN pass' = DOMAIN pass /\ pass'.pc = "snapshot" /\ pass'.gen = pass.gen /\ pass'.start = pass.start
      /\ pass'.floor = pass.floor /\ pass'.rebuild = pass.rebuild
  BY <1>1, <1>2
<1>4. StoreInv'
  BY <1>1, <1>2, StoreStays DEF StoreKeeps, store
<1>5. \A u \in DOMAIN rows' : ~Owed(u)'
  BY <1>1, <1>2 DEF Owed, StoreOwes, StoreShape, StoreGenerations, FetchShape, store
<1>6. PassInv'
  BY <1>1, <1>2, <1>3, <1>5, Fetching DEF Fetches, FetchShape, store
<1> QED BY <1>4, <1>6 DEF MailInv

-----------------------------------------------------------------------------
(* What a pass fetches *)

\* Items are of the UIDs that were asked for.
LEMMA ItemsOf ==
    ASSUME StoreInv, NEW S, S \subseteq UIDs(server)
    PROVE  /\ \A i \in Items(S) : i.uid \in S /\ i.msg = server.mail[i.uid]
           /\ \A u \in S : \E i \in Items(S) : i.uid = u /\ i.msg = server.mail[u]
           /\ \A i, j \in Items(S) : i.uid = j.uid \/ i.msg = j.msg => i = j
<1>1. \A u \in S : Item(u).uid = u /\ Item(u).msg = server.mail[u]
  BY DEF Item
<1>2. \A i \in Items(S) : \E u \in S : i = Item(u)
  BY DEF Items
<1>3. \A u \in S : Item(u) \in Items(S)
  BY DEF Items
<1>4. \A i \in Items(S) : i.uid \in S /\ i.msg = server.mail[i.uid] /\ i = Item(i.uid)
  BY <1>1, <1>2
<1>5. \A u, v \in S : server.mail[u] = server.mail[v] => u = v
  BY DEF StoreInv, StoreAgrees
<1> QED BY <1>1, <1>3, <1>4, <1>5

\* Items that have just been fetched agree with what is stored.
LEMMA FetchedAgree ==
    ASSUME StoreInv, box.gen = server.gen, NEW S, S \subseteq UIDs(server), pass'.queue = Items(S), pass'.gen = box.gen,
           UNCHANGED <<server, rows, due>>, box'.gen = box.gen
    PROVE  /\ PassAgrees'
           /\ \A i \in pass'.queue : i.uid \in Nat \ {0} /\ i.msg \in 1..server'.count /\ i.uid \in S
           /\ \A i \in pass'.queue : <<box'.gen, i.uid>> \in due' => i.uid \in DOMAIN rows'
           /\ \A u \in S : Queued(u)'
<1>1. /\ ServerShape /\ StoreAgrees /\ StoreOwes /\ StoreShape
      /\ \A u \in S : u \in Nat \ {0} /\ server.mail[u] \in 1..server.count /\ u < server.next
  BY DEF StoreInv, ServerShape
<1>2. /\ \A i \in pass'.queue : i.uid \in S /\ i.msg = server.mail[i.uid]
      /\ \A u \in S : \E i \in pass'.queue : i.uid = u /\ i.msg = server.mail[u]
      /\ \A i, j \in pass'.queue : i.uid = j.uid \/ i.msg = j.msg => i = j
  BY ItemsOf
<1>3. PassAgrees'
  <2>1. \A i \in pass'.queue, u \in DOMAIN rows : i.uid = u <=> i.msg = rows[u].msg
    BY <1>1, <1>2 DEF StoreAgrees
  <2>2. \A i \in pass'.queue : i.uid < server.next /\ \A v \in UIDs(server) : i.uid = v <=> i.msg = server.mail[v]
    BY <1>1, <1>2 DEF StoreAgrees
  <2> QED BY <1>2, <2>1, <2>2 DEF PassAgrees
<1>4. \A i \in pass'.queue : <<box'.gen, i.uid>> \in due' => i.uid \in DOMAIN rows'
  BY <1>1, <1>2 DEF StoreOwes
<1> QED BY <1>1, <1>2, <1>3, <1>4 DEF Queued

\* A message of which nobody was told yet is on the server under the UID of its row.
LEMMA OwedIsListed == ASSUME StoreInv, box.gen = server.gen, NEW u \in DOMAIN rows, Owed(u) PROVE u \in UIDs(server)
  BY DEF StoreInv, Owed, StoreAgrees, Range, UIDs

\* The first fetch of a pass.
LEMMA WorkBegins ==
    ASSUME StoreInv, box.gen = server.gen, NEW phase, NEW S, S \subseteq UIDs(server), NEW snap,
       NEW top \in 0..(server.next - 1),
           FetchShape(pass), pass.gen = box.gen, pass.start = box.last, pass.rebuild <=> marker.target = pass.gen,
           pass.rebuild => pass.floor = marker.floor,
           pass' = Working(phase, S, snap, top), UNCHANGED <<server, store, docs, announced, due, unsent>>,
              bypassed \subseteq bypassed',
           \A u \in S : u > box.last,
           \/ /\ phase = "prewarm" /\ pass.rebuild /\ snap = UIDs(server)
              /\ \A u \in DOMAIN rows : ~Owed(u)
           \/ phase = "history" /\ ~pass.rebuild /\ snap = {} /\ S = {u \in UIDs(server) : u > box.last}
           \/ phase = "repair" /\ ~pass.rebuild /\ snap = {} /\ \A u \in UIDs(server) : u \in S \/
                 (u \in DOMAIN rows /\ rows[u].done)
    PROVE  PassInv'
<1> /\ ServerShape /\ StoreShape /\ StoreGenerations /\ StoreAgrees /\ StoreOwes
  BY DEF StoreInv
<1>1. /\ DOMAIN pass' = {"pc", "gen", "start", "wasEmpty", "floor", "rebuild", "phase", "queue", "bad", "cur", "batch",
            "compl",
                         "pend", "whole", "final", "snap", "top"}
      /\ pass'.pc = "item" /\ pass'.gen = pass.gen /\ pass'.start = box.last /\ pass'.floor = pass.floor /\
            pass'.rebuild = pass.rebuild
      /\ pass'.phase = phase /\ pass'.queue = Items(S) /\ pass'.cur = box.last /\ pass'.batch = {} /\ pass'.compl = {}
      /\ pass'.pend = 0 /\ pass'.whole = FALSE /\ pass'.final = TRUE /\ pass'.snap = snap /\ pass'.top = top
  BY DEF Working
<1>2. UNCHANGED <<box, rows, marker, journal>> /\ box.last \in Nat /\ top \in Nat /\ top < server.next
  BY DEF store, StoreShape, ServerShape
<1>3. /\ PassAgrees'
      /\ \A i \in pass'.queue : i.uid \in Nat \ {0} /\ i.msg \in 1..server'.count /\ i.uid \in S
      /\ \A i \in pass'.queue : <<box'.gen, i.uid>> \in due' => i.uid \in DOMAIN rows'
      /\ \A u \in S : Queued(u)'
  BY <1>1, <1>2, FetchedAgree
<1>4. snap \subseteq Nat /\ IsFiniteSet(snap) /\ \A v \in snap : v < server.next
  <2>1. snap \in {{}, UIDs(server)}
    OBVIOUS
  <2>2. UIDs(server) \subseteq Nat /\ \A v \in UIDs(server) : v < server.next
    BY DEF ServerShape
  <2>3. IsFiniteSet(snap)
    BY <2>1, ListedIsFinite, FS_EmptySet
  <2> QED BY <2>1, <2>2, <2>3
<1>5. pass'.pc \in Works /\ pass'.pc \notin {"none", "status"} \cup Plans \cup Fetches \cup Ends \cup Inside
  BY <1>1 DEF Works, Plans, Fetches, Ends, Inside
<1>6. PassShape'
  <2>1. phase \in {"prewarm", "repair", "history", "refresh"} /\ FetchShape(pass')
    BY <1>1 DEF FetchShape
  <2>2. {pass'.cur, pass'.pend, pass'.top, pass'.start} \subseteq Nat
    BY <1>1, <1>2
  <2>2a. pass'.whole \in BOOLEAN /\ pass'.final \in BOOLEAN
    BY <1>1
  <2>3. AtWork(pass)'
    BY <1>1, <1>3, <1>4, <2>1, <2>2, <2>2a DEF AtWork
  <2> QED BY <1>5, <2>3 DEF PassShape
<1>7. PassGenerations' /\ Flow' /\ Documented' /\ InHand'
  BY <1>1, <1>2, <1>5 DEF PassGenerations, Flow, Documented, InHand
<1>8. Places'
  BY <1>1, <1>2, <1>3, <1>5 DEF Places
<1>9. Taking'
  <2>1. \A u \in UIDs(server) : u \in Nat /\ u > 0
    BY DEF ServerShape
  <2>2. phase = "history" => \A u \in UIDs(server) : u \in S \/ (u \in DOMAIN rows /\ rows[u].done)
    BY <1>2, <2>1 DEF StoreInv, CheckpointCovered
  <2>3. pass'.pend = 0 /\ pass'.top = top /\ pass'.phase = phase /\ server' = server /\ rows' = rows /\ pass'.snap = snap
    BY <1>1, <1>2
  <2>4. \A u \in UIDs(server) :
           /\ ~(u <= pass'.pend)
           /\ phase = "history" => Taken(u)' \/ Queued(u)'
           /\ phase = "repair" => Taken(u)' \/ Queued(u)'
           /\ phase = "prewarm" => u \in snap
    BY <1>3, <2>1, <2>2, <2>3 DEF Taken
  <2>5. 0 < server.next
    BY DEF ServerShape
  <2> QED BY <1>2, <1>4, <2>3, <2>4, <2>5 DEF Taking, UIDs
<1>10. PassJournal'
  BY <1>1, <1>2, <1>5 DEF PassJournal, UIDs
<1>11. PassOwes'
  <2>1. \A u \in DOMAIN rows' : Owed(u)' => Owed(u) /\ u \in DOMAIN rows /\ u \in Nat /\ u > 0
    BY <1>2 DEF Owed, StoreShape
  <2>2. \A u \in DOMAIN rows : Owed(u) => u \in UIDs(server) /\ u > box.last /\ (~pass.rebuild => box.last > 0)
    BY OwedIsListed DEF StoreOwes, StoreGenerations
  <2> QED BY <1>1, <1>3, <1>5, <2>1, <2>2 DEF PassOwes
<1> QED BY <1>3, <1>6, <1>7, <1>8, <1>9, <1>10, <1>11 DEF PassInv

\* What is not imported is above the checkpoint.
LEMMA ImportedBelow == ASSUME StoreInv, box.gen = server.gen
                       PROVE  \A u \in UIDs(server) \ Imported : u > box.last /\ u \in Nat
<1>1. \A u \in UIDs(server) : u \in Nat /\ (u <= box.last => u \in Imported)
  BY DEF StoreInv, CheckpointCovered, Imported, ServerShape
<1> QED BY <1>1 DEF StoreInv, StoreShape

\* An ordinary pass asks for all above the checkpoint, a rebuild for a preview.
LEMMA FetchingKept == ASSUME MailInv, SnapshotAndNewestPage \/ FetchMailbox PROVE MailInv'
<1> /\ StoreInv /\ PassInv /\ ServerShape /\ StoreShape /\ StoreGenerations /\ PassShape /\ PassGenerations /\
          Places /\ Flow /\ PassOwes
  BY DEF MailInv, StoreInv, PassInv
<1>1. pass.pc \in {"snapshot", "fetch"} /\ UNCHANGED <<server, store, docs, ghosts, oper>>
  BY DEF SnapshotAndNewestPage, FetchMailbox
<1>2. /\ FetchShape(pass) /\ pass.gen = box.gen /\ pass.start = box.last /\ oper = "idle"
      /\ pass.rebuild <=> marker.target = pass.gen
      /\ pass.rebuild => pass.floor = marker.floor
  BY <1>1 DEF PassShape, PassGenerations, Places, Fetches, StoreGenerations, NoPass
<1>3. StoreInv'
  BY <1>1, <1>2, StoreStays DEF StoreKeeps, store, ghosts
<1>4. CASE pass' = NoPass
  BY <1>3, <1>4, NobodyWorks DEF MailInv
<1>5. CASE SnapshotAndNewestPage /\ pass' # NoPass
  <2>1. PICK fetched \in BOOLEAN : server.gen = pass.gen /\
           pass' = Working("prewarm", IF fetched THEN Newest(UIDs(server)) \ Imported ELSE {}, UIDs(server), 0)
    BY <1>5 DEF SnapshotAndNewestPage
  <2> DEFINE S == IF fetched THEN Newest(UIDs(server)) \ Imported ELSE {}
  <2>2. S \subseteq UIDs(server) \ Imported
    BY DEF Newest
  <2>3. \A u \in S : u > box.last
    BY <1>2, <2>1, <2>2, ImportedBelow
  <2>4. pass.rebuild /\ \A u \in DOMAIN rows : ~Owed(u)
    BY <1>5 DEF SnapshotAndNewestPage, Flow, PassOwes
  <2>5. 0 \in 0..(server.next - 1)
    BY DEF ServerShape
  <2>6. pass' = Working("prewarm", S, UIDs(server), 0) /\ S \subseteq UIDs(server)
    BY <2>1, <2>2
  <2> HIDE DEF S
  <2>7. PassInv'
    BY <1>1, <1>2, <2>1, <2>3, <2>4, <2>5, <2>6, WorkBegins DEF ghosts
  <2> QED BY <1>3, <2>7 DEF MailInv
<1>6. CASE FetchMailbox /\ pass' # NoPass
  <2>1. server.gen = pass.gen /\ pass' = Working("history", {u \in UIDs(server) : u > pass.start}, {}, 0) /\
           pass.pc = "fetch"
    BY <1>6 DEF FetchMailbox
  <2>2. ~pass.rebuild /\ 0 \in 0..(server.next - 1)
    BY <2>1 DEF Flow, ServerShape
  <2> DEFINE S == {u \in UIDs(server) : u > box.last}
  <2>3. S \subseteq UIDs(server) /\ pass' = Working("history", S, {}, 0) /\ \A u \in S : u > box.last
    BY <1>2, <2>1
  <2>4. S = {u \in UIDs(server) : u > box.last}
    OBVIOUS
  <2> HIDE DEF S
  <2>5. PassInv'
    BY <1>1, <1>2, <2>1, <2>2, <2>3, <2>4, WorkBegins DEF ghosts
  <2> QED BY <1>3, <2>5 DEF MailInv
<1> QED BY <1>4, <1>5, <1>6

\* A sparse repair asks for all that is missing, and bypasses what it has when nothing is.
LEMMA RepairKept == ASSUME MailInv, RepairIncompleteMailbox PROVE MailInv'
<1> /\ StoreInv /\ PassInv /\ ServerShape /\ StoreShape /\ StoreGenerations /\ PassShape /\ PassGenerations /\
          Places /\ Flow /\ PassOwes /\ StoreOwes
  BY DEF MailInv, StoreInv, PassInv
<1> DEFINE missing == UIDs(server) \ Imported
           top == Top(UIDs(server))
<1>1. pass.pc = "repair" /\ UNCHANGED <<server, rows, marker, journal, docs, announced, due, unsent, oper>>
  BY DEF RepairIncompleteMailbox
<1>2. /\ FetchShape(pass) /\ pass.gen = box.gen /\ pass.start = box.last /\ oper = "idle"
      /\ pass.rebuild <=> marker.target = pass.gen
      /\ ~pass.rebuild
  BY <1>1 DEF PassShape, PassGenerations, Places, Flow, Fetches, StoreGenerations, NoPass
<1>3. top \in 0..(server.next - 1) /\ top \in Nat /\ top < server.next /\ \A u \in UIDs(server) : u <= top /\ u \in Nat
  BY TopIsLargest DEF ServerShape
<1> HIDE DEF top, missing
<1>4. \/ pass' = GoOn("fetch", pass.start) /\ UNCHANGED <<box, bypassed>>
      \/ pass' = NoPass /\ UNCHANGED <<box, bypassed>>
      \/ /\ server.gen = pass.gen /\ missing = {} /\ box' = [box EXCEPT !.last = Max({@, top})]
         /\ bypassed' = bypassed \cup Range(server.mail) /\ pass' = GoOn("fetch", Max({pass.start, top}))
      \/ server.gen = pass.gen /\ pass' = Working("repair", missing, {}, top) /\ UNCHANGED <<box, bypassed>>
  BY DEF RepairIncompleteMailbox, missing, top
<1>5. ASSUME UNCHANGED <<box, bypassed>> PROVE StoreInv'
  BY <1>1, <1>2, <1>5, StoreStays DEF StoreKeeps
<1>6. CASE pass' = GoOn("fetch", pass.start) /\ UNCHANGED <<box, bypassed>>
  <2>1. /\ DOMAIN pass' = {"pc", "gen", "start", "wasEmpty", "floor", "rebuild"} /\ pass'.pc = "fetch"
        /\ pass'.gen = pass.gen /\ pass'.start = pass.start /\ pass'.floor = pass.floor /\ pass'.rebuild = pass.rebuild
    BY <1>6 DEF GoOn, Planned
  <2>2. PassInv'
    BY <1>1, <1>2, <1>6, <2>1, Fetching DEF Fetches, FetchShape
  <2> QED BY <1>5, <1>6, <2>2 DEF MailInv
<1>7. CASE pass' = NoPass /\ UNCHANGED <<box, bypassed>>
  BY <1>5, <1>7, NobodyWorks DEF MailInv
<1>8. CASE /\ server.gen = pass.gen /\ missing = {} /\ box' = [box EXCEPT !.last = Max({@, top})]
           /\ bypassed' = bypassed \cup Range(server.mail) /\ pass' = GoOn("fetch", Max({pass.start, top}))
  <2>1. /\ Max({box.last, top}) \in {box.last, top} /\ box.last <= Max({box.last, top})
    BY <1>3, LargerOfTwo DEF StoreShape
  <2>2. /\ DOMAIN box' = DOMAIN box /\ box'.gen = box.gen /\ box'.last = Max({box.last, top})
    BY <1>8 DEF StoreShape
  <2>3. /\ DOMAIN pass' = {"pc", "gen", "start", "wasEmpty", "floor", "rebuild"} /\ pass'.pc = "fetch"
        /\ pass'.gen = pass.gen /\ pass'.start = box'.last /\ pass'.floor = pass.floor /\ pass'.rebuild = pass.rebuild
    BY <1>2, <1>8, <2>2 DEF GoOn, Planned
  <2>4. PassInv'
    BY <1>1, <1>2, <2>2, <2>3, Fetching DEF Fetches, FetchShape
  <2>5. \A u \in UIDs(server) : u \in DOMAIN rows /\ rows[u].done
    BY <1>8 DEF missing, Imported
  <2>6. CheckpointCovered'
    BY <1>1, <1>2, <1>8, <2>5 DEF StoreInv, StoreAgrees, CheckpointCovered, UIDs
  <2>7. \A u \in DOMAIN rows : ~Owed(u)'
    BY <1>1, <1>8 DEF Owed
  <2>8. box.gen <= server.gen /\ box'.last \in Nat /\ (box.gen = server.gen => box'.last < server.next)
    BY <1>3, <2>1, <2>2 DEF StoreGenerations, StoreShape
  <2>9. ServerShape' /\ StoreShape' /\ StoreGenerations' /\ StoreAgrees' /\ StoreJournal'
    BY <1>1, <1>2, <2>2, <2>8
    DEF StoreInv, ServerShape, StoreShape, StoreGenerations, StoreAgrees, StoreJournal, UIDs, FetchShape
  <2>10. StoreOwes'
    BY <1>1, <2>2, <2>7 DEF StoreOwes, UIDs
  <2>11. CompletedIsIndexed' /\ UnsentChangeKept'
    BY <1>1, <2>2 DEF StoreInv, CompletedIsIndexed, UnsentChangeKept
  <2> QED BY <2>4, <2>6, <2>9, <2>10, <2>11 DEF MailInv, StoreInv
<1>9. CASE server.gen = pass.gen /\ pass' = Working("repair", missing, {}, top) /\ UNCHANGED <<box, bypassed>>
  <2>1. missing \subseteq UIDs(server) /\ \A u \in missing : u > box.last
    BY <1>2, <1>9, ImportedBelow DEF missing
  <2>2. \A u \in UIDs(server) : u \in missing \/ (u \in DOMAIN rows /\ rows[u].done)
    BY DEF missing, Imported
  <2>3. PassInv'
    BY <1>1, <1>2, <1>3, <1>9, <2>1, <2>2, WorkBegins DEF store
  <2> QED BY <1>5, <1>9, <2>3 DEF MailInv
<1> QED BY <1>4, <1>6, <1>7, <1>8, <1>9

-----------------------------------------------------------------------------
(* One message after the other *)

\* The message a pass takes next is above the checkpoint and below the others.
LEMMA TheHead ==
    ASSUME PassInv, Oversized = {}, pass.pc \in Works, pass.queue # {}
    PROVE  /\ Head1 \in pass.queue /\ Head1.uid \in Nat \ {0} /\ Head1.msg \in 1..server.count
           /\ Head1.uid > box.last /\ Head1.uid > pass.pend
           /\ \A j \in pass.queue : Head1.uid <= j.uid /\ j.uid \in Nat
           /\ Rest \subseteq pass.queue /\ \A j \in pass.queue : j = Head1 \/ j \in Rest
           /\ \A j \in Rest : j.uid > Head1.uid
           /\ \A u : Queued(u) => u >= Head1.uid
<1>1. \A i \in pass.queue : i.uid \in Nat \ {0} /\ i.msg \in 1..server.count
  BY DEF PassInv, PassShape, AtWork
<1>2. Head1 \in pass.queue /\ \A i \in pass.queue : Head1.uid <= i.uid
  BY <1>1, HeadIsLeast
<1>3. \A j \in Rest : j \in pass.queue /\ j # Head1
  BY DEF Rest
<1>4. \A j \in pass.queue : j.uid = Head1.uid => j = Head1
  BY <1>2 DEF PassInv, PassAgrees
<1>5. \A j \in Rest : j.uid > Head1.uid
  <2> SUFFICES ASSUME NEW j \in Rest PROVE j.uid > Head1.uid
    OBVIOUS
  <2>1. j \in pass.queue /\ j # Head1 /\ j.uid # Head1.uid
    BY <1>3, <1>4
  <2>2. j.uid \in Nat /\ Head1.uid \in Nat /\ Head1.uid <= j.uid
    BY <1>1, <1>2, <2>1
  <2> QED BY <2>1, <2>2
<1>6. Head1.uid > box.last /\ Head1.uid > pass.pend
  BY <1>2 DEF PassInv, Places
<1>7. \A u : Queued(u) => u >= Head1.uid
  BY <1>1, <1>2 DEF Queued
<1>8. \A j \in pass.queue : j = Head1 \/ j \in Rest
  BY DEF Rest
<1> QED BY <1>1, <1>2, <1>3, <1>5, <1>6, <1>7, <1>8

\* A step of a pass at work that fetches nothing and stores no new row.
GoesOn ==
    /\ pass.pc \in Works /\ pass'.pc \in Works /\ DOMAIN pass' = DOMAIN pass
    /\ pass'.gen = pass.gen /\ pass'.start = pass.start /\ pass'.floor = pass.floor /\ pass'.rebuild = pass.rebuild
    /\ pass'.phase = pass.phase /\ pass'.snap = pass.snap /\ pass'.top = pass.top /\ pass'.final = pass.final
    /\ pass'.queue \subseteq pass.queue /\ pass'.cur \in Nat /\ pass'.pend \in Nat /\ pass'.whole \in BOOLEAN
    /\ UNCHANGED <<server, marker, due>> /\ box'.gen = box.gen
    /\ DOMAIN rows' = DOMAIN rows /\ \A u \in DOMAIN rows : rows'[u].msg = rows[u].msg

\* What such a step has in hand still agrees with the store.
LEMMA GoesOnKept ==
    ASSUME PassInv, GoesOn
    PROVE  /\ PassShape' /\ PassGenerations' /\ PassAgrees'
           /\ \A i \in pass'.queue : <<box'.gen, i.uid>> \in due' => i.uid \in DOMAIN rows'
<1> PassShape /\ PassGenerations /\ PassAgrees /\ PassOwes
  BY DEF PassInv
<1>1. AtWork(pass) /\ pass'.pc \in Works /\
         pass'.pc \notin {"none", "status", "purge", "pending"} \cup Plans \cup Fetches \cup Ends
  BY DEF GoesOn, PassShape, Works, Plans, Fetches, Ends
<1>2. AtWork(pass)'
  BY <1>1 DEF GoesOn, AtWork, FetchShape
<1>3. PassShape'
  BY <1>1, <1>2 DEF PassShape
<1>4. PassGenerations'
  BY <1>1 DEF GoesOn, PassGenerations
<1>5. PassAgrees'
  BY DEF GoesOn, PassAgrees, UIDs
<1> QED BY <1>3, <1>4, <1>5 DEF GoesOn, PassOwes

\* A row that is complete already only holds its place in the order.
LEMMA SkipKept == ASSUME MailInv, Oversized = {}, SkipItem PROVE MailInv'
<1> /\ StoreInv /\ PassInv /\ StoreShape /\ StoreGenerations
    /\ PassShape /\ PassGenerations /\ Flow /\ Places /\ Taking /\ InHand /\ PassJournal /\ Documented /\ PassOwes
  BY DEF MailInv, StoreInv, PassInv
<1>1. pass.pc = "item" /\ pass.queue # {} /\ pass.pc \in Works /\ UNCHANGED <<server, store, docs, ghosts, oper>>
  BY DEF SkipItem, Works
<1>2. AtWork(pass) /\ pass.gen = box.gen /\ pass.cur = box.last /\ oper = "idle"
  BY <1>1 DEF PassShape, PassGenerations, Places, StoreGenerations, NoPass
<1>3. StoreInv'
  BY <1>1, <1>2, StoreStays DEF StoreKeeps, store, ghosts
<1>4. /\ Head1 \in pass.queue /\ Head1.uid \in Nat /\ Head1.uid > pass.cur /\ Rest \subseteq pass.queue
  BY <1>1, <1>2, TheHead
<1>5. /\ Exists(Head1.uid)
      /\ \/ pass.phase \in {"prewarm", "refresh"} /\ pass' = [pass EXCEPT !.queue = Rest]
         \/ pass.phase \notin {"prewarm", "refresh"} /\ pass' = [pass EXCEPT !.pc = "record", !.whole = pass.pend = 0]
  BY <1>2, <1>4 DEF SkipItem, AtWork
<1>6. CASE pass.phase \in {"prewarm", "refresh"} /\ pass' = [pass EXCEPT !.queue = Rest]
  <2>1. /\ pass'.queue = Rest /\ DOMAIN pass' = DOMAIN pass /\ \A f \in DOMAIN pass \ {"queue"} : pass'[f] = pass[f]
    BY <1>2, <1>6 DEF AtWork
  <2>2. /\ GoesOn /\ pass'.pc = "item" /\ pass'.cur = pass.cur /\ pass'.pend = pass.pend /\ pass'.compl = pass.compl
        /\ pass'.batch = pass.batch /\ pass'.snap = pass.snap
    BY <1>1, <1>2, <1>4, <2>1 DEF GoesOn, AtWork, store, ghosts
  <2>3. pass.rebuild /\ \A u \in DOMAIN rows : ~Owed(u)
    BY <1>1, <1>6 DEF Flow, PassOwes
  <2>4. UNCHANGED <<server, rows, box, marker, journal, docs, due, announced, bypassed>>
    BY <1>1 DEF store, ghosts
  <2>5. Flow' /\ Places'
    BY <1>1, <1>6, <2>2, <2>4 DEF Flow, Places, GoesOn, Works, Plans, Fetches, Inside
  <2>6. Taking' /\ PassJournal'
    BY <1>1, <1>6, <2>2, <2>4 DEF GoesOn, Taking, Taken, PassJournal, Left, UIDs, Works, Ends
  <2>7. InHand' /\ Documented'
    BY <1>1, <1>6, <2>2, <2>4 DEF GoesOn, InHand, Documented, Inside
  <2>8. PassOwes'
    BY <2>2, <2>3, <2>4, GoesOnKept DEF GoesOn, PassOwes, Owed
  <2> QED BY <1>3, <2>2, <2>5, <2>6, <2>7, <2>8, GoesOnKept DEF MailInv, PassInv
<1>7. CASE pass.phase \notin {"prewarm", "refresh"} /\ pass' = [pass EXCEPT !.pc = "record", !.whole = pass.pend = 0]
  <2>1. /\ pass'.pc = "record" /\ pass'.whole = (pass.pend = 0) /\ DOMAIN pass' = DOMAIN pass
        /\ \A f \in DOMAIN pass \ {"pc", "whole"} : pass'[f] = pass[f]
    BY <1>2, <1>7 DEF AtWork
  <2>2. /\ GoesOn /\ pass'.queue = pass.queue /\ pass'.cur = pass.cur /\ pass'.pend = pass.pend /\
              pass'.compl = pass.compl
        /\ pass'.batch = pass.batch /\ pass'.snap = pass.snap
    BY <1>1, <1>2, <1>4, <2>1 DEF GoesOn, AtWork, store, ghosts, Works
  <2>3. UNCHANGED <<server, rows, box, marker, journal, docs, due, announced, bypassed>> /\ Head1' = Head1
    BY <1>1, <2>2 DEF store, ghosts, Head1, FetchedFirst, Stubs
  <2>4. Flow' /\ Places'
    BY <1>1, <1>7, <2>1, <2>2, <2>3 DEF Flow, Places, GoesOn, Works, Plans, Fetches, Inside
  <2>5. Taking' /\ PassJournal'
    BY <1>1, <1>7, <2>2, <2>3 DEF GoesOn, Taking, Taken, Queued, PassJournal, Left, UIDs, Works, Ends
  <2>6. Documented'
    BY <1>1, <1>7, <2>1, <2>2, <2>3 DEF GoesOn, Documented, Inside
  <2>7. InHand'
    BY <1>1, <1>5, <1>7, <2>1, <2>2, <2>3 DEF GoesOn, InHand, Taken, Exists, InGeneration, Inside
  <2>8. PassOwes'
    BY <1>1, <2>1, <2>2, <2>3, GoesOnKept DEF GoesOn, PassOwes, Owed, Queued
  <2> QED BY <1>3, <2>2, <2>4, <2>5, <2>6, <2>7, <2>8, GoesOnKept DEF MailInv, PassInv
<1> QED BY <1>5, <1>6, <1>7

\* A new row takes its change out of the journal and becomes due in the same transaction.
LEMMA StoreItemKept == ASSUME MailInv, Oversized = {}, StoreItem PROVE MailInv'
<1> /\ StoreInv /\ PassInv /\ ServerShape /\ StoreShape /\ StoreGenerations /\ StoreAgrees /\ StoreJournal /\ StoreOwes
    /\ CheckpointCovered /\ CompletedIsIndexed /\ UnsentChangeKept
    /\ PassShape /\ PassGenerations /\ Flow /\ Places /\ PassAgrees /\ Taking /\ InHand /\ PassJournal /\ Documented /\
          PassOwes
  BY DEF MailInv, StoreInv, PassInv
<1>0. PICK i, u : i = Head1 /\ u = i.uid
  OBVIOUS
<1> DEFINE fresh == [msg |-> i.msg, gen |-> pass.gen, done |-> FALSE, read |-> i.seen, pend |-> FALSE]
           base == IF InGeneration(u) THEN rows[u] ELSE fresh
           new == Restored(base)
<1>1. /\ pass.pc = "item" /\ pass.queue # {} /\ pass.pc \in Works /\
            UNCHANGED <<server, box, marker, docs, announced, bypassed, unsent, oper>>
      /\ ~Exists(u) /\ rows' = With(rows, u, new)
      /\ journal' = IF marker.target = pass.gen THEN Drop(journal, i.msg) ELSE journal
      /\ due' = IF ShouldNotify(u) /\ (pass.start > 0 \/ pass.rebuild) THEN due \cup {<<pass.gen, u>>} ELSE due
      /\ pass' = [pass EXCEPT !.pc = "index", !.compl = @ \cup {u},
            !.batch = IF i.msg \in Oversized THEN @ ELSE @ \cup {u}]
  BY <1>0 DEF StoreItem, Works
<1>2. /\ AtWork(pass) /\ pass.gen = box.gen /\ pass.cur = box.last /\ pass.start <= box.last /\ oper = "idle" /\
            box.gen \in Nat \ {0}
      /\ (pass.rebuild <=> marker.target = pass.gen) /\ (pass.rebuild => pass.floor = marker.floor)
  BY <1>1 DEF PassShape, PassGenerations, Places, StoreGenerations, NoPass, AtWork, FetchShape
<1>3. /\ i \in pass.queue /\ u \in Nat \ {0} /\ i.msg \in 1..server.count /\ u > box.last /\ u > pass.pend
      /\ \A j \in pass.queue : u <= j.uid
  BY <1>0, <1>1, TheHead
<1>4. /\ \A v \in DOMAIN rows : u = v <=> i.msg = rows[v].msg
      /\ \A j \in pass.queue : u = j.uid <=> i.msg = j.msg
      /\ box.gen = server.gen => u < server.next /\ \A v \in UIDs(server) : u = v <=> i.msg = server.mail[v]
  BY <1>0, <1>1, <1>2, <1>3 DEF PassAgrees
<1>5. /\ DOMAIN base = {"msg", "gen", "done", "read", "pend"} /\ base.msg = i.msg /\ base.gen = pass.gen /\
            base.done = FALSE
      /\ base.pend \in BOOLEAN /\ (u \in DOMAIN rows => base = rows[u]) /\ (u \notin DOMAIN rows => base.pend = FALSE)
  <2>1. InGeneration(u) <=> u \in DOMAIN rows
    BY <1>2 DEF InGeneration, StoreShape
  <2>2. CASE u \in DOMAIN rows
    <3>1. base = rows[u] /\ rows[u].msg = i.msg /\ rows[u].gen = box.gen /\ rows[u].done \in BOOLEAN /\ ~rows[u].done
      BY <1>1, <1>4, <2>1, <2>2 DEF Exists, StoreShape
    <3>2. rows[u].done = FALSE
      BY <3>1
    <3> QED BY <1>2, <2>2, <3>1, <3>2 DEF StoreShape
  <2>3. CASE u \notin DOMAIN rows
    BY <2>1, <2>3
  <2> QED BY <2>2, <2>3
<1> HIDE DEF base
<1>6. /\ DOMAIN new = {"msg", "gen", "done", "read", "pend"} /\ new.msg = i.msg /\ new.gen = pass.gen /\ new.done = FALSE
      /\ new.pend \in BOOLEAN
      /\ IF marker.target = pass.gen /\ i.msg \in DOMAIN journal /\ journal[i.msg].pend
         THEN new.read = journal[i.msg].read /\ new.pend = TRUE
         ELSE new = base
  BY <1>5 DEF Restored
<1> HIDE DEF new
<1>7. /\ DOMAIN rows' = DOMAIN rows \cup {u} /\ rows'[u] = new /\ \A v \in DOMAIN rows : v # u => rows'[v] = rows[v]
  BY <1>1 DEF With
<1>8. /\ \A v \in DOMAIN rows' : v \in DOMAIN rows \/ v = u
      /\ \A v \in DOMAIN rows : rows'[v].msg = rows[v].msg /\ rows'[v].gen = rows[v].gen
      /\ \A v \in DOMAIN rows : rows'[v].done = rows[v].done
      /\ rows'[u].msg = i.msg /\ rows'[u].gen = box.gen
  <2>1. u \in DOMAIN rows => new.msg = rows[u].msg /\ new.gen = rows[u].gen /\ new.done = rows[u].done
    BY <1>5, <1>6
  <2>2. \A v \in DOMAIN rows : v = u \/ rows'[v] = rows[v]
    BY <1>7
  <2> QED BY <1>2, <1>6, <1>7, <2>1, <2>2
<1>9. /\ DOMAIN journal' \subseteq DOMAIN journal /\ (marker.target # pass.gen => journal' = journal)
      /\ (marker.target = pass.gen => DOMAIN journal' = DOMAIN journal \ {i.msg})
      /\ \A m \in DOMAIN journal' : journal'[m] = journal[m]
  BY <1>1 DEF Drop
<1>10. /\ \A d \in due' : d \in due \/ d = <<box.gen, u>>
       /\ due \subseteq due'
       /\ <<box.gen, u>> \in due' => \/ <<box.gen, u>> \in due
                                     \/ pass.rebuild /\ u >= marker.floor
                                     \/ ~pass.rebuild /\ pass.start > 0
  BY <1>1, <1>2 DEF ShouldNotify, IsPostRebuildArrival
<1>11. \A v \in Nat : v # u => (<<box.gen, v>> \in due' <=> <<box.gen, v>> \in due)
  BY <1>10
<1>12. \A v \in DOMAIN rows : v # u => (Owed(v)' => Owed(v))
  <2> SUFFICES ASSUME NEW v \in DOMAIN rows, v # u, Owed(v)' PROVE Owed(v)
    OBVIOUS
  <2>1. rows'[v] = rows[v] /\ rows[v].gen = box.gen /\ v \in Nat
    BY <1>7 DEF StoreShape
  <2> QED BY <1>1, <1>11, <2>1 DEF Owed
<1>13. Owed(u)' => \/ u \in DOMAIN rows /\ Owed(u)
                   \/ pass.rebuild /\ u >= marker.floor
                   \/ ~pass.rebuild /\ pass.start > 0
  <2> SUFFICES ASSUME Owed(u)', <<box.gen, u>> \in due PROVE u \in DOMAIN rows /\ Owed(u)
    BY <1>8, <1>10 DEF Owed
  <2>1. u \in DOMAIN rows
    BY <1>0, <1>1, <1>3 DEF PassOwes
  <2> QED BY <1>1, <1>8, <2>1 DEF Owed, StoreShape
<1>14. StoreShape'
  <2>1. \A v \in DOMAIN rows' : /\ DOMAIN rows'[v] = {"msg", "gen", "done", "read", "pend"}
                                /\ rows'[v].msg \in 1..server.count /\ rows'[v].gen = box.gen
                                /\ rows'[v].done \in BOOLEAN /\ rows'[v].pend \in BOOLEAN
    <3> SUFFICES ASSUME NEW v \in DOMAIN rows' PROVE DOMAIN rows'[v] = {"msg", "gen", "done", "read", "pend"}
                                /\ rows'[v].msg \in 1..server.count /\ rows'[v].gen = box.gen
                                /\ rows'[v].done \in BOOLEAN /\ rows'[v].pend \in BOOLEAN
      OBVIOUS
    <3>1. CASE v = u
      <4>1. rows'[v] = new /\ new.done = FALSE
        BY <1>6, <1>7, <3>1
      <4>2. DOMAIN new = {"msg", "gen", "done", "read", "pend"} /\ new.msg \in 1..server.count /\ new.gen = box.gen /\
               new.pend \in BOOLEAN
        BY <1>2, <1>3, <1>6
      <4>3. new.done \in BOOLEAN
        BY <4>1
      <4> QED BY <4>1, <4>2, <4>3
    <3>2. CASE v # u
      BY <1>7, <1>8, <3>2 DEF StoreShape
    <3> QED BY <3>1, <3>2
  <2>2. due' \subseteq Nat \X Nat
    BY <1>2, <1>3, <1>10 DEF StoreShape
  <2> QED BY <1>1, <1>3, <1>7, <1>9, <2>1, <2>2 DEF StoreShape
<1>15. ServerShape' /\ StoreGenerations'
  <2>1. \A d \in due' : d[1] <= box.gen
    BY <1>2, <1>10 DEF StoreGenerations
  <2>2. box.gen # 0 /\ (marker.target = 0 => DOMAIN journal' = {})
    BY <1>2, <1>9 DEF StoreGenerations
  <2> QED BY <1>1, <1>2, <2>1, <2>2 DEF ServerShape, StoreGenerations, UIDs
<1>16. StoreAgrees'
  BY <1>1, <1>4, <1>8 DEF StoreAgrees, UIDs
<1>17. StoreJournal'
  <2>1. marker.target # pass.gen => DOMAIN journal = {}
    BY <1>2 DEF StoreGenerations
  <2> QED BY <1>1, <1>8, <1>9, <2>1 DEF StoreJournal
<1>18. StoreOwes'
  <2>1. ASSUME NEW v \in DOMAIN rows', Owed(v)'
        PROVE  v > box.last /\ IF marker.target = 0 THEN box.last > 0 ELSE v >= marker.floor
    <3>1. CASE v \in DOMAIN rows /\ Owed(v)
      BY <3>1 DEF StoreOwes
    <3>2. CASE v = u /\ pass.rebuild /\ u >= marker.floor
      BY <1>2, <1>3, <3>2
    <3>3. CASE v = u /\ ~pass.rebuild /\ pass.start > 0
      BY <1>2, <1>3, <3>3 DEF StoreGenerations, AtWork, StoreShape
    <3> QED BY <1>8, <1>12, <1>13, <2>1, <3>1, <3>2, <3>3
  <2>2. box.gen = server.gen => \A v \in Nat : <<box.gen, v>> \in due' => v < server.next /\ (v \in UIDs(server) =>
           v \in DOMAIN rows')
    BY <1>4, <1>7, <1>11 DEF StoreOwes
  <2> QED BY <1>1, <2>1, <2>2 DEF StoreOwes, UIDs
<1>19. CheckpointCovered'
  BY <1>1, <1>3, <1>7, <1>8 DEF CheckpointCovered, UIDs
<1>20. CompletedIsIndexed'
  <2>1. ~rows'[u].done
    BY <1>6, <1>7
  <2> QED BY <1>1, <1>8, <2>1 DEF CompletedIsIndexed
<1>21. UnsentChangeKept'
  <2> SUFFICES ASSUME NEW m \in DOMAIN unsent
               PROVE  \/ \E v \in DOMAIN rows' : rows'[v].msg = m /\ rows'[v].pend /\ rows'[v].read = unsent[m]
                      \/ m \in DOMAIN journal' /\ journal'[m] = [read |-> unsent[m], pend |-> TRUE]
    BY <1>1 DEF UnsentChangeKept
  <2>1. CASE \E v \in DOMAIN rows : rows[v].msg = m /\ rows[v].pend /\ rows[v].read = unsent[m]
    <3>1. PICK v \in DOMAIN rows : rows[v].msg = m /\ rows[v].pend /\ rows[v].read = unsent[m]
      BY <2>1
    <3>2. rows'[v] = rows[v]
      <4>1. CASE v = u
        <5>1. i.msg \notin DOMAIN journal
          BY <1>4, <4>1 DEF StoreJournal
        <5> QED BY <1>5, <1>6, <1>7, <4>1, <5>1
      <4> QED BY <1>7, <4>1
    <3> QED BY <1>7, <3>1, <3>2
  <2>2. CASE m \in DOMAIN journal /\ journal[m] = [read |-> unsent[m], pend |-> TRUE]
    <3>1. CASE m = i.msg /\ marker.target = pass.gen
      <4>1. journal[i.msg].pend = TRUE /\ journal[i.msg].read = unsent[m]
        BY <2>2, <3>1
      <4>2. new.read = unsent[m] /\ new.pend = TRUE
        BY <1>6, <2>2, <3>1, <4>1
      <4> QED BY <1>7, <1>8, <3>1, <4>2
    <3>2. CASE ~(m = i.msg /\ marker.target = pass.gen)
      <4>1. m \in DOMAIN journal' /\ journal'[m] = journal[m]
        BY <1>9, <2>2, <3>2
      <4> QED BY <2>2, <4>1
    <3> QED BY <3>1, <3>2
  <2> QED BY <2>1, <2>2 DEF UnsentChangeKept
<1>22. StoreInv'
  BY <1>14, <1>15, <1>16, <1>17, <1>18, <1>19, <1>20, <1>21 DEF StoreInv
<1>23. /\ pass'.pc = "index" /\ pass'.compl = pass.compl \cup {u} /\ pass'.batch = pass.batch \cup {u} /\
             DOMAIN pass' = DOMAIN pass
       /\ \A f \in DOMAIN pass \ {"pc", "compl", "batch"} : pass'[f] = pass[f]
  BY <1>1, <1>2 DEF AtWork
<1>24. /\ pass'.gen = pass.gen /\ pass'.start = pass.start /\ pass'.floor = pass.floor /\ pass'.rebuild = pass.rebuild
       /\ pass'.phase = pass.phase /\ pass'.snap = pass.snap /\ pass'.top = pass.top /\ pass'.final = pass.final
       /\ pass'.queue = pass.queue /\ pass'.cur = pass.cur /\ pass'.pend = pass.pend /\ pass'.whole = pass.whole
       /\ Head1' = i /\ pass'.pc \in Works /\ pass'.pc \notin {"none", "status"} \cup Plans \cup Fetches \cup Ends
  BY <1>0, <1>2, <1>23 DEF AtWork, Head1, FetchedFirst, Stubs, Works, Plans, Fetches, Ends
<1>25. PassShape'
  <2>1. AtWork(pass)'
    BY <1>1, <1>2, <1>23, <1>24 DEF AtWork, FetchShape
  <2> QED BY <1>24, <2>1 DEF PassShape
<1>26. PassGenerations' /\ Flow' /\ Places'
  BY <1>1, <1>2, <1>23, <1>24 DEF PassGenerations, Flow, Places, Inside, Plans, Fetches
<1>27. PassAgrees'
  BY <1>1, <1>4, <1>8, <1>24 DEF PassAgrees, UIDs
<1>28. Taking'
  <2>1. \A v : Taken(v) => Taken(v)'
    BY <1>7, <1>8, <1>23 DEF Taken
  <2> QED BY <1>1, <1>24, <2>1 DEF Taking, Queued, UIDs
<1>29. InHand'
  <2>1. u \in DOMAIN rows' /\ u \in pass'.compl /\ ~rows'[u].done
    BY <1>6, <1>7, <1>23
  <2> QED BY <1>0, <1>23, <1>24, <2>1 DEF InHand, Taken
<1>30. PassJournal'
  <2>1. \A m \in Left' : m \in Left
    BY <1>1, <1>9 DEF Left
  <2> QED BY <1>1, <1>9, <1>24, <2>1 DEF PassJournal, UIDs
<1>31. Documented'
  <2>1. \A v \in (pass.compl \cup {u}) \cap DOMAIN rows' : v = u \/ v \in pass.compl \cap DOMAIN rows
    BY <1>8
  <2> QED BY <1>1, <1>23, <1>24, <2>1 DEF Documented
<1>32. PassOwes'
  <2>1. \A j \in pass.queue : <<box.gen, j.uid>> \in due' => j.uid \in DOMAIN rows'
    BY <1>1, <1>2, <1>7, <1>11 DEF PassOwes, AtWork
  <2>2. ASSUME NEW v \in DOMAIN rows', Owed(v)', ~pass.rebuild, pass.phase = "history"
        PROVE  pass.start > 0 /\ v > pass.pend /\ \A j \in pass.queue : v < j.uid => Queued(v)
    <3>1. CASE v \in DOMAIN rows /\ Owed(v)
      BY <1>1, <2>2, <3>1 DEF PassOwes
    <3>2. CASE v = u /\ pass.start > 0
      BY <1>0, <1>3, <3>2 DEF Queued
    <3> QED BY <1>8, <1>12, <1>13, <2>2, <3>1, <3>2
  <2>3. ASSUME NEW v \in DOMAIN rows', Owed(v)', pass.rebuild
        PROVE  v = u
    <3>1. ~(v \in DOMAIN rows /\ Owed(v))
      BY <1>1, <2>3 DEF PassOwes
    <3> QED BY <1>8, <1>12, <2>3, <3>1
  <2> QED BY <1>0, <1>1, <1>23, <1>24, <2>1, <2>2, <2>3 DEF PassOwes, Queued
<1> QED BY <1>22, <1>25, <1>26, <1>27, <1>28, <1>29, <1>30, <1>31, <1>32 DEF MailInv, PassInv

\* Imports are completed when their documents are there, if documents are what they wait for.
LEMMA CompletionKept ==
    ASSUME StoreInv, PassInv, pass.pc \in Works, rows' = MarkCompleted(pass.compl),
           UNCHANGED <<server, box, marker, journal, docs, ghosts, oper>>,
           \A u \in pass.compl \cap DOMAIN rows : marker.target = 0 /\ pass.gen = 1 => <<1, u>> \in docs
    PROVE  /\ StoreInv'
           /\ DOMAIN rows' = DOMAIN rows /\ \A u \in DOMAIN rows : rows'[u].msg = rows[u].msg /\
                 rows'[u].gen = rows[u].gen
           /\ \A u \in DOMAIN rows : rows'[u].done <=> rows[u].done \/ u \in pass.compl
<1> /\ StoreShape /\ StoreGenerations /\ StoreAgrees /\ StoreJournal /\ StoreOwes /\ ServerShape
    /\ CheckpointCovered /\ CompletedIsIndexed /\ UnsentChangeKept
  BY DEF StoreInv
<1>1. pass.gen = box.gen /\ \A u \in DOMAIN rows : rows[u].gen = pass.gen
  BY DEF PassInv, PassGenerations, StoreShape
<1>2. /\ DOMAIN rows' = DOMAIN rows
      /\ \A u \in DOMAIN rows : rows'[u] = IF u \in pass.compl THEN [rows[u] EXCEPT !.done = TRUE] ELSE rows[u]
  BY <1>1 DEF MarkCompleted
<1>3. ASSUME NEW u \in DOMAIN rows
      PROVE  /\ DOMAIN rows'[u] = DOMAIN rows[u] /\ rows'[u].msg = rows[u].msg /\ rows'[u].gen = rows[u].gen
             /\ rows'[u].read = rows[u].read /\ rows'[u].pend = rows[u].pend
             /\ rows'[u].done = IF u \in pass.compl THEN TRUE ELSE rows[u].done
  <2>1. DOMAIN rows[u] = {"msg", "gen", "done", "read", "pend"}
    BY DEF StoreShape
  <2>2. CASE u \in pass.compl
    BY <1>2, <2>1, <2>2
  <2>3. CASE u \notin pass.compl
    BY <1>2, <2>3
  <2> QED BY <2>2, <2>3
<1>4. \A u \in DOMAIN rows : rows'[u].done \in BOOLEAN /\ (rows'[u].done <=> rows[u].done \/ u \in pass.compl)
  <2> SUFFICES ASSUME NEW u \in DOMAIN rows
        PROVE rows'[u].done \in BOOLEAN /\ (rows'[u].done <=> rows[u].done \/ u \in pass.compl)
    OBVIOUS
  <2>1. rows[u].done \in BOOLEAN
    BY DEF StoreShape
  <2>2. CASE u \in pass.compl
    BY <1>3, <2>2
  <2>3. CASE u \notin pass.compl
    BY <1>3, <2>1, <2>3
  <2> QED BY <2>2, <2>3
<1>5. UNCHANGED <<announced, due, bypassed, unsent>>
  BY DEF ghosts
<1>6. ServerShape' /\ StoreShape' /\ StoreGenerations'
  <2>1. \A u \in DOMAIN rows : pass # NoPass
    BY DEF Works, NoPass
  <2>2. StoreShape'
    BY <1>2, <1>3, <1>4, <1>5 DEF StoreShape
  <2> QED BY <1>2, <1>5, <2>2 DEF ServerShape, StoreGenerations, UIDs, Works, NoPass
<1>7. StoreAgrees' /\ StoreJournal'
  <2>1. \A u \in DOMAIN rows : rows'[u].msg = rows[u].msg
    BY <1>3
  <2>2. StoreAgrees'
    BY <1>2, <2>1 DEF StoreAgrees, UIDs
  <2>3. StoreJournal'
    BY <1>2, <1>5, <2>1 DEF StoreJournal
  <2> QED BY <2>2, <2>3
<1>8. StoreOwes'
  BY <1>2, <1>3, <1>5 DEF StoreOwes, Owed, UIDs
<1>9. CheckpointCovered'
  BY <1>2, <1>3, <1>4 DEF CheckpointCovered, UIDs
<1>10. CompletedIsIndexed'
  <2> SUFFICES ASSUME NEW u \in DOMAIN rows, rows'[u].done, rows'[u].gen = 1, rows'[u].msg \notin Oversized,
         marker.target = 0
               PROVE  <<1, u>> \in docs
    BY <1>2 DEF CompletedIsIndexed
  <2>1. rows[u].gen = 1 /\ pass.gen = 1 /\ rows[u].msg \notin Oversized
    BY <1>1, <1>3
  <2>2. CASE u \in pass.compl
    BY <2>1, <2>2
  <2>3. CASE rows[u].done
    BY <2>1, <2>3 DEF CompletedIsIndexed
  <2> QED BY <1>4, <2>2, <2>3
<1>11. UnsentChangeKept'
  <2>1. \A u \in DOMAIN rows : rows'[u].msg = rows[u].msg /\ rows'[u].read = rows[u].read /\ rows'[u].pend = rows[u].pend
    BY <1>3
  <2> QED BY <1>2, <1>5, <2>1 DEF UnsentChangeKept
<1> QED BY <1>2, <1>3, <1>4, <1>6, <1>7, <1>8, <1>9, <1>10, <1>11 DEF StoreInv

\* The documents that a batch commits are those of its rows.
LEMMA DocumentsOfBatch ==
    ASSUME StoreInv, PassInv, pass.pc \in Works
    PROVE  \A u \in pass.batch \cap DOMAIN rows : <<pass.gen, u>> \in Documents(pass.batch)
<1>1. \A u \in DOMAIN rows : rows[u].gen = pass.gen
  BY DEF StoreInv, StoreShape, PassInv, PassGenerations
<1> QED BY <1>1 DEF Documents

\* A full batch is committed, any batch when a hook runs next.
LEMMA IndexKept == ASSUME MailInv, Oversized = {}, NEW full \in BOOLEAN, IndexBatch(full) PROVE MailInv'
<1> /\ StoreInv /\ PassInv /\ StoreShape /\ StoreGenerations
    /\ PassShape /\ PassGenerations /\ Flow /\ Places /\ Taking /\ InHand /\ PassJournal /\ Documented /\ PassOwes
  BY DEF MailInv, StoreInv, PassInv
<1>1. /\ pass.pc = "index" /\ pass.pc \in Works /\ UNCHANGED <<server, store, ghosts, oper>>
      /\ docs' = IF full THEN docs \cup Documents(pass.batch) ELSE docs
      /\ pass' = [pass EXCEPT !.pc = "complete", !.batch = IF full THEN {} ELSE @]
      /\ full \/ ~(Hooks /\ ~pass.rebuild)
  BY DEF IndexBatch, Works
<1>2. AtWork(pass) /\ pass.gen = box.gen /\ oper = "idle"
  BY <1>1 DEF PassShape, PassGenerations, StoreGenerations, NoPass
<1>3. StoreInv'
  BY <1>1, <1>2, StoreStays DEF StoreKeeps, store, ghosts
<1>4. /\ pass'.pc = "complete" /\ pass'.batch = (IF full THEN {} ELSE pass.batch) /\ DOMAIN pass' = DOMAIN pass
      /\ \A f \in DOMAIN pass \ {"pc", "batch"} : pass'[f] = pass[f]
  BY <1>1, <1>2 DEF AtWork
<1>5. /\ GoesOn /\ pass'.queue = pass.queue /\ pass'.cur = pass.cur /\ pass'.pend = pass.pend /\ pass'.compl = pass.compl
      /\ pass'.whole = pass.whole
  BY <1>1, <1>2, <1>4 DEF GoesOn, AtWork, store, ghosts, Works
<1>6. UNCHANGED <<server, rows, box, marker, journal, due, announced, bypassed>> /\ Head1' = Head1 /\ pass.queue # {}
  BY <1>1, <1>5 DEF store, ghosts, Head1, FetchedFirst, Stubs, Flow, Inside
<1>7. Flow' /\ Places'
  BY <1>1, <1>4, <1>5, <1>6 DEF Flow, Places, GoesOn, Works, Plans, Fetches, Inside
<1>8. Taking' /\ PassJournal'
  BY <1>1, <1>4, <1>5, <1>6 DEF GoesOn, Taking, Taken, Queued, PassJournal, Left, UIDs, Works, Ends
<1>9. InHand'
  BY <1>1, <1>4, <1>5, <1>6 DEF GoesOn, InHand, Taken, Inside
<1>10. Documented'
  <2>1. pass.gen = 1 => \A u \in pass.compl \cap DOMAIN rows : u \in pass'.batch \/ <<1, u>> \in docs'
    <3>1. CASE full
      BY <1>1, <1>4, <3>1, DocumentsOfBatch DEF Documented
    <3>2. CASE ~full
      BY <1>1, <1>4, <3>2 DEF Documented
    <3> QED BY <3>1, <3>2
  <2> QED BY <1>1, <1>4, <1>5, <1>6, <2>1 DEF Documented, GoesOn
<1>11. PassOwes'
  BY <1>1, <1>4, <1>5, <1>6, GoesOnKept DEF GoesOn, PassOwes, Owed, Queued
<1> QED BY <1>3, <1>5, <1>7, <1>8, <1>9, <1>10, <1>11, GoesOnKept DEF MailInv, PassInv

\* An import is completed at once in a rebuild, for a hook, and when its document is committed.
LEMMA CompleteKept == ASSUME MailInv, Oversized = {}, CompleteImports PROVE MailInv'
<1> /\ StoreInv /\ PassInv /\ StoreShape /\ StoreGenerations
    /\ PassShape /\ PassGenerations /\ Flow /\ Places /\ Taking /\ InHand /\ PassJournal /\ Documented /\ PassOwes
  BY DEF MailInv, StoreInv, PassInv
<1>1. /\ pass.pc = "complete" /\ pass.pc \in Works /\ UNCHANGED <<server, box, marker, journal, docs, ghosts, oper>>
      /\ rows' = IF CompletesNow THEN MarkCompleted(pass.compl) ELSE rows
      /\ pass' = [pass EXCEPT !.pc = "record", !.whole = CompletesNow, !.compl = IF CompletesNow THEN {} ELSE @]
  BY DEF CompleteImports, Works
<1>2. AtWork(pass) /\ pass.gen = box.gen /\ oper = "idle" /\ (pass.rebuild <=> marker.target = pass.gen) /\
         Hooks \in BOOLEAN
  BY <1>1, MailboxSyncAssumption DEF PassShape, PassGenerations, StoreGenerations, NoPass
<1>3. CompletesNow \in BOOLEAN /\ (CompletesNow <=> pass.rebuild \/ Hooks \/ pass.batch = {})
  BY <1>2 DEF CompletesNow, AtWork, FetchShape
<1>4. /\ pass'.pc = "record" /\ pass'.whole = CompletesNow /\ DOMAIN pass' = DOMAIN pass
      /\ pass'.compl = (IF CompletesNow THEN {} ELSE pass.compl)
      /\ \A f \in DOMAIN pass \ {"pc", "whole", "compl"} : pass'[f] = pass[f]
  BY <1>1, <1>2 DEF AtWork
<1>5. /\ StoreInv' /\ DOMAIN rows' = DOMAIN rows /\ \A u \in DOMAIN rows : rows'[u].msg = rows[u].msg /\
            rows'[u].gen = rows[u].gen
      /\ \A u \in DOMAIN rows : rows'[u].done <=> rows[u].done \/ (CompletesNow /\ u \in pass.compl)
  <2>1. CASE CompletesNow
    <3>1. marker.target = 0 => ~pass.rebuild
      BY <1>2 DEF AtWork, FetchShape
    <3>2. marker.target = 0 => pass.batch = {}
      BY <1>1, <1>3, <2>1, <3>1 DEF Documented
    <3>3. \A u \in pass.compl \cap DOMAIN rows : marker.target = 0 /\ pass.gen = 1 => <<1, u>> \in docs
      BY <1>1, <3>2 DEF Documented
    <3> QED BY <1>1, <2>1, <3>3, CompletionKept
  <2>2. CASE ~CompletesNow
    BY <1>1, <1>2, <2>2, StoreStays DEF StoreKeeps, ghosts
  <2> QED BY <2>1, <2>2
<1>6. /\ GoesOn /\ pass'.queue = pass.queue /\ pass'.cur = pass.cur /\ pass'.pend = pass.pend /\ pass'.batch = pass.batch
  BY <1>1, <1>2, <1>3, <1>4, <1>5 DEF GoesOn, AtWork, ghosts, Works
<1>7. UNCHANGED <<server, box, marker, journal, docs, due, announced, bypassed>> /\ Head1' = Head1
  BY <1>1, <1>6 DEF ghosts, Head1, FetchedFirst, Stubs
<1>8. Flow' /\ Places'
  BY <1>1, <1>4, <1>6, <1>7 DEF Flow, Places, GoesOn, Works, Plans, Fetches, Inside
<1>9. \A u : Taken(u) => Taken(u)'
  BY <1>4, <1>5 DEF Taken
<1>10. Taking' /\ PassJournal'
  BY <1>1, <1>4, <1>6, <1>7, <1>9 DEF GoesOn, Taking, Queued, PassJournal, Left, UIDs, Works, Ends
<1>11. InHand'
  <2>1. ~CompletesNow => ~rows'[Head1.uid].done
    BY <1>1, <1>4 DEF InHand
  <2>2. CASE CompletesNow
    BY <1>1, <1>4, <1>6, <1>7, <1>9, <2>2 DEF GoesOn, InHand, Inside
  <2>3. CASE ~CompletesNow
    BY <1>1, <1>3, <1>4, <1>6, <1>7, <1>9, <2>1, <2>3 DEF GoesOn, InHand, Inside
  <2> QED BY <2>2, <2>3
<1>12. Documented'
  BY <1>1, <1>4, <1>5, <1>6, <1>7 DEF GoesOn, Documented
<1>13. PassOwes'
  <2>1. \A u \in DOMAIN rows' : Owed(u)' => Owed(u) /\ u \in DOMAIN rows
    BY <1>5, <1>7 DEF Owed
  <2> QED BY <1>1, <1>4, <1>5, <1>6, <1>7, <2>1, GoesOnKept DEF GoesOn, PassOwes, Queued
<1> QED BY <1>5, <1>6, <1>8, <1>10, <1>11, <1>12, <1>13, GoesOnKept DEF MailInv, PassInv

\* New mail is announced before its checkpoint.
LEMMA RecordKept == ASSUME MailInv, Oversized = {}, RecordArrival PROVE MailInv'
<1> /\ StoreInv /\ PassInv /\ StoreShape /\ StoreGenerations /\ StoreOwes
    /\ PassShape /\ PassGenerations /\ PassAgrees /\ Flow /\ Places /\ Taking /\ InHand /\ PassJournal /\ Documented /\
          PassOwes
  BY DEF MailInv, StoreInv, PassInv
<1>0. PICK u, m : u = Head1.uid /\ m = Head1.msg
  OBVIOUS
<1>1. /\ pass.pc = "record" /\ pass.pc \in Works /\ UNCHANGED <<server, store, docs, due, bypassed, unsent, oper>>
      /\ announced' = IF ShouldNotify(u) THEN announced \cup {m} ELSE announced
      /\ pass' = IF pass.phase = "history" THEN [pass EXCEPT !.pc = "checkpoint"] ELSE [pass EXCEPT !.pc = "item",
            !.queue = Rest]
  BY <1>0 DEF RecordArrival, Records, Ascends, Works
<1>2. /\ AtWork(pass) /\ pass.gen = box.gen /\ oper = "idle" /\ pass.queue # {} /\ pass.start <= box.last
      /\ (pass.rebuild <=> marker.target = pass.gen) /\ (pass.rebuild => pass.floor = marker.floor)
  BY <1>1 DEF PassShape, PassGenerations, Flow, Places, Inside, StoreGenerations, NoPass
<1>3. StoreInv'
  BY <1>1, <1>2, StoreStays DEF StoreKeeps, store
<1>4. /\ Head1 \in pass.queue /\ Rest \subseteq pass.queue /\ u > box.last /\ u \in Nat
      /\ \A j \in pass.queue : j = Head1 \/ j \in Rest
  BY <1>0, <1>1, <1>2, TheHead
<1>5. /\ DOMAIN pass' = DOMAIN pass /\ \A f \in DOMAIN pass \ {"pc", "queue"} : pass'[f] = pass[f]
      /\ IF pass.phase = "history" THEN pass'.pc = "checkpoint" /\ pass'.queue = pass.queue
                                   ELSE pass'.pc = "item" /\ pass'.queue = Rest
  BY <1>1, <1>2 DEF AtWork
<1>6. /\ GoesOn /\ pass'.cur = pass.cur /\ pass'.pend = pass.pend /\ pass'.compl = pass.compl
      /\ pass'.whole = pass.whole /\ pass'.batch = pass.batch
  BY <1>1, <1>2, <1>4, <1>5 DEF GoesOn, AtWork, store, Works
<1>7. UNCHANGED <<server, rows, box, marker, journal, docs, due, bypassed>> /\ (pass'.pc = "checkpoint" => Head1' = Head1)
  BY <1>1, <1>5 DEF store, Head1, FetchedFirst, Stubs
<1>8. Flow' /\ Places'
  BY <1>1, <1>2, <1>4, <1>5, <1>6, <1>7 DEF Flow, Places, GoesOn, Works, Plans, Fetches, Inside
<1>9. Taking'
  <2>1. Taken(u) /\ \A v : (Taken(v) => Taken(v)') /\ (Queued(v) => Queued(v)' \/ v = u)
    BY <1>0, <1>1, <1>4, <1>5, <1>6, <1>7 DEF InHand, Inside, Taken, Queued
  <2> QED BY <1>1, <1>5, <1>6, <1>7, <2>1 DEF GoesOn, Taking, UIDs
<1>10. PassJournal' /\ Documented'
  BY <1>1, <1>5, <1>6, <1>7 DEF GoesOn, PassJournal, Documented, Left, UIDs, Works, Ends
<1>11. InHand'
  BY <1>1, <1>5, <1>6, <1>7 DEF GoesOn, InHand, Taken, Inside
<1>12. PassOwes'
  <2>1. \A v \in DOMAIN rows' : Owed(v)' => Owed(v) /\ v \in DOMAIN rows
    BY <1>1, <1>7 DEF Owed
  <2>2. u \in DOMAIN rows /\ rows[u].msg = m
    BY <1>0, <1>1, <1>4 DEF InHand, Inside, Taken, PassAgrees
  <2>3. ASSUME Owed(u), ~pass.rebuild => pass.phase = "history" PROVE ShouldNotify(u)
    <3>1. CASE pass.rebuild
      <4>1. u >= marker.floor /\ marker.floor > 0
        BY <1>2, <2>2, <2>3, <3>1 DEF StoreOwes, StoreGenerations, AtWork, FetchShape
      <4> QED BY <1>2, <3>1, <4>1 DEF ShouldNotify, IsPostRebuildArrival
    <3>2. CASE ~pass.rebuild
      <4>1. pass.start > 0 /\ pass.start \in Nat /\ box.last \in Nat
        BY <1>1, <1>2, <2>2, <2>3, <3>2 DEF PassOwes, AtWork, StoreShape
      <4> QED BY <1>2, <1>4, <3>2, <4>1 DEF ShouldNotify
    <3> QED BY <3>1, <3>2
  <2>4. Owed(u)' => pass.rebuild = FALSE /\ pass.phase # "history"
    <3> SUFFICES ASSUME Owed(u)', ~pass.rebuild => pass.phase = "history" PROVE FALSE
      BY <1>2 DEF AtWork, FetchShape
    <3>1. m \in announced'
      BY <1>1, <1>7, <2>1, <2>2, <2>3
    <3> QED BY <1>7, <2>2, <3>1 DEF Owed
  <2>5. pass.rebuild => \A v \in DOMAIN rows' : ~Owed(v)'
    BY <1>0, <1>1, <2>1, <2>4 DEF PassOwes
  <2>6. ASSUME pass.phase = "history", ~pass.rebuild, NEW v \in DOMAIN rows', Owed(v)'
        PROVE  pass.start > 0 /\ v > pass.pend /\ (\A j \in pass.queue : v < j.uid => Queued(v)) /\ v # u
    BY <1>1, <2>1, <2>4, <2>6 DEF PassOwes
  <2>7. pass.phase = "history" => pass'.queue = pass.queue /\ Head1'.uid = u /\ \A v : Queued(v)' <=> Queued(v)
    BY <1>0, <1>5, <1>7 DEF Queued
  <2> QED BY <1>5, <1>6, <2>5, <2>6, <2>7, GoesOnKept DEF GoesOn, PassOwes, Ends
<1> QED BY <1>3, <1>6, <1>8, <1>9, <1>10, <1>11, <1>12, GoesOnKept DEF MailInv, PassInv

\* The checkpoint moves behind a complete import alone, another is left to the end of the batch.
LEMMA CheckpointKept == ASSUME MailInv, Oversized = {}, Checkpoint PROVE MailInv'
<1> /\ StoreInv /\ PassInv /\ ServerShape /\ StoreShape /\ StoreGenerations /\ StoreAgrees /\ StoreJournal /\ StoreOwes
    /\ CheckpointCovered /\ CompletedIsIndexed /\ UnsentChangeKept
    /\ PassShape /\ PassGenerations /\ PassAgrees /\ Flow /\ Places /\ Taking /\ InHand /\ PassJournal /\ Documented /\
          PassOwes
  BY DEF MailInv, StoreInv, PassInv
<1>0. PICK u : u = Head1.uid
  OBVIOUS
<1>1. /\ pass.pc = "checkpoint" /\ pass.pc \in Works /\ UNCHANGED <<server, rows, marker, journal, docs, ghosts, oper>>
      /\ pass.phase = "history" /\ pass.queue # {}
  BY DEF Checkpoint, Works, Flow, Inside
<1>2. /\ AtWork(pass) /\ pass.gen = box.gen /\ oper = "idle" /\ pass.start <= box.last /\ pass.cur = box.last
      /\ (pass.rebuild <=> marker.target = pass.gen)
  BY <1>1 DEF PassShape, PassGenerations, Places, StoreGenerations, NoPass
<1>3. /\ box' = IF pass.whole THEN Advanced(u) ELSE box
      /\ pass' = AfterImport(u)
  BY <1>0, <1>2 DEF Checkpoint, MayAdvance
<1>4. /\ Head1 \in pass.queue /\ Rest \subseteq pass.queue /\ u > box.last /\ u > pass.pend /\ u \in Nat \ {0}
      /\ \A j \in pass.queue : j = Head1 \/ j \in Rest
      /\ \A j \in Rest : j.uid > u /\ j.uid \in Nat
      /\ \A v : Queued(v) => v >= u
  BY <1>0, <1>1, <1>2, TheHead
<1>5. u \in DOMAIN rows /\ (rows[u].done \/ u \in pass.compl) /\ rows[u].msg = Head1.msg
  BY <1>0, <1>1, <1>4 DEF InHand, Inside, Taken, PassAgrees
<1>6. IF pass.whole THEN pass.compl = {} ELSE pass.pend # 0 \/ ~rows[u].done
  BY <1>0, <1>1 DEF InHand
<1>7. pass.rebuild => pass.whole
  <2>1. pass.rebuild => pass.compl = {} /\ pass.pend = 0
    BY <1>1 DEF InHand, Flow
  <2> QED BY <1>5, <1>6, <2>1
<1>8. ASSUME pass.gen = server.gen, NEW v \in UIDs(server), v <= u PROVE Taken(v) /\ rows[v].msg = server.mail[v]
  <2>1. v \in Nat
    BY DEF ServerShape
  <2>2. Taken(v)
    <3>1. CASE v = u
      BY <1>5, <3>1 DEF Taken
    <3>2. CASE v < u
      <4>1. Taken(v) \/ Queued(v)
        BY <1>0, <1>1, <1>4, <1>8, <3>2 DEF Taking
      <4> QED BY <1>4, <2>1, <3>2, <4>1
    <3> QED BY <1>4, <1>8, <2>1, <3>1, <3>2
  <2> QED BY <1>2, <1>8, <2>2 DEF Taken, StoreAgrees
<1>9. \A v \in DOMAIN rows : Owed(v) => ~pass.rebuild /\ v > u /\ pass.start > 0
  <2> SUFFICES ASSUME NEW v \in DOMAIN rows, Owed(v) PROVE ~pass.rebuild /\ v > u /\ pass.start > 0
    OBVIOUS
  <2>1. ~pass.rebuild /\ pass.start > 0 /\ v # u /\ v \in Nat
    BY <1>0, <1>1 DEF PassOwes, StoreShape
  <2>2. v < u => Queued(v)
    BY <1>0, <1>1, <1>4, <2>1 DEF PassOwes
  <2> QED BY <1>4, <2>1, <2>2
<1>10. /\ DOMAIN pass' = DOMAIN pass /\ pass'.pc = "item" /\ pass'.queue = Rest
       /\ \A f \in DOMAIN pass \ {"pc", "queue", "cur", "pend"} : pass'[f] = pass[f]
       /\ pass'.cur = (IF pass.whole THEN u ELSE pass.cur)
       /\ pass'.pend = (IF pass.whole THEN 0 ELSE IF Exists(u) THEN pass.pend ELSE u)
  <2>1. CASE pass.whole
    BY <1>2, <1>3, <2>1 DEF AfterImport, AtWork
  <2>2. CASE ~pass.whole
    BY <1>2, <1>3, <2>2 DEF AfterImport, AtWork
  <2> QED BY <2>1, <2>2
<1>11. Exists(u) <=> rows[u].done
  BY <1>2, <1>5 DEF Exists, InGeneration, StoreShape
<1>12. /\ DOMAIN box' = DOMAIN box /\ box'.gen = box.gen /\ box'.last = (IF pass.whole THEN u ELSE box.last)
       /\ box'.last = pass'.cur /\ box'.last \in Nat /\ box.last <= box'.last /\ box'.last <= u
  <2>1. CASE pass.whole
    <3>1. Max({box.last, u}) = u
      BY <1>4, LargerOfTwo DEF StoreShape
    <3>2. box' = [box EXCEPT !.last = u]
      BY <1>3, <2>1, <3>1 DEF Advanced
    <3> QED BY <1>4, <1>10, <2>1, <3>2 DEF StoreShape
  <2>2. CASE ~pass.whole
    BY <1>2, <1>3, <1>4, <1>10, <2>2 DEF StoreShape
  <2> QED BY <2>1, <2>2
<1>13. /\ GoesOn /\ pass'.compl = pass.compl /\ pass'.whole = pass.whole /\ pass'.batch = pass.batch
       /\ UNCHANGED <<server, rows, marker, journal, docs, announced, due, bypassed, unsent>>
  <2>1. pass'.cur \in Nat /\ pass'.pend \in Nat
    BY <1>2, <1>4, <1>10 DEF AtWork
  <2> QED BY <1>1, <1>2, <1>4, <1>10, <1>12, <2>1 DEF GoesOn, AtWork, ghosts, Works
<1>14. StoreInv'
  <2>1. box.gen = server.gen => box'.last < server.next
    BY <1>0, <1>1, <1>2, <1>4, <1>12 DEF StoreGenerations, PassAgrees
  <2>2. ServerShape' /\ StoreShape' /\ StoreGenerations' /\ StoreAgrees' /\ StoreJournal'
    BY <1>1, <1>2, <1>12, <1>13, <2>1
    DEF ServerShape, StoreShape, StoreGenerations, StoreAgrees, StoreJournal, UIDs, AtWork, FetchShape
  <2>3. CheckpointCovered'
    <3> SUFFICES ASSUME box.gen = server.gen, NEW v \in UIDs(server), v <= box'.last
                 PROVE  v \in DOMAIN rows /\ rows[v].msg = server.mail[v] /\ rows[v].done
      BY <1>12, <1>13 DEF CheckpointCovered, UIDs
    <3>1. CASE pass.whole
      BY <1>2, <1>6, <1>8, <1>12, <3>1 DEF Taken
    <3>2. CASE ~pass.whole
      BY <1>12, <3>2 DEF CheckpointCovered
    <3> QED BY <3>1, <3>2
  <2>4. StoreOwes'
    <3>1. \A v \in DOMAIN rows : Owed(v)' => Owed(v)
      BY <1>13 DEF Owed
    <3>2. \A v \in DOMAIN rows : Owed(v) => v > box'.last /\
             IF marker.target = 0 THEN box'.last > 0 ELSE v >= marker.floor
      BY <1>4, <1>9, <1>12 DEF StoreOwes, StoreShape
    <3> QED BY <1>12, <1>13, <3>1, <3>2 DEF StoreOwes, UIDs
  <2>5. CompletedIsIndexed' /\ UnsentChangeKept'
    BY <1>13 DEF CompletedIsIndexed, UnsentChangeKept
  <2> QED BY <2>2, <2>3, <2>4, <2>5 DEF StoreInv
<1>15. Flow'
  BY <1>1, <1>2, <1>7, <1>10, <1>13 DEF Flow, GoesOn, Inside
<1>16. Places'
  <2>1. \A j \in Rest : j.uid > box'.last /\ j.uid > pass'.pend
    BY <1>2, <1>4, <1>10, <1>12 DEF Places, AtWork, StoreShape
  <2>2. pass'.start <= box'.last
    BY <1>2, <1>12, <1>13 DEF GoesOn, AtWork, StoreShape
  <2> QED BY <1>1, <1>10, <1>12, <1>13, <2>1, <2>2 DEF Places, GoesOn, Plans, Fetches
<1>17. Taking'
  <2>1. \A v : (Taken(v) => Taken(v)') /\ (Queued(v) => Queued(v)' \/ v = u)
    BY <1>0, <1>4, <1>10, <1>13 DEF Taken, Queued
  <2>2. \A v \in UIDs(server) : v \in Nat /\ v > 0
    BY DEF ServerShape
  <2>3. ASSUME pass.gen = server.gen, NEW v \in UIDs(server) PROVE v <= pass'.pend => Taken(v)'
    BY <1>1, <1>8, <1>10, <2>1, <2>2, <2>3 DEF Taking
  <2>4. ASSUME pass.gen = server.gen, NEW v \in UIDs(server), NEW j \in Rest, v < j.uid PROVE Taken(v)' \/ Queued(v)'
    BY <1>1, <1>4, <1>5, <1>8, <2>1, <2>4 DEF Taking, Taken
  <2>5. pass.gen = server.gen => pass'.pend < server.next /\ pass.top < server.next
    BY <1>0, <1>1, <1>4, <1>10 DEF Taking, PassAgrees, ServerShape
  <2> QED BY <1>1, <1>10, <1>13, <2>3, <2>4, <2>5 DEF Taking, GoesOn, UIDs
<1>18. InHand'
  <2>1. pass'.pend = 0 => pass.compl = {}
    BY <1>4, <1>6, <1>10, <1>11
  <2>2. pass.rebuild => pass.compl = {}
    BY <1>1 DEF InHand
  <2> QED BY <1>10, <1>13, <2>1, <2>2 DEF InHand, Inside, GoesOn
<1>19. PassJournal' /\ Documented'
  <2>1. Head1.msg \notin Left
    BY <1>5 DEF StoreJournal, Left
  <2>2. pass.rebuild /\ pass.final => \A m \in Left : \E j \in Rest : j.msg = m
    BY <1>1, <1>4, <2>1 DEF PassJournal
  <2>3. Left' = Left
    BY <1>13 DEF Left
  <2> QED BY <1>1, <1>10, <1>13, <2>2, <2>3 DEF PassJournal, Documented, GoesOn, Ends
<1>20. PassOwes'
  <2>1. \A v \in DOMAIN rows' : Owed(v)' => Owed(v) /\ v \in DOMAIN rows
    BY <1>13 DEF Owed
  <2>2. ASSUME NEW v \in DOMAIN rows, Owed(v)
        PROVE  ~pass.rebuild /\ pass.start > 0 /\ v > pass'.pend /\ \A j \in Rest : v < j.uid => Queued(v)'
    <3>1. ~pass.rebuild /\ v > u /\ pass.start > 0 /\ v > pass.pend /\ v \in Nat
      BY <1>1, <1>9, <2>2 DEF PassOwes, StoreShape
    <3>2. \A j \in Rest : v < j.uid => Queued(v)'
      BY <1>0, <1>1, <1>4, <1>10, <2>2, <3>1 DEF PassOwes, Queued
    <3> QED BY <1>4, <1>10, <3>1, <3>2
  <2> QED BY <1>10, <1>13, <2>1, <2>2, GoesOnKept DEF GoesOn, PassOwes, Ends
<1> QED BY <1>13, <1>14, <1>15, <1>16, <1>17, <1>18, <1>19, <1>20, GoesOnKept DEF MailInv, PassInv

-----------------------------------------------------------------------------
(* The end of a phase and the next one *)

\* A phase is done when every item was handled.
LEMMA PhaseDoneKept == ASSUME MailInv, PhaseDone PROVE MailInv'
<1> /\ StoreInv /\ PassInv /\ StoreGenerations
    /\ PassShape /\ PassGenerations /\ Flow /\ Places /\ Taking /\ InHand /\ PassJournal /\ Documented /\ PassOwes
  BY DEF MailInv, StoreInv, PassInv
<1>1. /\ pass.pc = "item" /\ pass.pc \in Works /\ pass.queue = {} /\ UNCHANGED <<server, store, docs, ghosts, oper>>
      /\ pass' = NoPass \/ pass' = [pass EXCEPT !.pc = IF pass.phase = "history" /\
            pass.rebuild THEN "refresh" ELSE "flush"]
  BY DEF PhaseDone, Ascends, Works
<1>2. AtWork(pass) /\ oper = "idle"
  BY <1>1 DEF PassShape, StoreGenerations, NoPass
<1>3. StoreInv'
  BY <1>1, <1>2, StoreStays DEF StoreKeeps, store, ghosts
<1>4. CASE pass' = NoPass
  BY <1>3, <1>4, NobodyWorks DEF MailInv
<1>5. CASE pass' = [pass EXCEPT !.pc = IF pass.phase = "history" /\ pass.rebuild THEN "refresh" ELSE "flush"]
  <2>1. /\ DOMAIN pass' = DOMAIN pass /\ \A f \in DOMAIN pass \ {"pc"} : pass'[f] = pass[f]
        /\ pass'.pc = IF pass.phase = "history" /\ pass.rebuild THEN "refresh" ELSE "flush"
    BY <1>2, <1>5 DEF AtWork
  <2>2. /\ GoesOn /\ pass'.queue = {} /\ pass'.cur = pass.cur /\ pass'.pend = pass.pend /\ pass'.compl = pass.compl
        /\ pass'.batch = pass.batch /\ pass'.whole = pass.whole /\ pass'.pc \in {"refresh", "flush"}
    BY <1>1, <1>2, <2>1 DEF GoesOn, AtWork, store, ghosts, Works
  <2>3. UNCHANGED <<server, rows, box, marker, journal, docs, due, announced, bypassed>>
    BY <1>1 DEF store, ghosts
  <2>4. Flow' /\ Places'
    BY <1>1, <2>1, <2>2, <2>3 DEF Flow, Places, GoesOn, Works, Plans, Fetches, Inside
  <2>5. Taking' /\ PassJournal'
    BY <1>1, <2>2, <2>3 DEF GoesOn, Taking, Taken, Queued, PassJournal, Left, UIDs, Works, Ends
  <2>6. InHand' /\ Documented'
    BY <1>1, <2>2, <2>3 DEF GoesOn, InHand, Documented, Inside
  <2>7. PassOwes'
    BY <1>1, <2>2, <2>3, GoesOnKept DEF GoesOn, PassOwes, Owed, Queued
  <2> QED BY <1>3, <2>2, <2>4, <2>5, <2>6, <2>7, GoesOnKept DEF MailInv, PassInv
<1> QED BY <1>1, <1>4, <1>5

\* The next fetch of a rebuild, of the snapshot or of the newest page.
LEMMA NextPhase ==
    ASSUME MailInv, pass.pc \in {"history", "refresh"}, box.gen = server.gen, NEW S, S \subseteq UIDs(server),
           UNCHANGED <<server, store, docs, ghosts, oper>>, \A u \in S : u > box.last,
           DOMAIN pass' = DOMAIN pass, pass'.pc = "item", pass'.queue = Items(S), pass'.phase \in {"history", "refresh"},
           \A f \in {"gen", "start", "wasEmpty", "floor", "rebuild", "cur", "batch", "compl", "pend", "whole",
              "top"} : pass'[f] = pass[f],
           pass'.final \in BOOLEAN, pass'.snap \in {pass.snap, {}},
           pass'.phase = "history" =>
              /\ \A u \in UIDs(server), i \in Items(S) : u < i.uid => u \in S \/ (u \in DOMAIN rows /\ rows[u].done)
              /\ pass'.final => \A m \in Left : \E i \in Items(S) : i.msg = m,
           pass'.phase = "refresh" /\ pass'.final => Left = {}
    PROVE  MailInv'
<1> /\ StoreInv /\ PassInv /\ ServerShape /\ StoreShape /\ StoreGenerations
    /\ PassShape /\ PassGenerations /\ Flow /\ Places /\ Taking /\ InHand /\ PassJournal /\ Documented /\ PassOwes
  BY DEF MailInv, StoreInv, PassInv
<1>1. /\ AtWork(pass) /\ pass.gen = box.gen /\ oper = "idle" /\ pass.cur = box.last /\ pass.start <= box.last /\
            pass.pend = 0
      /\ pass.pc \in Works /\ pass.pc \notin {"index", "complete", "record"}
      /\ pass.rebuild /\ pass.compl = {} /\ (pass.rebuild <=> marker.target = pass.gen) /\ pass.floor = marker.floor
  BY DEF PassShape, PassGenerations, Places, Flow, InHand, Works, StoreGenerations, NoPass
<1>2. StoreInv'
  BY <1>1, StoreStays DEF StoreKeeps, store, ghosts
<1>3. UNCHANGED <<server, rows, box, marker, journal, docs, due, announced, bypassed>>
  BY DEF store, ghosts
<1>4. /\ PassAgrees'
      /\ \A i \in pass'.queue : i.uid \in Nat \ {0} /\ i.msg \in 1..server'.count /\ i.uid \in S
      /\ \A i \in pass'.queue : <<box'.gen, i.uid>> \in due' => i.uid \in DOMAIN rows'
      /\ \A u \in S : Queued(u)'
  BY <1>1, <1>3, FetchedAgree
<1>5. /\ pass'.gen = pass.gen /\ pass'.start = pass.start /\ pass'.floor = pass.floor /\ pass'.rebuild = pass.rebuild
      /\ pass'.cur = pass.cur /\ pass'.compl = {} /\ pass'.pend = 0 /\ pass'.whole = pass.whole /\
            pass'.batch = pass.batch
      /\ pass'.top = pass.top /\ pass'.pc \in Works /\
            pass'.pc \notin {"none", "status"} \cup Plans \cup Fetches \cup Ends \cup Inside
  BY <1>1 DEF Works, Plans, Fetches, Ends, Inside
<1>6. PassShape'
  <2>1. pass'.snap \subseteq Nat /\ IsFiniteSet(pass'.snap)
    BY <1>1, FS_EmptySet DEF AtWork
  <2>2. AtWork(pass)'
    BY <1>1, <1>4, <1>5, <2>1 DEF AtWork, FetchShape
  <2> QED BY <1>5, <2>2 DEF PassShape
<1>7. PassGenerations' /\ Flow' /\ Documented' /\ InHand'
  BY <1>1, <1>3, <1>5 DEF PassGenerations, Flow, Documented, InHand
<1>8. Places'
  BY <1>1, <1>3, <1>4, <1>5 DEF Places
<1>9. Taking'
  <2>1. \A u \in UIDs(server) : u \in Nat /\ u > 0
    BY DEF ServerShape
  <2>2. pass'.top < server.next /\ pass'.pend < server.next
    BY <1>1, <1>5 DEF Taking
  <2>3. pass'.phase = "history" => \A u \in UIDs(server), i \in pass'.queue : u < i.uid => Taken(u)' \/ Queued(u)'
    BY <1>3, <1>4 DEF Taken
  <2> QED BY <1>3, <1>5, <2>1, <2>2, <2>3 DEF Taking, UIDs
<1>10. PassJournal'
  <2>1. Left' = Left
    BY <1>3 DEF Left
  <2> QED BY <1>5, <2>1 DEF PassJournal
<1>11. PassOwes'
  <2>1. \A u \in DOMAIN rows' : ~Owed(u)'
    BY <1>1, <1>3 DEF PassOwes, Owed
  <2> QED BY <1>4, <2>1 DEF PassOwes
<1> QED BY <1>2, <1>4, <1>6, <1>7, <1>8, <1>9, <1>10, <1>11 DEF MailInv, PassInv

\* A turn takes the oldest UIDs above the checkpoint, and the final one all that the journal waits for.
LEMMA SnapshotBatchKept == ASSUME MailInv, FetchSnapshotBatch PROVE MailInv'
<1> /\ StoreInv /\ PassInv /\ ServerShape /\ StoreShape /\ StoreGenerations /\ StoreJournal /\ StoreAgrees /\
          CheckpointCovered
    /\ PassShape /\ PassGenerations /\ Flow /\ Places /\ Taking /\ PassJournal
  BY DEF MailInv, StoreInv, PassInv
<1> DEFINE turn == Oldest(AfterStart)
           S == turn \cap UIDs(server)
<1>1. /\ pass.pc = "history" /\ pass.pc \in Works /\ UNCHANGED <<server, store, docs, ghosts, oper>>
      /\ pass' = IF server.gen # pass.gen THEN NoPass
                 ELSE [pass EXCEPT !.pc = "item", !.phase = "history", !.queue = Items(S),
                                   !.bad = ~(turn \subseteq UIDs(server)), !.final = turn = AfterStart, !.snap = {}]
  BY DEF FetchSnapshotBatch, Works
<1>2. AtWork(pass) /\ pass.gen = box.gen /\ oper = "idle" /\ pass.start = box.last /\ pass.phase = "prewarm" /\
         pass.rebuild
  BY <1>1 DEF PassShape, PassGenerations, Places, Flow, StoreGenerations, NoPass
<1>3. StoreInv'
  BY <1>1, <1>2, StoreStays DEF StoreKeeps, store, ghosts
<1>4. CASE server.gen # pass.gen
  BY <1>1, <1>3, <1>4, NobodyWorks DEF MailInv
<1>5. CASE server.gen = pass.gen
  <2>1. /\ pass' = [pass EXCEPT !.pc = "item", !.phase = "history", !.queue = Items(S),
                                !.bad = ~(turn \subseteq UIDs(server)), !.final = turn = AfterStart, !.snap = {}]
    BY <1>1, <1>5
  <2>2. /\ AfterStart \subseteq pass.snap /\ IsFiniteSet(AfterStart) /\ AfterStart \subseteq Nat
        /\ \A v \in turn : v \in AfterStart
        /\ \A v \in S : v \in turn /\ v \in UIDs(server) /\ v \in AfterStart /\ v > box.last
    <3>1. AfterStart \subseteq pass.snap
      BY DEF AfterStart
    <3>2. IsFiniteSet(AfterStart) /\ AfterStart \subseteq Nat
      BY <1>2, <3>1, FS_Subset DEF AtWork
    <3> QED BY <1>2, <3>1, <3>2 DEF AfterStart, Oldest
  <2>3. \A u \in UIDs(server) : u \in Nat /\ (u <= box.last => u \in DOMAIN rows /\ rows[u].done /\
           rows[u].msg = server.mail[u])
    BY <1>2, <1>5 DEF CheckpointCovered, ServerShape
  <2>4. ASSUME NEW u \in UIDs(server), NEW v \in S, u < v PROVE u \in S \/ (u \in DOMAIN rows /\ rows[u].done)
    <3>1. CASE u <= box.last
      BY <2>3, <3>1
    <3>2. CASE ~(u <= box.last)
      <4>1. u \in pass.snap
        BY <1>1, <1>2, <1>5, <2>2, <2>4 DEF Taking
      <4>2. u \in AfterStart
        BY <1>2, <2>3, <3>2, <4>1 DEF AfterStart, StoreShape
      <4>3. u \in turn
        BY <2>2, <2>4, <4>2, OldestAreBelow
      <4> QED BY <4>3
    <3> QED BY <3>1, <3>2
  <2>5. ASSUME turn = AfterStart, NEW m \in Left PROVE \E v \in S : server.mail[v] = m
    <3>1. PICK v \in UIDs(server) : server.mail[v] = m
      BY <2>5 DEF Left, Range, UIDs
    <3>2. v \in pass.snap /\ m \in DOMAIN journal
      BY <1>1, <1>2, <1>5, <2>5, <3>1 DEF PassJournal, Left
    <3>3. ~(v <= box.last)
      BY <2>3, <3>1, <3>2 DEF StoreJournal
    <3>4. v \in AfterStart
      BY <1>2, <2>3, <3>2, <3>3 DEF AfterStart, StoreShape
    <3> QED BY <2>5, <3>1, <3>4
  <2>6. /\ DOMAIN pass' = DOMAIN pass /\ pass'.pc = "item" /\ pass'.queue = Items(S) /\ pass'.phase = "history" /\
              pass'.snap = {}
        /\ \A f \in {"gen", "start", "wasEmpty", "floor", "rebuild", "cur", "batch", "compl", "pend", "whole",
              "top"} : pass'[f] = pass[f]
        /\ pass'.final = (turn = AfterStart)
    BY <1>2, <2>1 DEF AtWork
  <2>7. S \subseteq UIDs(server)
    OBVIOUS
  <2> HIDE DEF turn
  <2> HIDE DEF S
  <2>8. \A u \in UIDs(server), i \in Items(S) : u < i.uid => u \in S \/ (u \in DOMAIN rows /\ rows[u].done)
    BY <2>4, <2>7, ItemsOf
  <2>9. turn = AfterStart => \A m \in Left : \E i \in Items(S) : i.msg = m
    <3> SUFFICES ASSUME turn = AfterStart, NEW m \in Left PROVE \E i \in Items(S) : i.msg = m
      OBVIOUS
    <3>1. PICK v \in S : server.mail[v] = m
      BY <2>5
    <3> QED BY <2>7, <3>1, ItemsOf
  <2>10. pass'.final \in BOOLEAN /\ (pass'.final => turn = AfterStart) /\ \A u \in S : u > box.last
    BY <2>2, <2>6
  <2> QED BY <1>1, <1>2, <1>5, <2>6, <2>7, <2>8, <2>9, <2>10, NextPhase
<1> QED BY <1>4, <1>5

\* The newest page again, which must come in the final turn.
LEMMA RefreshKept == ASSUME MailInv, RefreshNewest PROVE MailInv'
<1> /\ StoreInv /\ PassInv /\ ServerShape /\ StoreShape /\ StoreGenerations
    /\ PassShape /\ PassGenerations /\ Flow /\ Places /\ Taking /\ InHand /\ PassJournal /\ Documented /\ PassOwes
  BY DEF MailInv, StoreInv, PassInv
<1>1. /\ pass.pc = "refresh" /\ pass.pc \in Works /\ UNCHANGED <<server, store, docs, ghosts, oper>>
  BY DEF RefreshNewest, Works
<1>2. AtWork(pass) /\ pass.gen = box.gen /\ oper = "idle" /\ pass.phase = "history" /\ pass.rebuild /\
         pass.queue = {} /\ pass.pend = 0
  BY <1>1 DEF PassShape, PassGenerations, Flow, StoreGenerations, NoPass
<1>3. PICK fetched \in BOOLEAN :
         /\ pass.final \/ server.gen # pass.gen => fetched = pass.final
         /\ pass' = IF fetched /\ server.gen # pass.gen THEN NoPass
                    ELSE [pass EXCEPT !.pc = "item", !.phase = "refresh",
                                      !.queue = Items(IF fetched THEN Newest(UIDs(server)) \ Imported ELSE {})]
  BY DEF RefreshNewest
<1>4. StoreInv'
  BY <1>1, <1>2, StoreStays DEF StoreKeeps, store, ghosts
<1>5. CASE fetched /\ server.gen # pass.gen
  BY <1>3, <1>4, <1>5, NobodyWorks DEF MailInv
<1>6. CASE ~(fetched /\ server.gen # pass.gen)
  <2> DEFINE S == IF fetched THEN Newest(UIDs(server)) \ Imported ELSE {}
  <2>1. S \subseteq UIDs(server) /\ (S = {} \/ server.gen = pass.gen) /\ S \subseteq UIDs(server) \ Imported
    BY <1>6 DEF Newest
  <2>2. pass' = [pass EXCEPT !.pc = "item", !.phase = "refresh", !.queue = Items(S)]
    BY <1>3, <1>6
  <2> HIDE DEF S
  <2>3. /\ DOMAIN pass' = DOMAIN pass /\ pass'.pc = "item" /\ pass'.queue = Items(S) /\ pass'.phase = "refresh"
        /\ \A f \in {"gen", "start", "wasEmpty", "floor", "rebuild", "cur", "batch", "compl", "pend", "whole", "top",
              "final", "snap"} : pass'[f] = pass[f]
    BY <1>2, <2>2 DEF AtWork
  <2>4. pass.final => Left = {}
    <3>1. pass.final => \A m \in Left : \E i \in pass.queue : i.msg = m
      BY <1>1, <1>2 DEF PassJournal
    <3> QED BY <1>2, <3>1
  <2>5. CASE server.gen = pass.gen
    <3>1. \A u \in S : u > box.last
      BY <1>2, <2>1, <2>5, ImportedBelow
    <3>2. pass'.final = pass.final /\ pass'.snap = pass.snap /\ pass.final \in BOOLEAN
      BY <1>2, <2>3 DEF AtWork
    <3> QED BY <1>1, <1>2, <2>1, <2>3, <2>4, <2>5, <3>1, <3>2, NextPhase
  <2>6. CASE server.gen # pass.gen
    <3>1. S = {} /\ pass'.queue = {}
      BY <2>1, <2>3, <2>6 DEF Items
    <3>2. UNCHANGED <<server, rows, box, marker, journal, docs, due, announced, bypassed>>
      BY <1>1 DEF store, ghosts
    <3>3. /\ pass'.gen = pass.gen /\ pass'.start = pass.start /\ pass'.floor = pass.floor /\ pass'.rebuild = pass.rebuild
          /\ pass'.cur = pass.cur /\ pass'.compl = pass.compl /\ pass'.pend = 0 /\ pass'.whole = pass.whole /\
                pass'.batch = pass.batch
          /\ pass'.top = pass.top /\ pass'.final = pass.final /\ pass'.snap = pass.snap
          /\ pass'.pc \in Works /\ pass'.pc \notin {"none", "status"} \cup Plans \cup Fetches \cup Ends \cup Inside
      BY <1>2, <2>3 DEF Works, Plans, Fetches, Ends, Inside
    <3>4. PassShape'
      <4>1. AtWork(pass)'
        BY <1>2, <2>3, <3>1, <3>3 DEF AtWork, FetchShape
      <4> QED BY <3>3, <4>1 DEF PassShape
    <3>5. PassGenerations' /\ Flow' /\ Places' /\ Documented' /\ InHand' /\ PassAgrees'
      BY <1>1, <1>2, <2>3, <3>1, <3>2, <3>3 DEF PassGenerations, Flow, Places, Documented, InHand, PassAgrees
    <3>6. Taking'
      BY <2>3, <2>6, <3>2, <3>3 DEF Taking
    <3>7. PassJournal'
      <4>1. Left' = Left
        BY <3>2 DEF Left
      <4> QED BY <2>3, <2>4, <3>3, <4>1 DEF PassJournal
    <3>8. PassOwes'
      BY <1>1, <1>2, <2>3, <3>1, <3>2, <3>3 DEF PassOwes, Owed
    <3> QED BY <1>4, <3>4, <3>5, <3>6, <3>7, <3>8 DEF MailInv, PassInv
  <2> QED BY <2>5, <2>6
<1> QED BY <1>5, <1>6

\* The end of a phase commits the documents that are left.
LEMMA FlushKept == ASSUME MailInv, FlushSearchBatch PROVE MailInv'
<1> /\ StoreInv /\ PassInv /\ StoreShape /\ StoreGenerations
    /\ PassShape /\ PassGenerations /\ Flow /\ Places /\ Taking /\ InHand /\ PassJournal /\ Documented /\ PassOwes
  BY DEF MailInv, StoreInv, PassInv
<1>1. /\ pass.pc = "flush" /\ pass.pc \in Works /\ UNCHANGED <<server, store, ghosts, oper>>
      /\ docs' = docs \cup Documents(pass.batch)
      /\ pass' = [pass EXCEPT !.pc = IF pass.phase = "prewarm" THEN "history" ELSE "finish", !.batch = {}]
  BY DEF FlushSearchBatch, Works
<1>2. AtWork(pass) /\ pass.gen = box.gen /\ oper = "idle"
  BY <1>1 DEF PassShape, PassGenerations, StoreGenerations, NoPass
<1>3. StoreInv'
  BY <1>1, <1>2, StoreStays DEF StoreKeeps, store, ghosts
<1>4. /\ pass'.pc = (IF pass.phase = "prewarm" THEN "history" ELSE "finish") /\ pass'.batch = {} /\
            DOMAIN pass' = DOMAIN pass
      /\ \A f \in DOMAIN pass \ {"pc", "batch"} : pass'[f] = pass[f]
  BY <1>1, <1>2 DEF AtWork
<1>5. /\ GoesOn /\ pass'.queue = pass.queue /\ pass'.cur = pass.cur /\ pass'.pend = pass.pend /\ pass'.compl = pass.compl
      /\ pass'.whole = pass.whole /\ pass'.pc \in {"history", "finish"}
  BY <1>1, <1>2, <1>4 DEF GoesOn, AtWork, store, ghosts, Works
<1>6. UNCHANGED <<server, rows, box, marker, journal, due, announced, bypassed>>
  BY <1>1 DEF store, ghosts
<1>7. Flow' /\ Places'
  BY <1>1, <1>4, <1>5, <1>6 DEF Flow, Places, GoesOn, Works, Plans, Fetches, Inside
<1>8. Taking' /\ PassJournal'
  BY <1>1, <1>5, <1>6 DEF GoesOn, Taking, Taken, Queued, PassJournal, Left, UIDs, Works, Ends
<1>9. InHand'
  BY <1>1, <1>5, <1>6 DEF GoesOn, InHand, Inside
<1>10. Documented'
  <2>1. pass.gen = 1 => \A u \in pass.compl \cap DOMAIN rows : <<1, u>> \in docs'
    BY <1>1, DocumentsOfBatch DEF Documented
  <2> QED BY <1>1, <1>4, <1>5, <1>6, <2>1 DEF Documented, GoesOn
<1>11. PassOwes'
  BY <1>1, <1>5, <1>6, GoesOnKept DEF GoesOn, PassOwes, Owed, Queued
<1> QED BY <1>3, <1>5, <1>7, <1>8, <1>9, <1>10, <1>11, GoesOnKept DEF MailInv, PassInv

\* The imports that waited for them are complete.
LEMMA FinishKept == ASSUME MailInv, FinishImports PROVE MailInv'
<1> /\ StoreInv /\ PassInv /\ StoreShape /\ StoreGenerations
    /\ PassShape /\ PassGenerations /\ Flow /\ Places /\ Taking /\ InHand /\ PassJournal /\ Documented /\ PassOwes
  BY DEF MailInv, StoreInv, PassInv
<1>1. /\ pass.pc = "finish" /\ pass.pc \in Works /\ UNCHANGED <<server, box, marker, journal, docs, ghosts, oper>>
      /\ rows' = MarkCompleted(pass.compl) /\ pass' = [pass EXCEPT !.pc = "advance", !.compl = {}]
  BY DEF FinishImports, Works
<1>2. AtWork(pass) /\ pass.gen = box.gen
  BY <1>1 DEF PassShape, PassGenerations
<1>3. \A u \in pass.compl \cap DOMAIN rows : marker.target = 0 /\ pass.gen = 1 => <<1, u>> \in docs
  BY <1>1 DEF Documented
<1>4. /\ StoreInv' /\ DOMAIN rows' = DOMAIN rows /\ \A u \in DOMAIN rows : rows'[u].msg = rows[u].msg /\
            rows'[u].gen = rows[u].gen
      /\ \A u \in DOMAIN rows : rows'[u].done <=> rows[u].done \/ u \in pass.compl
  BY <1>1, <1>3, CompletionKept
<1>5. /\ pass'.pc = "advance" /\ pass'.compl = {} /\ DOMAIN pass' = DOMAIN pass
      /\ \A f \in DOMAIN pass \ {"pc", "compl"} : pass'[f] = pass[f]
  BY <1>1, <1>2 DEF AtWork
<1>6. /\ GoesOn /\ pass'.queue = pass.queue /\ pass'.cur = pass.cur /\ pass'.pend = pass.pend /\ pass'.batch = pass.batch
      /\ pass'.whole = pass.whole
  BY <1>1, <1>2, <1>4, <1>5 DEF GoesOn, AtWork, ghosts, Works
<1>7. UNCHANGED <<server, box, marker, journal, docs, due, announced, bypassed>>
  BY <1>1 DEF ghosts
<1>8. Flow' /\ Places'
  BY <1>1, <1>5, <1>6, <1>7 DEF Flow, Places, GoesOn, Works, Plans, Fetches, Inside
<1>9. \A u : Taken(u) => Taken(u)'
  BY <1>4, <1>5 DEF Taken
<1>10. Taking' /\ PassJournal'
  BY <1>1, <1>5, <1>6, <1>7, <1>9 DEF GoesOn, Taking, Queued, PassJournal, Left, UIDs, Works, Ends
<1>11. InHand' /\ Documented'
  BY <1>1, <1>5, <1>6, <1>7 DEF GoesOn, InHand, Documented, Inside
<1>12. PassOwes'
  <2>1. \A u \in DOMAIN rows' : Owed(u)' => Owed(u) /\ u \in DOMAIN rows
    BY <1>4, <1>7 DEF Owed
  <2> QED BY <1>1, <1>4, <1>5, <1>6, <1>7, <2>1, GoesOnKept DEF GoesOn, PassOwes, Queued
<1> QED BY <1>4, <1>6, <1>8, <1>10, <1>11, <1>12, GoesOnKept DEF MailInv, PassInv

-----------------------------------------------------------------------------
(* The end of a pass *)

\* A pass that has nothing left to import.
LEMMA Ending ==
    ASSUME pass'.pc \in Ends, pass'.gen = box'.gen, box'.gen \in Nat \ {0}, pass'.rebuild \in BOOLEAN,
           {"pc", "gen", "start", "wasEmpty", "floor", "rebuild"} \subseteq DOMAIN pass',
           pass'.rebuild <=> marker'.target = pass'.gen, pass'.rebuild => pass'.floor = marker'.floor,
           pass'.rebuild => Left' = {} /\ \A u \in DOMAIN rows' : ~Owed(u)'
    PROVE  PassInv'
<1>1. pass'.pc \notin Works \cup Fetches \cup Plans \cup {"status", "none", "purge", "pending"} \cup {"replay",
         "snapshot", "fetch", "repair"}
  BY DEF Fetches, Works, Ends, Plans
<1>2. PassShape' /\ PassGenerations' /\ Flow' /\ Places'
  BY <1>1 DEF PassShape, FetchShape, PassGenerations, Flow, Places, Fetches
<1>3. PassAgrees' /\ Taking' /\ InHand' /\ PassJournal' /\ Documented' /\ PassOwes'
  BY <1>1 DEF PassAgrees, Taking, InHand, PassJournal, Documented, PassOwes
<1> QED BY <1>2, <1>3 DEF PassInv

\* The last checkpoint passes complete imports only.
LEMMA FinalKept == ASSUME MailInv, FinalCheckpoint PROVE MailInv'
<1> /\ StoreInv /\ PassInv /\ ServerShape /\ StoreShape /\ StoreGenerations /\ StoreAgrees /\ StoreJournal /\ StoreOwes
    /\ CheckpointCovered /\ CompletedIsIndexed /\ UnsentChangeKept
    /\ PassShape /\ PassGenerations /\ PassAgrees /\ Flow /\ Places /\ Taking /\ InHand /\ PassJournal /\ Documented /\
          PassOwes
  BY DEF MailInv, StoreInv, PassInv
<1>0. PICK to : to = IF pass.phase = "repair" THEN pass.top ELSE pass.pend
  OBVIOUS
<1>1. /\ pass.pc = "advance" /\ pass.pc \in Works /\
            UNCHANGED <<server, rows, marker, journal, docs, announced, due, unsent, oper>>
      /\ pass.queue = {} /\ pass.compl = {} /\ pass.phase # "prewarm"
  BY DEF FinalCheckpoint, Works, Flow, InHand
<1>2. /\ AtWork(pass) /\ FetchShape(pass) /\ pass.gen = box.gen /\ oper = "idle" /\ pass.start <= box.last /\
            pass.cur = box.last
      /\ (pass.rebuild <=> marker.target = pass.gen) /\ (pass.rebuild => pass.floor = marker.floor)
      /\ (pass.phase = "repair" => pass.start = box.last) /\ to \in Nat
  BY <1>0, <1>1 DEF PassShape, PassGenerations, Places, StoreGenerations, NoPass, AtWork
<1>3. \/ to > box.last /\ box' = Advanced(to)
      \/ ~(to > box.last) /\ box' = box
  BY <1>0, <1>2 DEF FinalCheckpoint
<1>4. DOMAIN box' = DOMAIN box /\ box'.gen = box.gen /\ box'.last = Max({box.last, to}) /\ box'.last \in Nat
      /\ (box'.last = box.last \/ (box'.last = to /\ to > box.last)) /\ box.last <= box'.last
  <2>1. Max({box.last, to}) \in {box.last, to} /\ box.last <= Max({box.last, to}) /\ to <= Max({box.last, to})
    BY <1>2, LargerOfTwo DEF StoreShape
  <2>2. CASE to > box.last /\ box' = Advanced(to)
    BY <1>2, <2>1, <2>2 DEF Advanced, StoreShape
  <2>3. CASE ~(to > box.last) /\ box' = box
    BY <1>2, <2>1, <2>3 DEF StoreShape
  <2> QED BY <1>3, <2>2, <2>3
<1>5. /\ bypassed' = IF pass.phase = "repair" /\
            to > box.last THEN bypassed \cup {rows[u].msg : u \in DOMAIN rows} ELSE bypassed
      /\ \/ pass' = NoPass
         \/ pass.phase = "repair" /\ pass' = GoOn("fetch", Max({box.last, to}))
         \/ pass.phase # "repair" /\ (pass.rebuild => pass.final) /\ pass' = GoOn("flags", 0)
  BY <1>0, <1>2 DEF FinalCheckpoint
<1>6. ASSUME pass.gen = server.gen PROVE to < server.next /\ \A u \in UIDs(server) : u <= to => u \in DOMAIN rows /\
         rows[u].done
  BY <1>0, <1>1, <1>6 DEF Taking, Taken, Queued
<1>7. \A u \in DOMAIN rows : Owed(u)' => Owed(u) /\ u > box'.last
  <2> SUFFICES ASSUME NEW u \in DOMAIN rows, Owed(u)' PROVE Owed(u) /\ u > box'.last
    OBVIOUS
  <2>1. Owed(u) /\ u > box.last
    BY <1>1, <1>5 DEF Owed, StoreOwes
  <2>2. CASE box'.last = box.last
    BY <2>1, <2>2
  <2>3. CASE box'.last = to /\ to > box.last
    <3>1. pass.phase # "repair"
      BY <1>1, <1>5, <2>3 DEF Owed
    <3>2. pass.pend > 0 /\ to = pass.pend
      BY <1>0, <1>2, <2>3, <3>1 DEF StoreShape
    <3>3. pass.phase = "history" /\ ~pass.rebuild
      BY <1>1, <3>2 DEF Flow
    <3> QED BY <1>1, <2>1, <2>3, <3>2, <3>3 DEF PassOwes
  <2> QED BY <1>4, <2>2, <2>3
<1>8. StoreInv'
  <2>1. ServerShape' /\ StoreShape' /\ StoreGenerations' /\ StoreAgrees' /\ StoreJournal'
    BY <1>1, <1>2, <1>4, <1>6
    DEF ServerShape, StoreShape, StoreGenerations, StoreAgrees, StoreJournal, UIDs, FetchShape
  <2>2. CheckpointCovered'
    <3> SUFFICES ASSUME box.gen = server.gen, NEW u \in UIDs(server), u <= box'.last
                 PROVE  u \in DOMAIN rows /\ rows[u].msg = server.mail[u] /\ rows[u].done
      BY <1>1, <1>4 DEF CheckpointCovered, UIDs
    <3>1. CASE box'.last = box.last
      BY <3>1 DEF CheckpointCovered
    <3>2. CASE box'.last = to
      BY <1>2, <1>6, <3>2 DEF StoreAgrees
    <3> QED BY <1>4, <3>1, <3>2
  <2>3. StoreOwes'
    <3>1. \A u \in DOMAIN rows : Owed(u)' => Owed(u) /\ u > box'.last
      BY <1>7
    <3>2. box.last > 0 => box'.last > 0
      BY <1>4 DEF StoreShape
    <3>3. \A u \in DOMAIN rows : Owed(u) => IF marker.target = 0 THEN box'.last > 0 ELSE u >= marker.floor
      BY <3>2 DEF StoreOwes
    <3> QED BY <1>1, <1>4, <3>1, <3>3 DEF StoreOwes, UIDs
  <2>4. CompletedIsIndexed' /\ UnsentChangeKept'
    BY <1>1 DEF CompletedIsIndexed, UnsentChangeKept
  <2> QED BY <2>1, <2>2, <2>3, <2>4 DEF StoreInv
<1>9. CASE pass' = NoPass
  BY <1>8, <1>9, NobodyWorks DEF MailInv
<1>10. CASE pass.phase = "repair" /\ pass' = GoOn("fetch", Max({box.last, to}))
  <2>1. /\ DOMAIN pass' = {"pc", "gen", "start", "wasEmpty", "floor", "rebuild"} /\ pass'.pc = "fetch"
        /\ pass'.gen = pass.gen /\ pass'.start = box'.last /\ pass'.floor = pass.floor /\ pass'.rebuild = pass.rebuild
    BY <1>4, <1>10 DEF GoOn, Planned
  <2>2. ~pass.rebuild
    BY <1>1, <1>10 DEF Flow
  <2>3. PassInv'
    BY <1>1, <1>2, <1>4, <2>1, <2>2, Fetching DEF Fetches, FetchShape
  <2> QED BY <1>8, <2>3 DEF MailInv
<1>11. CASE pass.phase # "repair" /\ (pass.rebuild => pass.final) /\ pass' = GoOn("flags", 0)
  <2>1. /\ DOMAIN pass' = {"pc", "gen", "start", "wasEmpty", "floor", "rebuild"} /\ pass'.pc = "flags"
        /\ pass'.gen = pass.gen /\ pass'.floor = pass.floor /\ pass'.rebuild = pass.rebuild
    BY <1>11 DEF GoOn, Planned
  <2>2. pass.rebuild => Left = {}
    BY <1>1, <1>2, <1>11 DEF Flow, PassJournal, AtWork
  <2>3. pass.rebuild => \A u \in DOMAIN rows : ~Owed(u)
    BY <1>1 DEF PassOwes
  <2>4. Left' = Left
    BY <1>1 DEF Left
  <2>5. PassInv'
    BY <1>1, <1>2, <1>4, <1>7, <2>1, <2>2, <2>3, <2>4, Ending DEF Ends, FetchShape
  <2> QED BY <1>8, <2>5 DEF MailInv
<1> QED BY <1>5, <1>9, <1>10, <1>11

\* The flags of the server leave a row with a change of its own alone.
LEMMA FlagsKept == ASSUME MailInv, ReadSeenUIDs \/ UpdateMailboxReadFlags PROVE MailInv'
<1> /\ StoreInv /\ PassInv /\ ServerShape /\ StoreShape /\ StoreGenerations /\ StoreJournal
    /\ PassShape /\ PassGenerations /\ PassJournal /\ PassOwes
  BY DEF MailInv, StoreInv, PassInv
<1>1. pass.pc \in {"flags", "apply"} /\ pass.pc \in Ends /\ UNCHANGED <<server, box, marker, journal, docs, ghosts, oper>>
  BY DEF ReadSeenUIDs, UpdateMailboxReadFlags, Ends, store
<1>2. /\ {"pc", "gen", "start", "wasEmpty", "floor", "rebuild"} \subseteq DOMAIN pass /\ FetchShape(pass)
      /\ pass.gen = box.gen /\ oper = "idle" /\ (pass.rebuild <=> marker.target = pass.gen) /\ (pass.rebuild =>
            pass.floor = marker.floor)
      /\ (pass.rebuild => Left = {} /\ \A u \in DOMAIN rows : ~Owed(u))
  BY <1>1 DEF PassShape, PassGenerations, PassJournal, PassOwes, StoreGenerations, NoPass
<1>3. /\ {"pc", "gen", "start", "wasEmpty", "floor", "rebuild"} \subseteq DOMAIN pass' /\
            pass'.pc \in {"apply", "reconcile"}
      /\ pass'.gen = pass.gen /\ pass'.floor = pass.floor /\ pass'.rebuild = pass.rebuild
  <2>1. \/ pass' = [pc |-> "apply", gen |-> pass.gen, start |-> 0, wasEmpty |-> pass.wasEmpty, floor |-> pass.floor,
                    rebuild |-> pass.rebuild, seen |-> {u \in UIDs(server) : server.mail[u] \in server.seen}]
        \/ pass' = [pass EXCEPT !.pc = "reconcile"]
        \/ pass' = GoOn("reconcile", 0)
    BY DEF ReadSeenUIDs, UpdateMailboxReadFlags
  <2> QED BY <1>2, <2>1 DEF GoOn, Planned
<1>4. CASE ReadSeenUIDs
  <2>1. UNCHANGED rows
    BY <1>4 DEF ReadSeenUIDs, store
  <2>2. StoreInv'
    BY <1>1, <1>2, <2>1, StoreStays DEF StoreKeeps, ghosts
  <2>3. Left' = Left /\ \A u \in DOMAIN rows' : Owed(u)' => Owed(u) /\ u \in DOMAIN rows
    BY <1>1, <2>1 DEF Left, Owed, ghosts
  <2>4. PassInv'
    BY <1>1, <1>2, <1>3, <2>3, Ending DEF Ends, FetchShape
  <2> QED BY <2>2, <2>4 DEF MailInv
<1>5. CASE UpdateMailboxReadFlags
  <2>1. DOMAIN rows' = DOMAIN rows /\
           \A u \in DOMAIN rows : rows'[u] = IF ~rows[u].pend THEN [rows[u] EXCEPT !.read = u \in pass.seen] ELSE rows[u]
    BY <1>5 DEF UpdateMailboxReadFlags, TakesServerFlag
  <2>2. ASSUME NEW u \in DOMAIN rows
        PROVE  /\ DOMAIN rows'[u] = DOMAIN rows[u] /\ rows'[u].msg = rows[u].msg /\ rows'[u].gen = rows[u].gen
               /\ rows'[u].done = rows[u].done /\ rows'[u].pend = rows[u].pend
               /\ (rows[u].pend => rows'[u].read = rows[u].read)
    <3>1. DOMAIN rows[u] = {"msg", "gen", "done", "read", "pend"}
      BY DEF StoreShape
    <3>2. CASE ~rows[u].pend
      BY <2>1, <3>1, <3>2
    <3>3. CASE rows[u].pend
      BY <2>1, <3>3
    <3> QED BY <3>2, <3>3
  <2>3. \A u \in DOMAIN rows : rows'[u].pend \in BOOLEAN
    BY <2>2 DEF StoreShape
  <2>4. UNCHANGED <<announced, due, bypassed, unsent>>
    BY <1>1 DEF ghosts
  <2>5. Flagged
    BY <1>1, <2>1, <2>2, <2>3, <2>4 DEF Flagged
  <2>6. UnsentChangeKept'
    BY <1>1, <2>1, <2>2, <2>4 DEF UnsentChangeKept, StoreInv
  <2>7. StoreInv'
    BY <1>2, <2>4, <2>5, <2>6, StoreIsFlagged DEF StoreJournal
  <2>8. Left' = Left /\ \A u \in DOMAIN rows' : Owed(u)' => Owed(u) /\ u \in DOMAIN rows
    BY <1>1, <2>1, <2>2, <2>4 DEF Left, Owed
  <2>9. PassInv'
    BY <1>1, <1>2, <1>3, <2>8, Ending DEF Ends, FetchShape
  <2> QED BY <2>7, <2>9 DEF MailInv
<1> QED BY <1>4, <1>5

\* A row goes only when its message is gone.
LEMMA ReconcileKept == ASSUME MailInv, ReconcileMailboxUIDs PROVE MailInv'
<1> /\ StoreInv /\ PassInv /\ ServerShape /\ StoreShape /\ StoreGenerations /\ StoreAgrees /\ StoreJournal /\ StoreOwes
    /\ CheckpointCovered /\ CompletedIsIndexed /\ UnsentChangeKept /\ PassShape /\ PassGenerations /\ PassJournal /\
          PassOwes
  BY DEF MailInv, StoreInv, PassInv
<1>1. /\ pass.pc = "reconcile" /\ pass.pc \in Ends /\
            UNCHANGED <<server, box, marker, journal, announced, due, bypassed, unsent, oper>>
      /\ rows' = [u \in DOMAIN rows \ MissingUIDs |-> rows[u]]
      /\ docs' = docs \ {<<rows[u].gen, u>> : u \in MissingUIDs} /\ pass' = [pass EXCEPT !.pc = "finalize"]
  BY DEF ReconcileMailboxUIDs, Ends, ghosts
<1>2. /\ {"pc", "gen", "start", "wasEmpty", "floor", "rebuild"} \subseteq DOMAIN pass /\ FetchShape(pass)
      /\ pass.gen = box.gen /\ oper = "idle" /\ (pass.rebuild <=> marker.target = pass.gen) /\ (pass.rebuild =>
            pass.floor = marker.floor)
      /\ (pass.rebuild => Left = {} /\ \A u \in DOMAIN rows : ~Owed(u))
  BY <1>1 DEF PassShape, PassGenerations, PassJournal, PassOwes, StoreGenerations, NoPass
<1>3. MissingUIDs \subseteq DOMAIN rows /\ \A u \in MissingUIDs : u \notin UIDs(server) /\ server.gen = box.gen
  BY DEF MissingUIDs
<1>4. DOMAIN rows' = DOMAIN rows \ MissingUIDs /\ \A u \in DOMAIN rows' : u \in DOMAIN rows /\ rows'[u] = rows[u]
  BY <1>1
<1>5. \A u \in DOMAIN rows' : Owed(u)' => Owed(u)
  BY <1>1, <1>4 DEF Owed
<1>6. ServerShape' /\ StoreShape' /\ StoreAgrees' /\ StoreJournal'
  BY <1>1, <1>4 DEF ServerShape, StoreShape, StoreAgrees, StoreJournal, UIDs
<1>7. StoreGenerations'
  BY <1>1, <1>2, <1>4 DEF StoreGenerations
<1>8. StoreOwes'
  BY <1>1, <1>3, <1>4, <1>5 DEF StoreOwes, UIDs
<1>9. CheckpointCovered'
  BY <1>1, <1>3, <1>4 DEF CheckpointCovered, UIDs
<1>10. CompletedIsIndexed'
  BY <1>1, <1>4 DEF CompletedIsIndexed
<1>11. UnsentChangeKept'
  <2> SUFFICES ASSUME NEW m \in DOMAIN unsent
               PROVE  \/ \E u \in DOMAIN rows' : rows'[u].msg = m /\ rows'[u].pend /\ rows'[u].read = unsent[m]
                      \/ m \in DOMAIN journal /\ journal[m] = [read |-> unsent[m], pend |-> TRUE]
    BY <1>1 DEF UnsentChangeKept
  <2>1. \A u \in DOMAIN rows : rows[u].msg = m => u \in DOMAIN rows'
    <3> SUFFICES ASSUME NEW u \in MissingUIDs, rows[u].msg = m PROVE FALSE
      BY <1>4
    <3>1. PICK v \in UIDs(server) : server.mail[v] = m
      BY DEF StoreJournal, Range, UIDs
    <3> QED BY <1>3, <3>1 DEF StoreAgrees
  <2> QED BY <1>4, <2>1 DEF UnsentChangeKept
<1>12. /\ DOMAIN pass' = DOMAIN pass /\ pass'.pc = "finalize" /\ pass'.gen = pass.gen /\ pass'.floor = pass.floor /\
             pass'.rebuild = pass.rebuild
  BY <1>1, <1>2
<1>13. Left' = Left
  BY <1>1 DEF Left
<1>14. PassInv'
  BY <1>1, <1>2, <1>4, <1>5, <1>12, <1>13, Ending DEF Ends, FetchShape
<1> QED BY <1>6, <1>7, <1>8, <1>9, <1>10, <1>11, <1>14 DEF MailInv, StoreInv

\* A rebuild that is final has taken every change out of the journal that has a message.
LEMMA FinalizeKept == ASSUME MailInv, FinalizeMailboxGenerationRebuild PROVE MailInv'
<1> /\ StoreInv /\ PassInv /\ ServerShape /\ StoreShape /\ StoreGenerations /\ StoreAgrees /\ StoreJournal /\ StoreOwes
    /\ CheckpointCovered /\ CompletedIsIndexed /\ UnsentChangeKept /\ PassShape /\ PassGenerations /\ PassJournal /\
          PassOwes
  BY DEF MailInv, StoreInv, PassInv
<1>1. /\ pass.pc = "finalize" /\ pass.pc \in Ends /\ UNCHANGED <<server, box, rows, docs, ghosts, oper>> /\ pass' = NoPass
      /\ IF marker.target = pass.gen THEN marker' = NoMarker /\ journal' = NoFunction ELSE UNCHANGED <<marker, journal>>
  BY DEF FinalizeMailboxGenerationRebuild, Ends
<1>2. /\ FetchShape(pass) /\ pass.gen = box.gen /\ oper = "idle" /\ (pass.rebuild <=> marker.target = pass.gen)
      /\ (pass.rebuild => Left = {} /\ \A u \in DOMAIN rows : ~Owed(u))
  BY <1>1 DEF PassShape, PassGenerations, PassJournal, PassOwes, StoreGenerations, NoPass
<1>3. PassInv'
  BY <1>1, NobodyWorks
<1>4. CASE marker.target # pass.gen
  BY <1>1, <1>2, <1>3, <1>4, StoreStays DEF StoreKeeps, ghosts, MailInv
<1>5. CASE marker.target = pass.gen
  <2>1. marker' = NoMarker /\ journal' = NoFunction /\
           UNCHANGED <<server, box, rows, docs, announced, due, bypassed, unsent, oper>>
    BY <1>1, <1>5 DEF ghosts
  <2>2. DOMAIN marker' = {"target", "floor"} /\ marker'.target = 0 /\ marker'.floor = 0 /\ DOMAIN journal' = {}
    BY <2>1 DEF NoMarker, NoFunction
  <2>3. \A u \in DOMAIN rows : ~Owed(u)'
    BY <1>2, <1>5, <2>1 DEF Owed
  <2>4. ServerShape' /\ StoreShape' /\ StoreGenerations' /\ StoreAgrees' /\ StoreJournal'
    BY <1>1, <1>2, <2>1, <2>2
    DEF ServerShape, StoreShape, StoreGenerations, StoreAgrees, StoreJournal, UIDs, FetchShape
  <2>5. StoreOwes'
    BY <2>1, <2>3 DEF StoreOwes, UIDs
  <2>6. CheckpointCovered'
    BY <2>1 DEF CheckpointCovered, UIDs
  <2>7. CompletedIsIndexed'
    <3>1. \A u \in DOMAIN rows : rows[u].gen # 1
      BY <1>2, <1>5 DEF StoreShape, StoreGenerations
    <3> QED BY <2>1, <3>1 DEF CompletedIsIndexed
  <2>8. UnsentChangeKept'
    <3>1. \A m \in DOMAIN unsent : m \notin DOMAIN journal
      BY <1>2, <1>5 DEF StoreJournal, Left
    <3> QED BY <2>1, <3>1 DEF UnsentChangeKept
  <2> QED BY <1>3, <2>4, <2>5, <2>6, <2>7, <2>8 DEF MailInv, StoreInv
<1> QED BY <1>4, <1>5

-----------------------------------------------------------------------------
(* The specification *)

\* A mailbox that was never read has nothing to keep.
LEMMA MailInitially == MailboxInit => MailInv
<1> SUFFICES ASSUME MailboxInit PROVE MailInv
  OBVIOUS
<1>1. /\ server = [gen |-> 1, next |-> 1, mail |-> NoFunction, seen |-> {}, count |-> 0]
      /\ box = [gen |-> 0, last |-> 0, empty |-> FALSE] /\ marker = NoMarker /\ pass = NoPass /\ oper = "idle"
      /\ DOMAIN rows = {} /\ DOMAIN journal = {} /\ due = {} /\ DOMAIN unsent = {}
  BY DEF MailboxInit, NoFunction
<1>2. UIDs(server) = {}
  BY <1>1 DEF UIDs, NoFunction
<1>3. ServerShape
  <2>1. DOMAIN server = {"gen", "next", "mail", "seen", "count"} /\ server.gen = 1 /\ server.next = 1 /\ server.count = 0
    BY <1>1
  <2> QED BY <1>2, <2>1 DEF ServerShape
<1>4. StoreShape /\ StoreGenerations
  BY <1>1 DEF StoreShape, StoreGenerations, NoMarker
<1>5. StoreAgrees /\ StoreJournal /\ StoreOwes /\ CheckpointCovered /\ CompletedIsIndexed /\ UnsentChangeKept
  BY <1>1, <1>2 DEF StoreAgrees, StoreJournal, StoreOwes, CheckpointCovered, CompletedIsIndexed, UnsentChangeKept
<1>6. PassInv
  BY <1>1
  DEF PassInv, NoPass, Plans, Fetches, Ends, Works, Inside, PassShape, PassGenerations, Flow, Places, PassAgrees,
         Taking, InHand, PassJournal, Documented, PassOwes
<1> QED BY <1>3, <1>4, <1>5, <1>6 DEF MailInv, StoreInv

\* The server may do all this at any time.
LEMMA ServerKept == ASSUME MailInv, Deliver \/ (\E u \in UIDs(server) : Expunge(u)) \/ NewGeneration PROVE MailInv'
<1>1. ServerMoves
  BY MailArrives, MailGoes, MailIsRenumbered DEF MailInv
<1> QED BY <1>1, StoreSeesServer, PassSeesServer DEF MailInv

\* A step of others.
LEMMA MailStays == ASSUME MailInv, UNCHANGED mailVars PROVE MailInv'
<1>1. UNCHANGED <<server, box, rows, marker, journal, docs, announced, due, bypassed, unsent, pass, oper>>
  BY DEF mailVars
<1>2. StoreInv'
  BY <1>1, StoreStays DEF StoreKeeps, MailInv
<1>3. Flagged
  BY <1>1 DEF Flagged, MailInv, StoreInv, StoreShape
<1> QED BY <1>1, <1>2, <1>3, PassIsFlagged DEF MailInv

\* The inductive step.
LEMMA MailKept == ASSUME MailInv, Oversized = {}, [MailboxNext]_mailVars PROVE MailInv'
<1>1. CASE Deliver \/ (\E u \in UIDs(server) : Expunge(u)) \/ NewGeneration
  BY <1>1, ServerKept
<1>2. CASE (\E requested \in BOOLEAN : StartPass("ordinary", requested)) \/ StartPass("recovery", FALSE)
  BY <1>2, PlanningKept
<1>3. CASE PassStep
  <2>1. CASE PlanMailboxes \/ ResetMailboxGeneration \/ PurgeMailbox
    BY <2>1, PlanningKept
  <2>2. CASE CheckRebuildPending
    BY <2>2, PendingKept
  <2>3. CASE ReplayStoredArrivals
    BY <2>3, StoredReplayKept
  <2>4. CASE SnapshotAndNewestPage \/ FetchMailbox
    BY <2>4, FetchingKept
  <2>5. CASE FetchSnapshotBatch
    BY <2>5, SnapshotBatchKept
  <2>6. CASE RepairIncompleteMailbox
    BY <2>6, RepairKept
  <2>7. CASE SkipItem
    BY <2>7, SkipKept
  <2>8. CASE StoreItem
    BY <2>8, StoreItemKept
  <2>9. CASE \E full \in BOOLEAN : IndexBatch(full)
    BY <2>9, IndexKept
  <2>10. CASE CompleteImports
    BY <2>10, CompleteKept
  <2>11. CASE RecordArrival
    BY <2>11, RecordKept
  <2>12. CASE Checkpoint
    BY <2>12, CheckpointKept
  <2>13. CASE PhaseDone
    BY <2>13, PhaseDoneKept
  <2>14. CASE RefreshNewest
    BY <2>14, RefreshKept
  <2>15. CASE FlushSearchBatch
    BY <2>15, FlushKept
  <2>16. CASE FinishImports
    BY <2>16, FinishKept
  <2>17. CASE FinalCheckpoint
    BY <2>17, FinalKept
  <2>18. CASE ReadSeenUIDs \/ UpdateMailboxReadFlags
    BY <2>18, FlagsKept
  <2>19. CASE ReconcileMailboxUIDs
    BY <2>19, ReconcileKept
  <2>20. CASE FinalizeMailboxGenerationRebuild
    BY <2>20, FinalizeKept
  <2> QED BY <1>3, <2>1, <2>2, <2>3, <2>4, <2>5, <2>6, <2>7, <2>8, <2>9, <2>10, <2>11, <2>12, <2>13, <2>14, <2>15, <2>16,
             <2>17, <2>18, <2>19, <2>20 DEF PassStep
<1>4. CASE OperationResets \/ OperationPurges
  BY <1>4, OperationKept
<1>5. CASE Stop
  BY <1>5, StopKept
<1>6. CASE \/ \E u \in DOMAIN rows : SyncReadState(u) \/ \E value \in BOOLEAN : MarkMessageRead(u, value)
           \/ SetSeenWithUIDValidity \/ ClearReadSyncPending
  BY <1>6, MarkKept, PushKept
<1>7. CASE UNCHANGED mailVars
  BY <1>7, MailStays
<1> QED BY <1>1, <1>2, <1>3, <1>4, <1>5, <1>6, <1>7 DEF MailboxNext

\* New mail that is below the checkpoint is owed to nobody.
LEMMA MailInvIsSafe == MailInv => MailboxSafe
<1> SUFFICES ASSUME MailInv PROVE NewMailRecorded
  BY DEF MailInv, StoreInv, MailboxSafe
<1>1. \A u \in DOMAIN rows : rows[u].gen = box.gen /\ u \in Nat /\ box.last \in Nat
  BY DEF MailInv, StoreInv, StoreShape
<1>2. \A u \in DOMAIN rows : Owed(u) => u > box.last
  BY DEF MailInv, StoreInv, StoreOwes
<1> QED BY <1>1, <1>2 DEF NewMailRecorded, Owed

\* MailboxSafe (syncMailbox, handleFetchedItem, completionBatch, storeFetchedMessage, the rebuild of a generation):
\* for any number of deliveries, expunges, new generations, changes and interruptions, with a hook or without and
\* for any page and turn, what the checkpoint has passed is stored and complete, what is complete is indexed,
\* new mail is announced before its checkpoint and no change of the user is lost.  A header stub of an oversized
\* message breaks the first of these (run sync_stub).
THEOREM MailboxIsSafe == ASSUME Oversized = {} PROVE MailboxSpec => []MailboxSafe
<1>1. MailboxInit => MailInv
  BY MailInitially
<1>2. MailInv /\ [MailboxNext]_mailVars => MailInv'
  BY MailKept
<1>3. MailInv => MailboxSafe
  BY MailInvIsSafe
<1> QED BY <1>1, <1>2, <1>3, PTL DEF MailboxSpec

=============================================================================
