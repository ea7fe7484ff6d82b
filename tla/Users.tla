------------------------------- MODULE Users -------------------------------
(***************************************************************************)
(* Users, their sessions, password resets, the login throttle and the      *)
(* per-user databases: backend/store/users.go, password_reset.go,          *)
(* store.go and backend/web/api_auth.go, api_password_reset.go,            *)
(* api_admin.go, login_throttle.go.                                        *)
(*                                                                         *)
(* A request is a call of Calls; each of its steps is one statement or one *)
(* critical section, so that requests interleave as they do in the server. *)
(* An account's address stands for its id (addresses are UNIQUE and ids    *)
(* are never given twice).  A password is its version number.  The         *)
(* throttle's times are ages, so the clock needs no bound: an age stops    *)
(* counting once no comparison tells it from an older one.                 *)
(***************************************************************************)
EXTENDS Integers, Sequences, FiniteSets, SequencesExt

CONSTANTS Ids,          \* the accounts that can come to exist
          Calls,        \* the requests in progress at one time
          SessionIds,   \* opaque session tokens
          ResetIds,     \* opaque reset tokens
          Sources,      \* client addresses
          Menus,        \* sets of request kinds made in one behaviour
          MaxPerEmail,  \* loginMaxFailuresPerEmail
          MaxPerSource, \* loginMaxFailuresPerIP
          WindowLen,    \* loginFailureWindow, loginEmailLockout, loginIPCooldown
          MaxKeys,      \* loginThrottleMaxKeys
          Absent,       \* no row, no file, no handle
          MaxChanges    \* bound on password changes, on profile edits and on restarts

\* The opener of the handles that PrepareUserStores opens.
Boot == "boot"

ASSUME UsersAssumption ==
  /\ Ids # {} /\ Absent \notin Calls \cup {Boot}
  /\ MaxPerEmail \in Nat \ {0} /\ MaxPerSource \in Nat \ {0}
  /\ WindowLen \in Nat \ {0} /\ MaxKeys \in Nat \ {0} /\ MaxChanges \in Nat

VARIABLES people,    \* the system database's users table
          sessions,  \* the sessions table
          resets,    \* the password_reset_tokens table
          homes,     \* per-user databases on disk: the mirrored preferences, or Absent
          cached,    \* userStores: the opener of the cached handle, or Absent
          opened,    \* open handles, as <<account, opener>>
          byEmail, byIP,   \* the throttle
          call,      \* what each request in progress does next
          menu,      \* the kinds of request of this behaviour
          restarts   \* process restarts so far

userVars == <<people, sessions, resets, homes, cached, opened, byEmail, byIP, call, menu, restarts>>
tables == <<people, sessions, resets>>
stores == <<homes, cached, opened>>
throttle == <<byEmail, byIP>>

Ready == [at |-> "idle", u |-> Absent, v |-> 0, then |-> "idle"]

\* A user row: made is how it came to be; ended is the newest password whose
\* change was reported complete (history).
Row(made, admin) == [made |-> made, admin |-> admin, pw |-> 0, ended |-> 0, pref |-> 0, backup |-> FALSE]
Rows0 == [u \in Ids |-> Row("unborn", FALSE)]
Live(u) == people[u].made \in {"setup", "created"}
Unborn(u) == people[u].made = "unborn"

\* A behaviour starts before the first run, or with one administrator signed in.
First == CHOOSE u \in Ids : TRUE
FirstSession == CHOOSE t \in SessionIds : TRUE

UsersInit ==
  /\ menu \in Menus
  /\ people = IF "setup" \in menu THEN Rows0 ELSE [Rows0 EXCEPT ![First] = Row("setup", TRUE)]
  /\ sessions = [t \in SessionIds |-> IF "setup" \notin menu /\ t = FirstSession
                                     THEN [u |-> First, ver |-> 0, fresh |-> TRUE] ELSE Absent]
  /\ resets = [k \in ResetIds |-> Absent]
  /\ homes = [u \in Ids |-> Absent] /\ cached = [u \in Ids |-> Absent] /\ opened = {}
  /\ byEmail = [u \in Ids |-> Absent] /\ byIP = [i \in Sources |-> <<>>]
  /\ call = [c \in Calls |-> Ready]
  /\ restarts = 0

Moves2(c, at) == call' = [call EXCEPT ![c].at = at]
Finishes(c) == call' = [call EXCEPT ![c] = Ready]
Opens(c, u, then) == call' = [call EXCEPT ![c] = [at |-> "looked", u |-> u, v |-> 0, then |-> then]]

(***************************************************************************)
(* Sessions                                                                *)
(***************************************************************************)
\* CountUsers > 0
UsersExist == \E u \in Ids : Live(u)

\* withCurrentUser: a session that has not expired names its user.
SignedIn(u) == \E t \in SessionIds : sessions[t] # Absent /\ sessions[t].fresh /\ sessions[t].u = u
SignedInAdmin(u) == SignedIn(u) /\ people[u].admin

\* DELETE FROM sessions WHERE user_id = u
WithoutSessions(u) ==
  [t \in SessionIds |-> IF sessions[t] # Absent /\ sessions[t].u = u THEN Absent ELSE sessions[t]]

\* loginUser: CreateSession; the row references its user, so it fails for a
\* deleted one.  ver records the password at that moment (history).
LoginUser(c) ==
  /\ call[c].at = "signin"
  /\ IF Live(call[c].u)
     THEN \E t \in SessionIds :
            /\ sessions[t] = Absent
            /\ sessions' = [sessions EXCEPT ![t] =
                 [u |-> call[c].u, ver |-> people[call[c].u].pw, fresh |-> TRUE]]
     ELSE /\ UNCHANGED sessions
  /\ Finishes(c)
  /\ UNCHANGED <<people, resets, stores, throttle, menu, restarts>>

\* LoginUserID: an authentication plugin signs a user in.
LoginUserID(c) ==
  /\ call[c].at = "idle" /\ "plugin" \in menu
  /\ \E u \in Ids : /\ Live(u)
                    /\ call' = [call EXCEPT ![c] = [Ready EXCEPT !.at = "signin", !.u = u]]
  /\ UNCHANGED <<tables, stores, throttle, menu, restarts>>

\* apiLogout; and a session or a reset link that runs out.
ApiLogout(t) ==
  /\ "ends" \in menu /\ sessions[t] # Absent
  /\ sessions' = [sessions EXCEPT ![t] = Absent]
  /\ UNCHANGED <<people, resets, stores, throttle, call, menu, restarts>>

Expires ==
  /\ "ends" \in menu
  /\ \/ /\ \E t \in SessionIds : /\ sessions[t] # Absent /\ sessions[t].fresh
                                 /\ sessions' = [sessions EXCEPT ![t].fresh = FALSE]
        /\ UNCHANGED resets
     \/ /\ \E k \in ResetIds : /\ resets[k] # Absent /\ resets[k].fresh
                               /\ resets' = [resets EXCEPT ![k].fresh = FALSE]
        /\ UNCHANGED sessions
  /\ UNCHANGED <<people, stores, throttle, call, menu, restarts>>

(***************************************************************************)
(* First run and administration                                            *)
(***************************************************************************)
\* apiSetup: the handler's own check, then CreateInitialAdminIfNone counts
\* again in its transaction; the new admin's database is opened for the Me
\* contact and the request signs in.
ApiSetup(c) ==
  /\ call[c].at = "idle" /\ "setup" \in menu
  /\ ~UsersExist
  /\ Moves2(c, "found")
  /\ UNCHANGED <<tables, stores, throttle, menu, restarts>>

CreateInitialAdminIfNone(c) ==
  IF UsersExist
  THEN /\ UNCHANGED people
       /\ Finishes(c)
  ELSE \E u \in Ids : /\ Unborn(u)
                      /\ people' = [people EXCEPT ![u] = Row("setup", TRUE)]
                      /\ Opens(c, u, "signin")

SetupCreates(c) ==
  /\ call[c].at = "found"
  /\ CreateInitialAdminIfNone(c)
  /\ UNCHANGED <<sessions, resets, stores, throttle, menu, restarts>>

\* apiAdminUsers, POST: CreateUser
CreateUser ==
  /\ "create" \in menu
  /\ \E a \in Ids, u \in Ids, admin \in BOOLEAN :
       /\ SignedInAdmin(a) /\ Unborn(u)
       /\ people' = [people EXCEPT ![u] = Row("created", admin)]
  /\ UNCHANGED <<sessions, resets, stores, throttle, call, menu, restarts>>

\* apiAdminUserPath, password: UpdateUserPasswordHash writes the hash and, in
\* a second statement, deletes the account's sessions.
Changed(u) == [people EXCEPT ![u].pw = @ + 1]
Reported(u, v) == [people EXCEPT ![u].ended = IF v > @ THEN v ELSE @]

ApiAdminPassword(c) ==
  /\ call[c].at = "idle" /\ "password" \in menu
  /\ \E a \in Ids, u \in Ids :
       /\ SignedInAdmin(a) /\ Live(u)
       /\ people[u].pw < MaxChanges
       /\ call' = [call EXCEPT ![c] = [at |-> "ending", u |-> u, v |-> people[u].pw + 1, then |-> "idle"]]
       /\ people' = Changed(u)
  /\ UNCHANGED <<sessions, resets, stores, throttle, menu, restarts>>

KeepsSessions(c) == sessions
EndedSessions(c) == WithoutSessions(call[c].u)

PasswordEndsSessions(c) ==
  /\ call[c].at = "ending"
  /\ sessions' = EndedSessions(c)
  /\ people' = Reported(call[c].u, call[c].v)
  /\ Finishes(c)
  /\ UNCHANGED <<resets, stores, throttle, menu, restarts>>

\* apiAdminUserPath, DELETE: the row goes with its sessions and reset tokens
\* (ON DELETE CASCADE), then the cached handle, then the directory.
ApiAdminDelete(c) ==
  /\ call[c].at = "idle" /\ "delete" \in menu
  /\ \E a \in Ids, u \in Ids :
       /\ SignedInAdmin(a) /\ Live(u) /\ u # a
       /\ people' = [people EXCEPT ![u].made = "deleted"]
       /\ sessions' = WithoutSessions(u)
       /\ resets' = [k \in ResetIds |-> IF resets[k] # Absent /\ resets[k].u = u THEN Absent ELSE resets[k]]
       /\ call' = [call EXCEPT ![c] = [at |-> "dropping", u |-> u, v |-> 0, then |-> "idle"]]
  /\ UNCHANGED <<stores, throttle, menu, restarts>>

DeleteDropsHandle(c) ==
  /\ call[c].at = "dropping"
  /\ LET u == call[c].u
     IN  /\ opened' = opened \ {<<u, cached[u]>>}
         /\ cached' = [cached EXCEPT ![u] = Absent]
  /\ Moves2(c, "removing")
  /\ UNCHANGED <<tables, homes, throttle, menu, restarts>>

DeleteRemovesHome(c) ==
  /\ call[c].at = "removing"
  /\ homes' = [homes EXCEPT ![call[c].u] = Absent]
  /\ Finishes(c)
  /\ UNCHANGED <<tables, cached, opened, throttle, menu, restarts>>

(***************************************************************************)
(* Password reset                                                          *)
(***************************************************************************)
\* apiPasswordResetRequest: only an account with a backup address gets a token;
\* the mail may or may not reach it.
ApiPasswordResetRequest ==
  /\ "reset" \in menu
  /\ \E u \in Ids, k \in ResetIds :
       /\ Live(u) /\ people[u].backup /\ resets[k] = Absent
       /\ resets' = [resets EXCEPT ![k] = [u |-> u, used |-> 0, fresh |-> TRUE]]
  /\ UNCHANGED <<people, sessions, stores, throttle, call, menu, restarts>>

\* UsePasswordResetToken's SELECT
Redeemable(k) == resets[k] # Absent /\ resets[k].used = 0 /\ resets[k].fresh

\* apiPasswordResetComplete: the token, the hash and the sessions change in one
\* transaction; the request then signs in.
UsePasswordResetToken(c) ==
  /\ call[c].at = "idle" /\ "reset" \in menu
  /\ \E k \in ResetIds :
       /\ Redeemable(k)
       /\ LET u == resets[k].u
          IN  /\ people[u].pw < MaxChanges
              /\ people' = [Changed(u) EXCEPT ![u].ended = people[u].pw + 1]
              /\ sessions' = WithoutSessions(u)
              /\ call' = [call EXCEPT ![c] = [at |-> "signin", u |-> u, v |-> 0, then |-> "idle"]]
       /\ resets' = [resets EXCEPT ![k].used = @ + 1]
  /\ UNCHANGED <<stores, throttle, menu, restarts>>

(***************************************************************************)
(* Profile edits and the mirrored user row                                 *)
(***************************************************************************)
\* apiProfile: UpdateUserPreferences and, when the address changed,
\* UpdateUserBackupEmail; each writes the row, reads it back and mirrors what
\* it read into the user's database if that is open.
ApiProfile(c) ==
  /\ call[c].at = "idle" /\ "profile" \in menu
  /\ \E u \in Ids, then \in {"idle", "backup"} :
       /\ SignedIn(u) /\ people[u].pref < MaxChanges
       /\ people' = [people EXCEPT ![u].pref = @ + 1]
       /\ call' = [call EXCEPT ![c] = [at |-> "reading", u |-> u, v |-> 0, then |-> then]]
  /\ UNCHANGED <<sessions, resets, stores, throttle, menu, restarts>>

ProfileBackup(c) ==
  /\ call[c].at = "backup"
  /\ people' = IF Live(call[c].u) THEN [people EXCEPT ![call[c].u].backup = ~@] ELSE people
  /\ call' = [call EXCEPT ![c].at = "reading", ![c].then = "idle"]
  /\ UNCHANGED <<sessions, resets, stores, throttle, menu, restarts>>

ProfileReads(c) ==
  /\ call[c].at = "reading"
  /\ IF Live(call[c].u)
     THEN call' = [call EXCEPT ![c].at = "mirroring", ![c].v = people[call[c].u].pref]
     ELSE Finishes(c)
  /\ UNCHANGED <<tables, stores, throttle, menu, restarts>>

MirrorCachedUser(c) ==
  /\ call[c].at = "mirroring"
  /\ LET u == call[c].u
     IN  homes' = IF cached[u] # Absent THEN [homes EXCEPT ![u] = call[c].v] ELSE homes
  /\ IF call[c].then = "backup" THEN Moves2(c, "backup") ELSE Finishes(c)
  /\ UNCHANGED <<tables, cached, opened, throttle, menu, restarts>>

(***************************************************************************)
(* userStore: the handle of one user's database, opened on first use       *)
(***************************************************************************)
UserRequest(c) ==
  /\ call[c].at = "idle" /\ "open" \in menu
  /\ \E u \in Ids : SignedIn(u) /\ Opens(c, u, "idle")
  /\ UNCHANGED <<tables, stores, throttle, menu, restarts>>

Carries(c) == IF call[c].then = "signin" THEN Moves2(c, "signin") ELSE Finishes(c)

\* The cache is asked, then the user row is read.
UserStoreLooks(c) ==
  /\ call[c].at = "looked"
  /\ IF cached[call[c].u] # Absent \/ ~Live(call[c].u)
     THEN Carries(c)
     ELSE call' = [call EXCEPT ![c].at = "opening", ![c].v = people[call[c].u].pref]
  /\ UNCHANGED <<tables, stores, throttle, menu, restarts>>

\* MkdirAll, open, migrate, mirrorUser
UserStoreOpens(c) ==
  /\ call[c].at = "opening"
  /\ opened' = opened \cup {<<call[c].u, c>>}
  /\ homes' = [homes EXCEPT ![call[c].u] = call[c].v]
  /\ Moves2(c, "caching")
  /\ UNCHANGED <<tables, cached, throttle, menu, restarts>>

\* The second look under the lock: the loser closes its own handle.
CachesFirst(c) ==
  IF cached[call[c].u] # Absent
  THEN /\ UNCHANGED cached
       /\ opened' = opened \ {<<call[c].u, c>>}
  ELSE /\ cached' = [cached EXCEPT ![call[c].u] = c]
       /\ UNCHANGED opened

UserStoreCaches(c) ==
  /\ call[c].at = "caching"
  /\ CachesFirst(c)
  /\ Carries(c)
  /\ UNCHANGED <<tables, homes, throttle, menu, restarts>>

\* The process ends, anywhere, and a new one starts: requests, handles and the
\* throttle are gone; PrepareUserStores opens every user's database before the
\* first request.
Reopens ==
  /\ "restart" \in menu /\ restarts < MaxChanges /\ restarts' = restarts + 1
  /\ call' = [c \in Calls |-> Ready]
  /\ byEmail' = [u \in Ids |-> Absent] /\ byIP' = [i \in Sources |-> <<>>]
  /\ cached' = [u \in Ids |-> IF Live(u) THEN Boot ELSE Absent]
  /\ opened' = {<<u, Boot>> : u \in {v \in Ids : Live(v)}}
  /\ homes' = [u \in Ids |-> IF Live(u) THEN people[u].pref ELSE homes[u]]
  /\ UNCHANGED <<tables, menu>>

(***************************************************************************)
(* The login throttle                                                      *)
(***************************************************************************)
\* Failures are appended as they come: those outside the window are the first.
Inside(ages) == SubSeq(ages, Cardinality({n \in DOMAIN ages : ages[n] >= WindowLen}) + 1, Len(ages))

\* enforceBoundsLocked
Bounded(recs) == IF Cardinality({u \in Ids : recs[u] # Absent}) > MaxKeys
                 THEN [u \in Ids |-> Absent] ELSE recs
BoundedIP(ages) == IF Cardinality({i \in Sources : ages[i] # <<>>}) > MaxKeys
                   THEN [i \in Sources |-> <<>>] ELSE ages

\* pruneLocked
PrunedEmail == Bounded([u \in Ids |->
  IF byEmail[u] # Absent /\ byEmail[u].lock < 0
       /\ (byEmail[u].fails = <<>> \/ Last(byEmail[u].fails) > WindowLen)
  THEN Absent ELSE byEmail[u]])
PrunedIP == BoundedIP([i \in Sources |-> Inside(byIP[i])])

\* now.After(lockedUntil), for the record the attempt finds
Locked(recs, u) == recs[u] # Absent /\ recs[u].lock >= 0
Flooded(ages, i) == Len(ages[i]) >= MaxPerSource /\ ages[i][1] < WindowLen

\* recordFailure
LocksAt(n) == n >= MaxPerEmail
RecordFailure(u, i) ==
  LET old == IF byEmail[u] = Absent THEN [fails |-> <<>>, lock |-> -1] ELSE byEmail[u]
      fails == Append(Inside(old.fails), 0)
      times == Append(byIP[i], 0)
      rec == [fails |-> fails, lock |-> IF LocksAt(Len(fails)) THEN WindowLen ELSE old.lock]
  IN  /\ byEmail' = Bounded([byEmail EXCEPT ![u] = rec])
      /\ byIP' = BoundedIP([byIP EXCEPT ![i] = SelectSeq(times, LAMBDA a : a <= WindowLen)])

\* What a refused attempt leaves behind: nothing but the pruning.
RefusedAttempt(u, i) == byEmail' = PrunedEmail /\ byIP' = PrunedIP

\* apiLogin: allow prunes and decides.
ApiLogin(c) ==
  /\ call[c].at = "idle" /\ "signin" \in menu
  /\ UsersExist
  /\ \E u \in Ids, i \in Sources :
       IF Locked(PrunedEmail, u) \/ Flooded(PrunedIP, i)
       THEN /\ RefusedAttempt(u, i)
            /\ UNCHANGED call
       ELSE /\ byEmail' = PrunedEmail /\ byIP' = PrunedIP
            /\ call' = [call EXCEPT ![c] = [at |-> "verify", u |-> u, v |-> 0, then |-> i]]
  /\ UNCHANGED <<tables, stores, menu, restarts>>

\* The password is verified against the hash read here.
LoginFails(c) ==
  /\ call[c].at = "verify"
  /\ RecordFailure(call[c].u, call[c].then)
  /\ Finishes(c)
  /\ UNCHANGED <<tables, stores, menu, restarts>>

LoginSucceeds(c) ==
  /\ call[c].at = "verify"
  /\ Live(call[c].u)
  /\ byEmail' = [byEmail EXCEPT ![call[c].u] = Absent]
  /\ call' = [call EXCEPT ![c].at = "signin", ![c].then = "idle"]
  /\ UNCHANGED <<tables, stores, byIP, menu, restarts>>

\* The clock: ages grow, a lockout runs down.
Older1(a) == IF a > WindowLen THEN a ELSE a + 1
Clock ==
  /\ "signin" \in menu
  /\ byEmail' = [u \in Ids |-> IF byEmail[u] = Absent THEN Absent ELSE
       [fails |-> [n \in DOMAIN byEmail[u].fails |-> Older1(byEmail[u].fails[n])],
        lock |-> IF byEmail[u].lock < 0 THEN -1 ELSE byEmail[u].lock - 1]]
  /\ byIP' = [i \in Sources |-> [n \in DOMAIN byIP[i] |-> Older1(byIP[i][n])]]
  /\ UNCHANGED <<tables, stores, call, menu, restarts>>

UsersNext ==
  \/ \E c \in Calls :
       \/ LoginUser(c) \/ LoginUserID(c) \/ ApiSetup(c) \/ SetupCreates(c)
       \/ ApiAdminPassword(c) \/ PasswordEndsSessions(c)
       \/ ApiAdminDelete(c) \/ DeleteDropsHandle(c) \/ DeleteRemovesHome(c)
       \/ UsePasswordResetToken(c)
       \/ ApiProfile(c) \/ ProfileBackup(c) \/ ProfileReads(c) \/ MirrorCachedUser(c)
       \/ UserRequest(c) \/ UserStoreLooks(c) \/ UserStoreOpens(c) \/ UserStoreCaches(c)
       \/ ApiLogin(c) \/ LoginFails(c) \/ LoginSucceeds(c)
  \/ CreateUser \/ ApiPasswordResetRequest
  \/ \E t \in SessionIds : ApiLogout(t)
  \/ Expires \/ Reopens \/ Clock

\* The clock does not stop.
UsersSpec == UsersInit /\ [][UsersNext]_userVars /\ WF_userVars(Clock)

-----------------------------------------------------------------------------
(***************************************************************************)
(* Properties                                                              *)
(***************************************************************************)
\* Two first-run requests that both saw an empty installation (apiSetup's own
\* check) create one administrator between them.
OneFounder == Cardinality({u \in Ids : people[u].made = "setup" /\ Live(u)}) <= 1

\* Once a password change is reported complete, no session made under an older
\* password is left, although UpdateUserPasswordHash is two statements beside
\* logins (store/users.go).
SessionsEnd == \A t \in SessionIds : sessions[t] # Absent => sessions[t].ver >= people[sessions[t].u].ended

\* A reset link changes a password at most once, whoever follows it beside whom.
ResetOnce == \A k \in ResetIds : resets[k] # Absent => resets[k].used <= 1

\* Every open database handle is the cached one or in the hands of the request
\* that opened it, and the cache holds no closed handle (userStore, DeleteUser).
OneHandle ==
  /\ \A h \in opened : \/ cached[h[1]] = h[2]
                       \/ h[2] \in Calls /\ call[h[2]].at = "caching" /\ call[h[2]].u = h[1]
  /\ \A u \in Ids : cached[u] # Absent => <<u, cached[u]>> \in opened

\* The failures of one address inside the window stay under the limit, but for
\* the attempts that were let through before the last failure was recorded
\* (allow and recordFailure are separate critical sections).
AttemptsBounded ==
  \A u \in Ids : byEmail[u] # Absent =>
    Len(Inside(byEmail[u].fails)) <= MaxPerEmail - 1 + Cardinality(Calls)

\* What accounts, sessions, links, handles and attempts keep to at all times.
UsersSafe == OneFounder /\ SessionsEnd /\ ResetOnce /\ OneHandle /\ AttemptsBounded

\* A lockout ends whatever is attempted meanwhile: a refused attempt does not
\* prolong it (login_throttle.go, allow).
LockoutEnds == \A u \in Ids : Locked(byEmail, u) ~> ~Locked(byEmail, u)
=============================================================================
