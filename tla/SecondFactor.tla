---------------------------- MODULE SecondFactor ----------------------------
(***************************************************************************)
(* The second factor of a daemon: totp.json and its rate limiter           *)
(* (security/totp.py), the endpoint that exchanges a code for a session    *)
(* (api/auth.py), the session files (security/session_auth.py), and the    *)
(* commands that set the factor up and take it down (main.py).             *)
(*                                                                         *)
(* The server runs one event loop: once its body is read, a request is not *)
(* interrupted by another.  The commands and the other starts of surf-ssh  *)
(* are processes of their own that use the same files; opening a file to   *)
(* write empties it, and the text follows.                                 *)
(***************************************************************************)
EXTENDS Integers, FiniteSets

CONSTANTS
    Secrets,      \* of the enrolments, each generated once
    NoSecret,     \* 2FA is not enabled
    Codes,        \* the backup codes of an enrolment
    NoCode,
    Commands,     \* processes of setup-2fa and disable-2fa
    Server,       \* the daemon
    MaxRequests,  \* bound on verifications whose body is not read yet
    MaxAttempts, Window, LockoutBase, LockoutCap,
    MaxLevel,     \* the highest level whose lockout can be computed: 1024, of a float
    Tokens,       \* of the sessions, each generated once
    NoToken,
    TTL,          \* of a session
    MaxBusy,      \* bound on the clock when somebody is let in or a command starts
    MaxTime       \* bound on the clock

ASSUME Identities ==
    /\ NoSecret \notin Secrets /\ NoCode \notin Codes /\ NoToken \notin Tokens
    /\ Server \notin Commands

\* The first lockout is at least as long as the window.
ASSUME Limits ==
    /\ MaxAttempts \in Nat \ {0} /\ Window \in Nat \ {0}
    /\ LockoutBase \in Nat /\ LockoutBase >= Window
    /\ LockoutCap \in Nat /\ LockoutCap >= LockoutBase
    /\ MaxLevel \in Nat

ASSUME Bounds == MaxRequests \in Nat /\ TTL \in Nat
                 /\ MaxBusy \in Nat /\ MaxTime \in Nat

VARIABLES
    now,
    stored,       \* totp.json
    unused,       \* secrets not generated yet
    doing, mine,  \* each command's control point, and the secret it shows
    up,           \* the daemon runs
    parked,       \* verifications that have found 2FA enabled
    phase,        \* the daemon's control point in a request
    data, spent,  \* what it will write, without the backup code it takes out
    attempts,     \* _attempts
    lockoutUntil, \* _lockout_until
    level,        \* _lockout_level
    penalty,      \* the next lockout, as the level gives it
    session,      \* each session's file
    fresh,        \* tokens not generated yet
    token,        \* the session the daemon creates
    issued,       \* sessions handed to a browser, with the times they were created
    purging,      \* the files a starting process has yet to look at
    doomed,       \* the one it has read and will remove
    told,         \* history: what the last command that finished told the user
    stale,        \* history: processes whose reading of totp.json is outdated
    clean,        \* history: none of them has written totp.json
    accepted,     \* history: backup codes that let somebody in
    reused,       \* history: one of them did so again
    failures,     \* history: those of the window that ends with the last attempt or restart
    renewals,     \* history: its successes and restarts, if it has failures
    bursts,       \* history: the times the limit was reached since the last renewal
    since,        \* history: the end of the last burst or renewal
    halfRead      \* history: sessions that were read before they were written

commands == <<unused, doing, mine, told>>
lockouts == <<lockoutUntil, level, penalty, failures, renewals, bursts, since>>
limiter  == <<attempts, lockouts>>
server   == <<up, parked, phase, data, spent, accepted, reused>>
sessions == <<session, fresh, token, issued>>
purge    == <<purging, doomed, halfRead>>
totp     == <<stored, stale, clean>>
vars     == <<now, totp, commands, limiter, server, sessions, purge>>

Missing == [is |-> "missing"]
Torn    == [is |-> "torn"]
Enrolment(k, codes) == [is |-> "enrolled", secret |-> k, codes |-> codes]
Session(created)    == [is |-> "session", created |-> created]

Init ==
    /\ now = 0
    /\ stored = Missing /\ stale = {} /\ clean = TRUE
    /\ unused = Secrets /\ told = NoSecret
    /\ doing = [p \in Commands |-> "none"] /\ mine = [p \in Commands |-> NoSecret]
    /\ attempts = {} /\ lockoutUntil = 0 /\ level = 0 /\ penalty = LockoutBase
    /\ failures = {} /\ renewals = {} /\ bursts = 0 /\ since = 0
    /\ up = TRUE /\ parked = 0 /\ phase = "idle"
    /\ data = Missing /\ spent = NoCode /\ accepted = {} /\ reused = FALSE
    /\ session = [s \in Tokens |-> Missing]
    /\ fresh = Tokens /\ token = NoToken /\ issued = {}
    /\ purging = {} /\ doomed = NoToken /\ halfRead = {}

\* A bound: a purge and the commands use different files, and so need not overlap.
Purging == purging # {} \/ doomed # NoToken

-----------------------------------------------------------------------------
(* totp.json *)

\* A file that cannot be parsed is none.
IsEnabled == stored.is = "enrolled"

\* Those who have read totp.json and go by it.
Editing == {p \in Commands : doing[p] # "none"}
           \cup (IF phase \in {"loaded", "saving"} THEN {Server} ELSE {})

Change(p, content) ==
    /\ stored' = content
    /\ stale' = IF content = stored THEN stale ELSE stale \cup (Editing \ {p})

Forget(p) == UNCHANGED stored /\ stale' = stale \ {p}

\* _save opens the file, which empties it.
Empties(p) ==
    /\ Change(p, Torn)
    /\ clean' = (clean /\ p \notin stale)

\* The text is lost when the opened file was removed meanwhile, and may not cover
\* the longer one that another process has written into it.
Writes(p, content) ==
    /\ \/ stored' = IF stored = Missing THEN Missing ELSE content
       \/ p \in stale /\ stored # Missing /\ stored' = Torn
    /\ stale' = (IF stored' = stored THEN stale ELSE stale \cup Editing) \ {p}
    /\ clean' = (clean /\ p \notin stale)

-----------------------------------------------------------------------------
(* surf-ssh setup-2fa and disable-2fa *)

SetupUnconfirmed(p) ==  \* mutant: persisted before the user has scanned the secret
    /\ doing[p] = "none" /\ ~IsEnabled /\ ~Purging /\ now <= MaxBusy
    /\ \E k \in unused :
         /\ mine' = [mine EXCEPT ![p] = k]
         /\ unused' = unused \ {k}
         /\ Change(p, Enrolment(k, Codes))
    /\ doing' = [doing EXCEPT ![p] = "setup"]
    /\ UNCHANGED <<now, clean, told, limiter, server, sessions, purge>>

BeginSetup(p) ==
    /\ doing[p] = "none" /\ ~IsEnabled /\ ~Purging /\ now <= MaxBusy
    /\ \E k \in unused :
         /\ mine' = [mine EXCEPT ![p] = k]
         /\ unused' = unused \ {k}
    /\ doing' = [doing EXCEPT ![p] = "setup"]
    /\ UNCHANGED <<now, totp, told, limiter, server, sessions, purge>>

BeginDisable(p) ==
    /\ doing[p] = "none" /\ IsEnabled /\ ~Purging /\ now <= MaxBusy
    /\ doing' = [doing EXCEPT ![p] = "disable"]
    /\ UNCHANGED <<now, totp, unused, mine, told, limiter, server, sessions, purge>>

\* confirm_setup, with the right code.
Confirm(p) ==
    /\ doing[p] = "setup"
    /\ Empties(p)
    /\ doing' = [doing EXCEPT ![p] = "saving"]
    /\ UNCHANGED <<now, unused, mine, told, limiter, server, sessions, purge>>

Exit(p, answer) ==
    /\ doing' = [doing EXCEPT ![p] = "none"]
    /\ mine' = [mine EXCEPT ![p] = NoSecret]
    /\ told' = answer
    /\ UNCHANGED <<now, unused, limiter, server, sessions, purge>>

\* The command fails in the chmod when the file has gone.
SaveSetup(p) ==
    /\ doing[p] = "saving"
    /\ Writes(p, Enrolment(mine[p], Codes))
    /\ Exit(p, IF stored = Missing THEN told ELSE mine[p])

Disable(p) ==
    /\ doing[p] = "disable"
    /\ stored' = Missing
    /\ stale' = (stale \cup Editing) \ {p}
    /\ UNCHANGED clean
    /\ Exit(p, NoSecret)

\* The user declines or mistypes, or the command is killed.
Quit(p) ==
    /\ doing[p] # "none"
    /\ Forget(p)
    /\ UNCHANGED clean
    /\ Exit(p, told)

-----------------------------------------------------------------------------
(* The rate limiter.  time.monotonic() differs from one attempt to the next. *)

Recent(times) == {t \in times : now - t < Window}

RateLimited == now < lockoutUntil \/ Cardinality(Recent(attempts)) >= MaxAttempts

\* History: what an attempt, or a restart, is for an observer of the window.
Observed(failed, renewed) ==
    /\ failures' = Recent(failures) \cup failed
    /\ renewals' = IF Recent(failures) = {} THEN {} ELSE Recent(renewals) \cup renewed
    /\ IF renewed # {}
         THEN bursts' = 0 /\ since' = now'
         ELSE IF Cardinality({f \in failures' : f >= since}) >= MaxAttempts
           THEN bursts' = bursts + 1 /\ since' = now'
           ELSE UNCHANGED <<bursts, since>>

Reset == attempts' = {} /\ lockoutUntil' = 0 /\ level' = 0 /\ penalty' = LockoutBase

RecordUnlocked(ok) ==  \* mutant: the attempts are cleared, and no lockout is set
    /\ now' = now + 1
    /\ IF ok \/ Cardinality(Recent(attempts)) + 1 >= MaxAttempts THEN Reset
         ELSE /\ attempts' = Recent(attempts) \cup {now}
              /\ UNCHANGED <<lockoutUntil, level, penalty>>
    /\ IF ok THEN Observed({}, {now}) ELSE Observed({now}, {})

RecordUnpruned(ok) ==  \* mutant: the attempts are never dropped but by a success
    LET failed == attempts \cup {now}
    IN  /\ now' = now + 1
        /\ IF ok THEN Reset
           ELSE /\ attempts' = failed
                /\ IF Cardinality(failed) < MaxAttempts THEN UNCHANGED <<lockoutUntil, level, penalty>>
                     ELSE /\ lockoutUntil' = now + penalty
                          /\ level' = level + 1
                          /\ penalty' = IF 2 * penalty < LockoutCap THEN 2 * penalty ELSE LockoutCap
        /\ IF ok THEN Observed({}, {now}) ELSE Observed({now}, {})

RecordLinear(ok) ==  \* mutant: every lockout is as long as the first
    LET failed == Recent(attempts) \cup {now}
    IN  /\ now' = now + 1
        /\ IF ok THEN Reset
           ELSE IF Cardinality(failed) < MaxAttempts
             THEN attempts' = failed /\ UNCHANGED <<lockoutUntil, level, penalty>>
             ELSE attempts' = {} /\ lockoutUntil' = now + penalty /\ UNCHANGED <<level, penalty>>
        /\ IF ok THEN Observed({}, {now}) ELSE Observed({now}, {})

\* The attempt that reaches the limit raises the level; its request fails when the
\* lockout is too long for a float, and leaves the attempts on record.
Burst(failed) ==
    /\ level' = level + 1
    /\ IF level + 1 > MaxLevel
         THEN attempts' = failed /\ UNCHANGED <<lockoutUntil, penalty>>
         ELSE /\ attempts' = {}
              /\ lockoutUntil' = now + penalty
              /\ penalty' = IF 2 * penalty < LockoutCap THEN 2 * penalty ELSE LockoutCap

\* The pruning of _check_rate_limit, and _record_attempt.
RecordAttempt(ok) ==
    LET failed == Recent(attempts) \cup {now}
    IN  /\ now' = now + 1
        /\ IF ok THEN Reset /\ Observed({}, {now})
           ELSE /\ Observed({now}, {})
                /\ IF Cardinality(failed) >= MaxAttempts THEN Burst(failed)
                     ELSE attempts' = failed /\ UNCHANGED <<lockoutUntil, level, penalty>>

-----------------------------------------------------------------------------
(* POST /auth/verify-totp *)

Serving == up /\ phase = "idle"

\* Anybody who is not enrolled is answered 404.  The body is awaited.
Ask ==
    /\ Serving /\ IsEnabled /\ parked < MaxRequests
    /\ parked' = parked + 1
    /\ UNCHANGED <<now, totp, commands, limiter, up, phase, data, spent, accepted, reused,
                   sessions, purge>>

Attempt(next) ==
    /\ Serving /\ parked > 0
    /\ parked' = parked - 1
    /\ phase' = next
    /\ UNCHANGED <<commands, up, accepted, reused, sessions, purge>>

TooMany ==
    /\ RateLimited
    /\ attempts' = IF now < lockoutUntil THEN attempts ELSE Recent(attempts)
    /\ Attempt("idle")
    /\ UNCHANGED <<now, totp, lockouts, data, spent>>

\* Of either kind; every code is wrong once 2FA was disabled.
WrongCode ==
    /\ ~RateLimited /\ now < MaxTime
    /\ RecordAttempt(FALSE)
    /\ Attempt("idle")
    /\ UNCHANGED <<totp, data, spent>>

RightCode ==
    /\ ~RateLimited /\ now < MaxTime /\ now <= MaxBusy /\ IsEnabled
    /\ RecordAttempt(TRUE)
    /\ Attempt("creating")
    /\ UNCHANGED <<totp, data, spent>>

TakeKeeping(c) ==  \* mutant: the code stays on the list
    /\ ~RateLimited /\ now < MaxTime /\ now <= MaxBusy
    /\ IsEnabled /\ c \in stored.codes
    /\ attempts' = Recent(attempts)
    /\ data' = stored
    /\ spent' = c
    /\ Attempt("loaded")
    /\ UNCHANGED <<now, totp, lockouts>>

\* _verify_and_consume_backup has read the file and found the code.
TakeBackupCode(c) ==
    /\ ~RateLimited /\ now < MaxTime /\ now <= MaxBusy
    /\ IsEnabled /\ c \in stored.codes
    /\ attempts' = Recent(attempts)
    /\ data' = Enrolment(stored.secret, stored.codes \ {c})
    /\ spent' = c
    /\ Attempt("loaded")
    /\ UNCHANGED <<now, totp, lockouts>>

SaveBegins ==
    /\ up /\ phase = "loaded"
    /\ Empties(Server)
    /\ phase' = "saving"
    /\ UNCHANGED <<now, commands, limiter, up, parked, data, spent, accepted, reused,
                   sessions, purge>>

\* The request fails in the chmod when the file has gone.
SaveEnds ==
    /\ up /\ phase = "saving"
    /\ Writes(Server, data)
    /\ IF stored = Missing
         THEN phase' = "idle" /\ UNCHANGED <<now, limiter, accepted, reused>>
         ELSE /\ RecordAttempt(TRUE)
              /\ phase' = "creating"
              /\ accepted' = accepted \cup {<<data.secret, spent>>}
              /\ reused' = (reused \/ <<data.secret, spent>> \in accepted)
    /\ data' = Missing /\ spent' = NoCode
    /\ UNCHANGED <<commands, up, parked, sessions, purge>>

-----------------------------------------------------------------------------
(* Sessions *)

\* The control socket is asked for a URL.
Mint ==
    /\ Serving /\ now <= MaxBusy
    /\ phase' = "creating"
    /\ UNCHANGED <<now, totp, commands, limiter, up, parked, data, spent, accepted, reused,
                   sessions, purge>>

SessionStep(from, to) ==
    /\ up /\ phase = from
    /\ phase' = to
    /\ UNCHANGED <<now, totp, commands, limiter, up, parked, data, spent, accepted, reused, purge>>

\* create_session opens the file, writes it and restricts its mode.
Open(s) ==
    /\ SessionStep("creating", "writing")
    /\ s \in fresh
    /\ fresh' = fresh \ {s}
    /\ token' = s
    /\ session' = [session EXCEPT ![s] = Torn]
    /\ UNCHANGED issued

\* The file cannot be created, and the request fails.
CreateFails == SessionStep("creating", "idle") /\ UNCHANGED sessions

WriteSession ==
    /\ SessionStep("writing", "closing")
    /\ session' = [session EXCEPT ![token] = IF @ = Missing THEN @ ELSE Session(now)]
    /\ UNCHANGED <<fresh, token, issued>>

\* The browser gets no session, but an error, when the file has gone.
Handover ==
    /\ SessionStep("closing", "idle")
    /\ issued' = IF session[token] = Missing THEN issued
                   ELSE issued \cup {<<token, session[token].created>>}
    /\ token' = NoToken
    /\ UNCHANGED <<session, fresh>>

Expired(s) == session[s].is = "session" /\ now - session[s].created > TTL

\* validate_session destroys what has expired.
Validate(s) ==
    /\ Serving /\ (\E i \in issued : i[1] = s) /\ Expired(s)
    /\ session' = [session EXCEPT ![s] = Missing]
    /\ UNCHANGED <<now, totp, commands, limiter, server, fresh, token, issued, purge>>

\* _purge_stale_files of a process that starts.
BeginPurge ==
    /\ ~Purging /\ \A p \in Commands : doing[p] = "none"
    /\ purging' = {s \in Tokens : session[s] # Missing}
    /\ UNCHANGED <<now, totp, commands, limiter, server, sessions, doomed, halfRead>>

LookAtYounger(s) ==  \* mutant: a session is removed on its last tick
    /\ s \in purging /\ doomed = NoToken
    /\ purging' = purging \ {s}
    /\ doomed' = IF session[s] = Torn \/ (session[s] # Missing /\ now - session[s].created >= TTL)
                   THEN s ELSE NoToken
    /\ halfRead' = IF session[s] = Torn THEN halfRead \cup {s} ELSE halfRead
    /\ UNCHANGED <<now, totp, commands, limiter, server, sessions>>

LookAt(s) ==
    /\ s \in purging /\ doomed = NoToken
    /\ purging' = purging \ {s}
    /\ doomed' = IF session[s] = Torn \/ Expired(s) THEN s ELSE NoToken
    /\ halfRead' = IF session[s] = Torn THEN halfRead \cup {s} ELSE halfRead
    /\ UNCHANGED <<now, totp, commands, limiter, server, sessions>>

Unlink ==
    /\ doomed # NoToken
    /\ session' = [session EXCEPT ![doomed] = Missing]
    /\ doomed' = NoToken
    /\ UNCHANGED <<now, totp, commands, limiter, server, fresh, token, issued, purging, halfRead>>

-----------------------------------------------------------------------------
(* The daemon stops, or is killed, and a new one starts. *)

\* What is in memory goes, and with it the limiter.
Die ==
    /\ up
    /\ up' = FALSE
    /\ parked' = 0 /\ phase' = "idle" /\ data' = Missing /\ spent' = NoCode
    /\ token' = NoToken
    /\ Forget(Server)
    /\ now' = now /\ Reset /\ Observed({}, {now})
    /\ UNCHANGED <<clean, commands, accepted, reused, session, fresh, issued, purge>>

Start ==
    /\ ~up
    /\ up' = TRUE
    /\ session' = [s \in Tokens |-> IF session[s] = Torn \/ Expired(s) THEN Missing ELSE session[s]]
    /\ UNCHANGED <<now, totp, commands, limiter, parked, phase, data, spent, accepted, reused,
                   fresh, token, issued, purge>>

\* A bound: the time of an answer to a command's prompt is no matter, and the clock
\* moves between the requests.
Tick ==
    /\ now < MaxTime /\ phase = "idle" /\ \A p \in Commands : doing[p] = "none"
    /\ now' = now + 1
    /\ UNCHANGED <<totp, commands, limiter, server, sessions, purge>>

Next ==
    \/ \E p \in Commands :
        BeginSetup(p) \/ BeginDisable(p) \/ Confirm(p) \/ SaveSetup(p) \/ Disable(p) \/ Quit(p)
    \/ Ask \/ TooMany \/ WrongCode \/ RightCode
    \/ \E c \in Codes : TakeBackupCode(c)
    \/ SaveBegins \/ SaveEnds
    \/ Mint \/ CreateFails \/ WriteSession \/ Handover
    \/ \E s \in Tokens : Open(s) \/ Validate(s) \/ LookAt(s)
    \/ BeginPurge \/ Unlink
    \/ Die \/ Start \/ Tick

Spec == Init /\ [][Next]_vars
-----------------------------------------------------------------------------
(* Properties *)

Files == {Missing, Torn} \cup {Enrolment(k, codes) : k \in Secrets, codes \in SUBSET Codes}

\* The variables have their types; no more attempts are on record than it takes to
\* be refused.
TypeOK ==
    /\ now \in 0..MaxTime
    /\ stored \in Files /\ data \in Files /\ clean \in BOOLEAN
    /\ stale \subseteq Editing
    /\ unused \subseteq Secrets /\ told \in Secrets \cup {NoSecret}
    /\ doing \in [Commands -> {"none", "setup", "saving", "disable"}]
    /\ mine \in [Commands -> Secrets \cup {NoSecret}]
    /\ attempts \subseteq 0..MaxTime /\ Cardinality(attempts) <= MaxAttempts
    /\ lockoutUntil \in Nat /\ level \in Nat /\ penalty \in LockoutBase..LockoutCap
    /\ failures \subseteq 0..MaxTime /\ renewals \subseteq 0..MaxTime
    /\ bursts \in Nat /\ since \in Nat
    /\ up \in BOOLEAN /\ parked \in 0..MaxRequests
    /\ phase \in {"idle", "loaded", "saving", "creating", "writing", "closing"}
    /\ spent \in Codes \cup {NoCode}
    /\ accepted \subseteq Secrets \X Codes /\ reused \in BOOLEAN
    /\ session \in [Tokens -> {Missing, Torn} \cup {Session(t) : t \in 0..MaxTime}]
    /\ fresh \subseteq Tokens /\ token \in Tokens \cup {NoToken} /\ issued \subseteq Tokens \X (0..MaxTime)
    /\ purging \subseteq Tokens /\ doomed \in Tokens \cup {NoToken} /\ halfRead \subseteq Tokens

\* "Max 5 attempts per minute": in no stretch of a window's length are there more
\* failures, although a lockout forgets the attempts, the window slides on behind it
\* and the lockouts' length overflows; but a success and a restart each renew the
\* budget.
FailuresPerWindow == \A a \in 0..MaxTime :
    Cardinality({f \in failures : f >= a}) <=
        MaxAttempts * (1 + Cardinality({r \in renewals : r >= a}))

Lockout(n) == LET doubled == LockoutBase * 2 ^ (n - 1)
              IN  IF doubled < LockoutCap THEN doubled ELSE LockoutCap

\* "Exponential lockout, 1min -> 2 -> 4 ... 30min cap": no code is looked at before
\* the lockout of the n-th burst of failures since the last success or restart is
\* over, for every n whose lockout can be computed.
LockoutsHonoured ==
    [][(WrongCode \/ RightCode \/ \E c \in Codes : TakeBackupCode(c)) /\ bursts \in 1..MaxLevel
         => now >= since - 1 + Lockout(bursts)]_vars

\* "10 single-use backup codes": no code lets somebody in twice, whatever commands
\* edit the file meanwhile and whenever the daemon is killed.
BackupCodeOnce == ~reused

\* What the last command told the user is so, whoever was killed while he prompted
\* or read and however many backup codes were spent since: unless a process has
\* written what it had read before another one's edit, or was killed in its own.
EnrolmentStands == clean /\ stored # Torn =>
    IF told = NoSecret THEN stored = Missing ELSE IsEnabled /\ stored.secret = told

\* A browser's session holds for its lifetime, whatever else starts and purges or
\* restarts meanwhile: unless a purge has read its file before it was written.
SessionsHold == \A i \in issued :
    session[i[1]] = Missing => i[1] \in halfRead \/ now - i[2] > TTL
=============================================================================
