----------------------------- MODULE BrowserAuth -----------------------------
(***************************************************************************)
(* The browser side of login sessions: web/src/lib/auth-session.ts,        *)
(* lib/auth-session-sync.ts, lib/http-client.ts, stores/auth-store.ts,     *)
(* features/auth/api.ts and the root route.                                *)
(*                                                                         *)
(* The tabs of one browser share a cookie jar, a lock (navigator.locks)    *)
(* and a BroadcastChannel.  Each tab keeps its session in memory, refreshes *)
(* it in one flight at a time, and hears of the others' sign-ins and       *)
(* sign-outs by events.  The server keeps the contract that UserSession    *)
(* is checked for.                                                         *)
(*                                                                         *)
(* A refresh token is its session and its age: 0 the current one, 1 the    *)
(* one before it, 2 any older one.  A rotation ages every other copy.      *)
(* authEpoch is compared with the epoch at which a refresh started and     *)
(* with nothing else, so a job carries `current`, whether they are equal.  *)
(* An answer is applied in the step in which it arrives; a logout and a    *)
(* request of the page are handled in the step in which they are sent.     *)
(* AUTH_REFRESH_RACE is left out: the server has no state that gives it.   *)
(***************************************************************************)
EXTENDS Integers, Sequences, FiniteSets

CONSTANTS
    Tabs,
    Sids,        \* the sessions that a login may create
    NoSid,
    NoTab,
    First,       \* the session of the cookie at the start, or NoSid
    SignsIn,     \* the tabs whose user may sign in
    SignsOut,    \* the tabs whose user may sign out
    Asks,        \* the tabs whose page makes requests between navigations
    Locks,       \* whether the browser has navigator.locks
    MaxFaults    \* bound: requests and answers lost on the way, server errors, reloaded pages

ASSUME BrowserAssumption ==
    /\ NoSid \notin Sids /\ NoTab \notin Tabs /\ First \in Sids \union {NoSid}
    /\ SignsIn \subseteq Tabs /\ SignsOut \subseteq Tabs /\ Asks \subseteq Tabs
    /\ Locks \in BOOLEAN /\ MaxFaults \in Nat

VARIABLES
    session,   \* server: per sid, none | live | ended | stolen
    grace,     \* server: the live sids whose previous token is still in its window
    cookie,    \* the refresh cookie
    store,     \* per tab: the session in memory, whether its access token is fresh, bootstrapState = 'complete'
    mounted,   \* the tabs whose root component listens to events
    job,       \* per tab: the refresh under way (refreshPromise)
    lock,      \* the tab that holds 'new-api:auth-refresh'
    api,       \* per tab: a request of the page
    out,       \* per tab: executeLogout
    login,     \* per tab: the session in the answer to a login
    inbox,     \* per tab: the events it has not received
    orphans,   \* requests whose page has gone
    newest,    \* history: the session that the last login created
    left,      \* history, per tab: the ended sessions that this page has signed out of
    unended,   \* history: the sessions whose logout succeeded while the server kept them
    crossed,   \* history: a login was answered during another exchange
    lost,      \* history: a refresh was lost, or its page went away before the answer
    faults

server  == <<session, grace>>
history == <<newest, left, unended, crossed, lost>>
bounds  == <<faults>>
vars    == <<session, grace, cookie, store, mounted, job, lock, api, out, login, inbox, orphans,
             newest, left, unended, crossed, lost, faults>>

NoToken  == [sid |-> NoSid, age |-> 0]
NoJob    == [at |-> "none", current |-> FALSE, first |-> FALSE, token |-> NoToken, expect |-> NoSid,
             answer |-> "none"]
NoApi    == [at |-> "idle", sid |-> NoSid]
NoLogout == [at |-> "idle", first |-> FALSE, sid |-> NoSid, answer |-> "none", clears |-> FALSE]
Empty(finished) == [sid |-> NoSid, fresh |-> FALSE, done |-> finished]

(* A browser whose cookie is of a live session, or that has none; the pages are loading. *)
Init ==
    /\ session = [s \in Sids |-> IF s = First THEN "live" ELSE "none"]
    /\ cookie = [sid |-> First, age |-> 0]
    /\ newest = First
    /\ grace = {}
    /\ store = [t \in Tabs |-> Empty(FALSE)]
    /\ mounted = {}
    /\ job = [t \in Tabs |-> NoJob]
    /\ lock = NoTab
    /\ api = [t \in Tabs |-> NoApi]
    /\ out = [t \in Tabs |-> NoLogout]
    /\ login = [t \in Tabs |-> NoSid]
    /\ inbox = [t \in Tabs |-> <<>>]
    /\ orphans = {}
    /\ left = [t \in Tabs |-> {}]
    /\ unended = {}
    /\ crossed = FALSE /\ lost = FALSE
    /\ faults = 0
-----------------------------------------------------------------------------
(***************************************************************************)
(* The server: RefreshAuth and AuthLogout, each in one step.               *)
(***************************************************************************)
Aged(tok, s) == IF tok.sid = s /\ tok.age < 2 THEN [tok EXCEPT !.age = @ + 1] ELSE tok

(* A rotation of s: every copy of a token of s is one older. *)
AgedJobs(s) == [t \in Tabs |-> [job[t] EXCEPT !.token = Aged(@, s)]]
AgeTheRest(s) ==
    /\ cookie' = Aged(cookie, s)
    /\ orphans' = {[o EXCEPT !.token = Aged(@, s)] : o \in orphans}

(* The answer to the refresh token tok when the page names the session `expect`. *)
RefreshVerdict(tok, expect) ==
    CASE tok.sid = NoSid -> "unauthorized"
      [] tok.sid # NoSid /\ expect \notin {NoSid, tok.sid} -> "mismatch"
      [] OTHER -> IF session[tok.sid] = "live" /\ (tok.age = 0 \/ (tok.age = 1 /\ tok.sid \in grace))
                  THEN "ok" ELSE "unauthorized"

Rotates(tok, verdict) == verdict = "ok" /\ tok.age = 0

(* The previous token after its window: the session is revoked as reused. *)
Reused(tok, verdict) ==
    verdict = "unauthorized" /\ tok.sid # NoSid /\ tok.age = 1 /\ session[tok.sid] = "live"

RefreshServer(tok, verdict) ==
    /\ session' = IF Reused(tok, verdict) THEN [session EXCEPT ![tok.sid] = "stolen"] ELSE session
    /\ grace' = IF Rotates(tok, verdict) THEN grace \union {tok.sid} ELSE grace

(* The token in the answer: the next one, or the same next one again. *)
AnswerToken(tok, verdict) == IF verdict = "ok" THEN [tok EXCEPT !.age = 0] ELSE NoToken

HandleRefresh(t) ==
    LET tok == job[t].token
        verdict == RefreshVerdict(tok, job[t].expect)
        reply(j) == [j EXCEPT !.at = "answered", !.answer = verdict, !.expect = NoSid,
                            !.token = AnswerToken(tok, verdict)]
    IN  /\ job[t].at = "asked"
        /\ RefreshServer(tok, verdict)
        /\ IF Rotates(tok, verdict)
           THEN AgeTheRest(tok.sid) /\ job' = [AgedJobs(tok.sid) EXCEPT ![t] = reply(job[t])]
           ELSE UNCHANGED <<cookie, orphans>> /\ job' = [job EXCEPT ![t] = reply(@)]
        /\ UNCHANGED <<store, mounted, lock, api, out, login, inbox, history, bounds>>

(* Whether the token still proves possession (RevokeUserSessionByRefreshHash). *)
Proves(tok) == tok.sid # NoSid /\ (tok.age = 0 \/ (tok.age = 1 /\ tok.sid \in grace))

(* The session that a logout with this session in memory, bearer and cookie ends, if any. *)
Revoked(mem, jar) ==
    IF mem.fresh THEN mem.sid ELSE IF Proves(jar) THEN jar.sid ELSE NoSid

LogoutVerdict(mem, jar) ==
    IF jar.sid # NoSid /\ mem.sid \notin {NoSid, jar.sid} THEN "mismatch" ELSE "ok"

(* A session that has ended has no window any more. *)
EndSession(s) ==
    /\ session' = IF s # NoSid /\ session[s] = "live" THEN [session EXCEPT ![s] = "ended"] ELSE session
    /\ grace' = grace \ {s}

(* A refresh of a page that has gone: nobody sees the answer, its cookie included. *)
HandleOrphan ==
    \E o \in orphans :
        LET verdict == RefreshVerdict(o.token, o.expect) IN
        /\ RefreshServer(o.token, verdict)
        /\ IF Rotates(o.token, verdict)
           THEN /\ cookie' = Aged(cookie, o.token.sid)
                /\ job' = AgedJobs(o.token.sid)
                /\ orphans' = {[x EXCEPT !.token = Aged(@, o.token.sid)] : x \in orphans \ {o}}
           ELSE orphans' = orphans \ {o} /\ UNCHANGED <<cookie, job>>
        /\ UNCHANGED <<store, mounted, lock, api, out, login, inbox, history, bounds>>

(* The previous token's window (30 s) is over. *)
GraceEnds ==
    /\ \E s \in grace : grace' = grace \ {s}
    /\ UNCHANGED <<session, cookie, store, mounted, job, lock, api, out, login, inbox, orphans, history, bounds>>

(* The session is ended from another device, by an administrator, or expires. *)
EndedElsewhere ==
    /\ \E s \in Sids : session[s] = "live" /\ EndSession(s)
    /\ UNCHANGED <<cookie, store, mounted, job, lock, api, out, login, inbox, orphans, history, bounds>>
-----------------------------------------------------------------------------
(***************************************************************************)
(* The pieces of auth-session.ts.                                          *)
(***************************************************************************)
(* publishAuthSessionEvent: to every other tab that listens. *)
Publish(t, kind, s) ==
    inbox' = [u \in Tabs |-> IF u # t /\ u \in mounted /\ s # NoSid
                             THEN Append(inbox[u], [kind |-> kind, sid |-> s]) ELSE inbox[u]]

(* authEpoch += 1: whatever refresh of t is under way has been superseded. *)
Superseded(t) == [job EXCEPT ![t].current = FALSE]

(* refreshAuthentication: join the refresh under way, or start one at the present epoch. *)
Joined(jobs, t) ==
    IF jobs[t].at = "none"
    THEN [jobs EXCEPT ![t] = [NoJob EXCEPT !.at = "lock", !.current = TRUE, !.first = TRUE]]
    ELSE jobs

(* The request of a refresh leaves with the cookie and the session in memory of this moment. *)
Sent(j, sid) == [j EXCEPT !.at = "asked", !.token = cookie, !.expect = sid, !.answer = "none"]

(* The page of t is gone and loads again; the refresh it had sent may still reach the server. *)
Requests(t) ==
    IF job[t].at = "asked" THEN {[token |-> job[t].token, expect |-> job[t].expect]} ELSE {}

(* The next token that the server gives t, or has given it, will not be seen. *)
Unread(t) == job[t].at = "asked" \/ (job[t].at = "answered" /\ job[t].answer = "ok")

PageGoes(t) ==
    /\ store' = [store EXCEPT ![t] = Empty(FALSE)]
    /\ mounted' = mounted \ {t}
    /\ job' = [job EXCEPT ![t] = NoJob]
    /\ lock' = IF lock = t THEN NoTab ELSE lock
    /\ api' = [api EXCEPT ![t] = NoApi]
    /\ out' = [out EXCEPT ![t] = NoLogout]
    /\ login' = [login EXCEPT ![t] = NoSid]
    /\ inbox' = [inbox EXCEPT ![t] = <<>>]
    /\ orphans' = orphans \union Requests(t)
    /\ left' = [left EXCEPT ![t] = {}]
    /\ lost' = (lost \/ Unread(t))
    /\ UNCHANGED <<server, cookie, newest, unended, crossed>>

(***************************************************************************)
(* The refresh promise settles: the lock is released and whoever waits for *)
(* the outcome goes on at once.  The interceptor of http-client.ts repeats *)
(* its request with the token that is now in memory; executeLogout asks    *)
(* again, or takes an anonymous outcome for success.                       *)
(***************************************************************************)
Settle(t, outcome) ==
    /\ job' = [job EXCEPT ![t] = NoJob]
    /\ lock' = IF lock = t THEN NoTab ELSE lock
    /\ mounted' = mounted \union {t}
    /\ api' = IF api[t].at # "wait" THEN api
              ELSE [api EXCEPT ![t] = IF outcome = "authenticated"
                        THEN [at |-> "again", sid |-> store'[t].sid] ELSE NoApi]
    /\ out' = IF out[t].at # "wait" THEN out
              ELSE [out EXCEPT ![t] = IF outcome = "authenticated"
                        THEN [NoLogout EXCEPT !.at = "again"] ELSE NoLogout]
-----------------------------------------------------------------------------
(***************************************************************************)
(* A refresh, from the lock to the outcome.                                *)
(***************************************************************************)
(* Mutant: a bootstrap that is complete is not repeated, stale session or not. *)
MutNeedsRefresh(t) == ~store[t].fresh /\ ~store[t].done

(* No valid bundle in memory, and the bootstrap is not complete or its session is stale. *)
NeedsRefresh(t) == ~store[t].fresh /\ (store[t].sid # NoSid \/ ~store[t].done)

(* The root route's beforeLoad: bootstrapAuthentication, on every navigation. *)
Navigate(t) ==
    /\ job[t].at = "none" /\ NeedsRefresh(t)
    /\ store' = [store EXCEPT ![t].done = FALSE]
    /\ job' = Joined(job, t)
    /\ UNCHANGED <<server, cookie, mounted, lock, api, out, login, inbox, orphans, history, bounds>>

(* Mutant: the refreshes of the tabs are not serialised. *)
MutLockFree == TRUE

(* performRefreshWithBrowserLock: the lock, where the browser has one. *)
LockFree == Locks => lock = NoTab

(* run(0, true): superseded while it waited for the lock, or the request leaves. *)
StartRefresh(t) ==
    /\ job[t].at = "lock" /\ LockFree
    /\ IF job[t].current
       THEN /\ job' = [job EXCEPT ![t] = Sent(@, store[t].sid)]
            /\ lock' = IF Locks THEN t ELSE lock
            /\ UNCHANGED <<store, mounted, api, out>>
       ELSE UNCHANGED store /\ Settle(t, "transient")
    /\ UNCHANGED <<server, cookie, login, inbox, orphans, history, bounds>>

(* Mutant: a mismatch clears the cookie, too. *)
MutJarAfter(t) == IF job[t].answer = "ok" THEN job[t].token ELSE NoToken

(* The cookie jar after the answer: the browser applies it whatever the page does with it. *)
JarAfter(t) ==
    CASE job[t].answer = "ok" -> job[t].token
      [] job[t].answer = "unauthorized" -> NoToken
      [] OTHER -> cookie

(* Mutant: the answer is applied without a second look at the epoch. *)
MutStillCurrent(t) == TRUE

(* isCurrent() after the answer. *)
StillCurrent(t) == job[t].current

(* acceptBundle: applyAuthBundle without an event. *)
Accept(t) ==
    /\ store' = [store EXCEPT ![t] = [sid |-> job[t].token.sid, fresh |-> TRUE, done |-> TRUE]]
    /\ Settle(t, "authenticated")
    /\ UNCHANGED inbox

(* Status 401: clearAuthentication with an event. *)
Refused(t) ==
    /\ store' = [store EXCEPT ![t] = Empty(TRUE)]
    /\ Publish(t, "signed_out", store[t].sid)
    /\ Settle(t, "anonymous")

(* Mutant: a mismatch leaves the session in memory. *)
MutMismatch(t) == UNCHANGED <<inbox, store>> /\ Settle(t, "out_of_sync")

(* 409 AUTH_SESSION_MISMATCH: forget the session, ask once more without it; then give up. *)
Mismatch(t) ==
    /\ UNCHANGED inbox
    /\ IF job[t].first
       THEN /\ store' = [store EXCEPT ![t] = Empty(FALSE)]
            /\ job' = [job EXCEPT ![t] = [Sent(@, NoSid) EXCEPT !.first = FALSE]]
            /\ UNCHANGED <<lock, mounted, api, out>>
       ELSE store' = [store EXCEPT ![t] = Empty(TRUE)] /\ Settle(t, "out_of_sync")

RefreshAnswered(t) ==
    /\ job[t].at = "answered"
    /\ cookie' = JarAfter(t)
    /\ CASE ~StillCurrent(t) -> UNCHANGED <<store, inbox>> /\ Settle(t, "transient")
         [] StillCurrent(t) /\ job[t].answer = "ok" -> Accept(t)
         [] StillCurrent(t) /\ job[t].answer = "unauthorized" -> Refused(t)
         [] OTHER -> Mismatch(t)
    /\ UNCHANGED <<server, login, orphans, history, bounds>>

(* The request or its answer is lost, or the server fails: markTransient. *)
RefreshFails(t) ==
    /\ job[t].at \in {"asked", "answered"}
    /\ faults < MaxFaults /\ faults' = faults + 1
    /\ store' = IF StillCurrent(t) THEN [store EXCEPT ![t].done = FALSE] ELSE store
    /\ lost' = (lost \/ Unread(t))
    /\ Settle(t, "transient")
    /\ UNCHANGED <<server, cookie, login, inbox, orphans, newest, left, unended, crossed>>
-----------------------------------------------------------------------------
(***************************************************************************)
(* Requests of the page, time, login, logout and the events.               *)
(***************************************************************************)
(* A request of the page that the server refuses with 401: refresh, once per request. *)
ApiRefused(t) ==
    /\ t \in Asks \cap mounted /\ store[t].sid # NoSid /\ api[t].at = "idle"
    /\ ~(store[t].fresh /\ session[store[t].sid] = "live")
    /\ api' = [api EXCEPT ![t].at = "wait"]
    /\ job' = Joined(job, t)
    /\ UNCHANGED <<server, cookie, store, mounted, lock, out, login, inbox, orphans, history, bounds>>

(* The request is repeated, and accepted. *)
ApiAccepted(t) ==
    /\ api[t].at = "again" /\ session[api[t].sid] = "live"
    /\ api' = [api EXCEPT ![t] = NoApi]
    /\ UNCHANGED <<server, cookie, store, mounted, job, lock, out, login, inbox, orphans, history, bounds>>

(* 401 again: clearAuthentication(false), and a page that had a session goes to /sign-in. *)
ApiRefusedAgain(t) ==
    /\ api[t].at = "again" /\ session[api[t].sid] # "live"
    /\ IF store[t].sid # NoSid
       THEN PageGoes(t)
       ELSE /\ store' = [store EXCEPT ![t] = Empty(TRUE)]
            /\ job' = Superseded(t)
            /\ api' = [api EXCEPT ![t] = NoApi]
            /\ UNCHANGED <<server, cookie, mounted, lock, out, login, inbox, orphans, history>>
    /\ UNCHANGED bounds

(* The access token in memory expires. *)
Expire(t) ==
    /\ store[t].fresh
    /\ store' = [store EXCEPT ![t].fresh = FALSE]
    /\ UNCHANGED <<server, cookie, mounted, job, lock, api, out, login, inbox, orphans, history, bounds>>

(* A page without a session: the server creates one and answers. *)
LoginHandled(t) ==
    /\ t \in SignsIn \cap mounted /\ store[t].sid = NoSid /\ login[t] = NoSid
    /\ \E s \in Sids :
          /\ session[s] = "none"
          /\ session' = [session EXCEPT ![s] = "live"]
          /\ login' = [login EXCEPT ![t] = s]
    /\ UNCHANGED <<grace, cookie, store, mounted, job, lock, api, out, inbox, orphans, history, bounds>>

(* Another exchange that may change the cookie is on its way. *)
Exchange == \E u \in Tabs : job[u].at \in {"asked", "answered"} \/ out[u].at = "answered"

(* useAuthRedirect: applyAuthBundle, with an event. *)
LoginAnswered(t) ==
    /\ login[t] # NoSid
    /\ cookie' = [sid |-> login[t], age |-> 0]
    /\ store' = [store EXCEPT ![t] = [sid |-> login[t], fresh |-> TRUE, done |-> TRUE]]
    /\ job' = Superseded(t)
    /\ IF store[t].sid = login[t] THEN UNCHANGED inbox ELSE Publish(t, "authenticated", login[t])
    /\ login' = [login EXCEPT ![t] = NoSid]
    /\ newest' = login[t]
    /\ crossed' = (crossed \/ Exchange)
    /\ UNCHANGED <<server, mounted, lock, api, out, orphans, left, unended, lost, bounds>>

(* The session that a logout of t is about: the one in memory, or the cookie's when there is none. *)
LogoutOf(t) == IF store[t].sid = NoSid THEN cookie.sid ELSE store[t].sid

(* executeLogout, first or after its recovery: AuthLogout handles it, and answers. *)
Logout(t) ==
    LET verdict == LogoutVerdict(store[t], cookie) IN
    /\ t \in SignsOut \cap mounted
    /\ \/ out[t].at = "idle" /\ store[t].sid # NoSid
       \/ out[t].at = "again"
    /\ IF verdict = "ok" THEN EndSession(Revoked(store[t], cookie)) ELSE UNCHANGED server
    /\ out' = [out EXCEPT ![t] = [at |-> "answered", first |-> out[t].at = "idle", sid |-> LogoutOf(t),
                                 answer |-> verdict,
                                 clears |-> verdict = "ok" /\ (cookie.sid # NoSid \/ ~store[t].fresh)]]
    /\ UNCHANGED <<cookie, store, mounted, job, lock, api, login, inbox, orphans, history, bounds>>

Leave(t) ==
    left' = [left EXCEPT ![t] = @ \union {s \in Sids : s = store[t].sid /\ session[s] # "live"}]

(* clearAuthenticatedClientState, with an event. *)
SignedOut(t) ==
    /\ store' = [store EXCEPT ![t] = Empty(TRUE)]
    /\ job' = Superseded(t)
    /\ Publish(t, "signed_out", store[t].sid)
    /\ Leave(t)
    /\ unended' = unended \union {s \in Sids : s = out[t].sid /\ session[s] = "live"}
    /\ out' = [out EXCEPT ![t] = NoLogout]

(* Success; or a mismatch, which is recovered from once by a refresh. *)
LogoutAnswered(t) ==
    /\ out[t].at = "answered"
    /\ IF out[t].answer = "ok"
       THEN /\ SignedOut(t)
            /\ cookie' = IF out[t].clears THEN NoToken ELSE cookie
       ELSE /\ out' = [out EXCEPT ![t] = IF out[t].first THEN [NoLogout EXCEPT !.at = "wait"] ELSE NoLogout]
            /\ job' = IF out[t].first THEN Joined(job, t) ELSE job
            /\ UNCHANGED <<store, inbox, cookie, left, unended>>
    /\ UNCHANGED <<server, mounted, lock, api, login, orphans, newest, crossed, lost, bounds>>

LogoutFails(t) ==
    /\ out[t].at = "answered"
    /\ faults < MaxFaults /\ faults' = faults + 1
    /\ out' = [out EXCEPT ![t] = NoLogout]
    /\ UNCHANGED <<server, cookie, store, mounted, job, lock, api, login, inbox, orphans, history>>

(***************************************************************************)
(* An event arrives; one that is a minute old is ignored, as when the tab  *)
(* was suspended.                                                          *)
(***************************************************************************)
Received(t) == Head(inbox[t])

OtherSignedIn(t) ==
    /\ inbox[t] # <<>> /\ Received(t).kind = "authenticated" /\ Received(t).sid # store[t].sid
    /\ PageGoes(t)
    /\ UNCHANGED bounds

OtherSignedOut(t) ==
    /\ inbox[t] # <<>> /\ Received(t).kind = "signed_out" /\ Received(t).sid = store[t].sid
    /\ inbox' = [inbox EXCEPT ![t] = Tail(@)]
    /\ store' = [store EXCEPT ![t] = Empty(TRUE)]
    /\ job' = Superseded(t)
    /\ Leave(t)
    /\ UNCHANGED <<server, cookie, mounted, lock, api, out, login, orphans, newest, unended, crossed, lost, bounds>>

IgnoreEvent(t) ==
    /\ inbox[t] # <<>>
    /\ inbox' = [inbox EXCEPT ![t] = Tail(@)]
    /\ UNCHANGED <<server, cookie, store, mounted, job, lock, api, out, login, orphans, history, bounds>>

(* The user reloads the page, or closes it and opens another one. *)
Reload(t) ==
    /\ faults < MaxFaults /\ faults' = faults + 1
    /\ t \in mounted
    /\ PageGoes(t)

-----------------------------------------------------------------------------
Next ==
    \/ \E t \in Tabs :
          \/ HandleRefresh(t)
          \/ Navigate(t) \/ StartRefresh(t) \/ RefreshAnswered(t) \/ RefreshFails(t)
          \/ ApiAccepted(t) \/ ApiRefused(t) \/ ApiRefusedAgain(t) \/ Expire(t)
          \/ LoginHandled(t) \/ LoginAnswered(t)
          \/ Logout(t) \/ LogoutAnswered(t) \/ LogoutFails(t)
          \/ OtherSignedIn(t) \/ OtherSignedOut(t) \/ IgnoreEvent(t) \/ Reload(t)
    \/ HandleOrphan \/ GraceEnds \/ EndedElsewhere

(***************************************************************************)
(* Requests are handled and answered, events arrive, access tokens expire, *)
(* and a page keeps making requests: the heartbeat of __root.tsx every     *)
(* 15 seconds for an administrator, the navigation of the user otherwise.  *)
(***************************************************************************)
Fairness ==
    \A t \in Tabs :
        /\ WF_vars(HandleRefresh(t) \/ RefreshAnswered(t))
        /\ WF_vars(LogoutAnswered(t)) /\ WF_vars(LoginAnswered(t))
        /\ SF_vars(StartRefresh(t))
        /\ WF_vars(Navigate(t) \/ ApiRefused(t) \/ Expire(t))
        /\ WF_vars(ApiAccepted(t) \/ ApiRefusedAgain(t))
        /\ WF_vars(OtherSignedIn(t) \/ OtherSignedOut(t) \/ IgnoreEvent(t))

Spec == Init /\ [][Next]_vars /\ Fairness
-----------------------------------------------------------------------------
(***************************************************************************)
(* Properties.                                                             *)
(***************************************************************************)
Tokens == [sid : Sids \union {NoSid}, age : 0..2]
Answers == {"none", "ok", "mismatch", "unauthorized"}

(* The types; and the lock is held by the one tab whose refresh has been sent. *)
TypeOK ==
    /\ session \in [Sids -> {"none", "live", "ended", "stolen"}]
    /\ grace \subseteq Sids /\ cookie \in Tokens
    /\ store \in [Tabs -> [sid : Sids \union {NoSid}, fresh : BOOLEAN, done : BOOLEAN]]
    /\ mounted \subseteq Tabs
    /\ job \in [Tabs -> [at : {"none", "lock", "asked", "answered"}, current : BOOLEAN, first : BOOLEAN,
                         token : Tokens, expect : Sids \union {NoSid}, answer : Answers]]
    /\ lock \in Tabs \union {NoTab}
    /\ Locks => \A t \in Tabs : lock = t <=> job[t].at \in {"asked", "answered"}
    /\ api \in [Tabs -> [at : {"idle", "wait", "again"}, sid : Sids \union {NoSid}]]
    /\ out \in [Tabs -> [at : {"idle", "answered", "wait", "again"}, first : BOOLEAN,
                         sid : Sids \union {NoSid}, answer : Answers, clears : BOOLEAN]]
    /\ login \in [Tabs -> Sids \union {NoSid}]
    /\ left \in [Tabs -> SUBSET Sids] /\ unended \subseteq Sids
    /\ crossed \in BOOLEAN /\ lost \in BOOLEAN

(* A page that has signed out of a session, itself or on the event of      *)
(* another tab, never shows that session again once the server has ended   *)
(* it: the refresh that was under way does not restore it (the isCurrent   *)
(* checks of createRefreshRunner).                                         *)
SignedOutStaysOut == \A t \in Tabs : store[t].sid # NoSid => store[t].sid \notin left[t]

(* With navigator.locks, tabs that refresh one cookie are never taken for  *)
(* thieves: a session is revoked as reused only after a refresh has been   *)
(* lost on the way, or left behind by a page that went away.               *)
NoFalseTheft == \A s \in Sids : session[s] = "stolen" => lost

(* A tab on the session of the last login, which is live and of which no   *)
(* tab has signed out, is signed out by a refused refresh only if an answer *)
(* was lost, or a login was answered while another exchange was under way  *)
(* and one's cookie has replaced the other's.                              *)
NoSelfLockout ==
    [][\A t \in Tabs :
          (/\ job[t].at = "answered" /\ job[t].answer = "unauthorized" /\ job'[t].at = "none"
           /\ store[t].sid # NoSid /\ session[store[t].sid] = "live" /\ store'[t].sid = NoSid
           /\ store[t].sid = newest /\ newest \notin unended)
          => lost \/ crossed]_vars

(* A logout that succeeds has ended the session in memory: "revokes the     *)
(* current login session and clears the cookie" (docs/authentication.md).  *)
LogoutEnds == unended = {}

(* A tab does not keep a session that is over: the event of the tab that   *)
(* ended it, or the next refused request, takes it away.                   *)
EndedLeavesTabs ==
    \A t \in Tabs, s \in Sids :
        (store[t].sid = s /\ session[s] \in {"ended", "stolen"}) ~> (store[t].sid # s)

(* Two tabs do not show different sessions for ever: again and again they  *)
(* show the same one, or one of them shows none.                           *)
TabsConverge ==
    \A t, u \in Tabs :
        []<>(store[t].sid = store[u].sid \/ store[t].sid = NoSid \/ store[u].sid = NoSid)
=============================================================================
