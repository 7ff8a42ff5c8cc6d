------------------------- MODULE BrowserAuth_proofs -------------------------
(***************************************************************************)
(* Proofs about BrowserAuth, for any number of tabs and sessions: the      *)
(* types and the lock; that a page never shows again a session that it has *)
(* left; and, in a browser that has navigator.locks, that its tabs are not *)
(* taken for thieves and do not lock each other out.                       *)
(***************************************************************************)
EXTENDS BrowserAuth, TLAPS

Refreshes == [token : Tokens, expect : Sids \union {NoSid}]

(* The answer with the next token, which the page has not seen yet. *)
Delivers(t) == job[t].at = "answered" /\ job[t].answer = "ok"

(* Something in the browser, or on its way from it, tells of session s. *)
Known(s) ==
    \/ s = cookie.sid \/ s = newest
    \/ \E t \in Tabs : s = store[t].sid \/ s = job[t].token.sid \/ s \in left[t]
    \/ \E o \in orphans : s = o.token.sid

(* The types that TypeOK leaves out. *)
Extra == orphans \subseteq Refreshes /\ newest \in Sids \union {NoSid}

(* A session that is known has been created; one that is in the answer to a login is known to nobody else. *)
Existing == \A s \in Sids : Known(s) => session[s] # "none"
Unknown ==
    \A t \in Tabs, s \in Sids : login[t] = s =>
        session[s] # "none" /\ ~Known(s) /\ \A u \in Tabs : login[u] = s => u = t

(* A session that a page has left is over, and no refresh that counts brings it back. *)
Left == \A t \in Tabs : \A s \in left[t] : session[s] # "live"
Restores ==
    \A t \in Tabs : Delivers(t) =>
        job[t].token.sid # NoSid /\ (job[t].current => job[t].token.sid \notin left[t])

(* A refresh that has not been sent has no token. *)
Unsent == \A t \in Tabs : job[t].at \in {"none", "lock"} => job[t].token = NoToken

(* With locks and nothing lost, every token in use is the current one. *)
Young ==
    Locks /\ ~lost =>
        /\ orphans = {}
        /\ \A s \in Sids : session[s] # "stolen"
        /\ \A t \in Tabs : job[t].token.age = 0
        /\ cookie.age = 0 \/ \E t \in Tabs : Delivers(t)

(* The last login's session lives, nobody has signed out of it, and no answer was lost or overtaken. *)
Loyal ==
    /\ Locks /\ ~lost /\ ~crossed
    /\ newest # NoSid /\ session[newest] = "live" /\ newest \notin unended

(* Then the cookie is its, and every refresh and logout is about it. *)
LoyalJob(t) ==
    /\ job[t].at = "asked" => job[t].token.sid = newest
    /\ job[t].at = "answered" => job[t].answer = "mismatch" \/ (job[t].answer = "ok" /\ job[t].token.sid = newest)
LoyalOut(t) == out[t].at = "answered" /\ out[t].answer = "ok" /\ out[t].clears => out[t].sid = newest
LoyalJar == Loyal => cookie.sid = newest /\ \A t \in Tabs : LoyalJob(t) /\ LoyalOut(t)

IInv ==
    /\ TypeOK /\ Extra /\ Existing /\ Unknown /\ Left /\ Restores /\ SignedOutStaysOut
    /\ Unsent /\ Young /\ LoyalJar

Stores == [sid : Sids \union {NoSid}, fresh : BOOLEAN, done : BOOLEAN]
Jobs   == [at : {"none", "lock", "asked", "answered"}, current : BOOLEAN, first : BOOLEAN,
           token : Tokens, expect : Sids \union {NoSid}, answer : Answers]
Apis   == [at : {"idle", "wait", "again"}, sid : Sids \union {NoSid}]
Outs   == [at : {"idle", "answered", "wait", "again"}, first : BOOLEAN,
           sid : Sids \union {NoSid}, answer : Answers, clears : BOOLEAN]

LockOK == Locks => \A t \in Tabs : lock = t <=> job[t].at \in {"asked", "answered"}

(* The parts of the type invariant: the server, the pages, and the refreshes. *)
ServerTypes == session \in [Sids -> {"none", "live", "ended", "stolen"}] /\ grace \subseteq Sids
PageTypes ==
    /\ store \in [Tabs -> Stores] /\ mounted \subseteq Tabs
    /\ api \in [Tabs -> Apis] /\ out \in [Tabs -> Outs] /\ login \in [Tabs -> Sids \union {NoSid}]
JobTypes == cookie \in Tokens /\ job \in [Tabs -> Jobs] /\ lock \in Tabs \union {NoTab} /\ LockOK
HistoryTypes ==
    left \in [Tabs -> SUBSET Sids] /\ unended \subseteq Sids /\ crossed \in BOOLEAN /\ lost \in BOOLEAN

(* The refresh that a join starts. *)
NewJob == [NoJob EXCEPT !.at = "lock", !.current = TRUE, !.first = TRUE]

(* The refresh of t goes on as it was, is superseded, ends, or starts. *)
Milder(t) ==
    \/ job'[t] = job[t]
    \/ job'[t] = [job[t] EXCEPT !.current = FALSE]
    \/ job'[t] = NoJob
    \/ job[t].at = "none" /\ job'[t] = NewJob
-----------------------------------------------------------------------------
(* The type invariant in its parts. *)
LEMMA TypeParts == TypeOK <=> ServerTypes /\ PageTypes /\ JobTypes /\ HistoryTypes
BY DEF TypeOK, ServerTypes, PageTypes, JobTypes, HistoryTypes, Stores, Jobs, Apis, Outs, LockOK

(* The constant records have their types. *)
LEMMA ConstTypes ==
    /\ NoToken \in Tokens /\ NoToken.sid = NoSid /\ NoToken.age = 0
    /\ NoJob \in Jobs /\ NoJob.at = "none" /\ NoJob.token = NoToken
    /\ NewJob \in Jobs /\ NewJob.at = "lock" /\ NewJob.token = NoToken
    /\ NoApi \in Apis /\ NoLogout \in Outs /\ NoLogout.at = "idle" /\ NoLogout.first = FALSE
    /\ \A b \in BOOLEAN : Empty(b) \in Stores /\ Empty(b).sid = NoSid
<1>1. NoToken \in Tokens /\ NoToken.sid = NoSid /\ NoToken.age = 0
  BY DEF NoToken, Tokens
<1>2. NoJob \in Jobs /\ NoJob.at = "none" /\ NoJob.token = NoToken
  BY <1>1 DEF NoJob, Jobs, Answers
<1>3. NewJob \in Jobs /\ NewJob.at = "lock" /\ NewJob.token = NoToken
  BY <1>1 DEF NoJob, NewJob, Jobs, Answers
<1>4. NoApi \in Apis /\ NoLogout \in Outs /\ NoLogout.at = "idle" /\ NoLogout.first = FALSE
  BY DEF NoApi, Apis, NoLogout, Outs, Answers
<1>5. \A b \in BOOLEAN : Empty(b) \in Stores /\ Empty(b).sid = NoSid
  BY DEF Empty, Stores
<1> QED  BY <1>1, <1>2, <1>3, <1>4, <1>5

(* What a milder refresh keeps. *)
LEMMA MilderFacts ==
    ASSUME IInv, NEW t \in Tabs, Milder(t)
    PROVE  /\ job'[t] \in Jobs
           /\ job'[t].token \in {job[t].token, NoToken}
           /\ job'[t].at \in {"asked", "answered"} =>
                 /\ job'[t].at = job[t].at /\ job'[t].token = job[t].token /\ job'[t].answer = job[t].answer
                 /\ job'[t].current => job[t].current
           /\ job'[t].at \in {"none", "lock"} => job'[t].token = NoToken
<1>1. job[t] \in Jobs /\ (job[t].at \in {"none", "lock"} => job[t].token = NoToken)
  BY TypeParts DEF IInv, Unsent, JobTypes
<1>2. CASE job'[t] = job[t]
  BY <1>1, <1>2
<1>3. CASE job'[t] = [job[t] EXCEPT !.current = FALSE]
  BY <1>1, <1>3 DEF Jobs
<1>4. CASE job'[t] = NoJob
  BY <1>4, ConstTypes
<1>5. CASE job[t].at = "none" /\ job'[t] = NewJob
  BY <1>5, ConstTypes
<1> QED  BY <1>2, <1>3, <1>4, <1>5 DEF Milder

(* The effects of a step that sends, answers and creates nothing. *)
Quiet ==
    /\ \A s \in Sids : session'[s] = session[s] \/ (session[s] = "live" /\ session'[s] = "ended")
    /\ \A t \in Tabs : Milder(t)
    /\ \/ cookie' = cookie \/ cookie' = NoToken
       \/ \E t \in Tabs : Delivers(t) /\ cookie' = job[t].token
    /\ \A t \in Tabs : \/ store'[t].sid \in {store[t].sid, NoSid}
                       \/ Delivers(t) /\ job[t].current /\ store'[t].sid = job[t].token.sid
    /\ \A o \in orphans' : o \in orphans \/ \E t \in Tabs : o.token = job[t].token
    /\ orphans' \subseteq Refreshes
    /\ newest' = newest /\ crossed' = crossed /\ unended \subseteq unended' /\ (lost => lost')
    /\ ~lost' => orphans' = orphans
    /\ \A t \in Tabs : login'[t] \in {login[t], NoSid}
    /\ \A t \in Tabs : \/ left'[t] \subseteq left[t] /\ (job'[t] = NoJob \/ left'[t] = left[t])
                       \/ /\ left'[t] \subseteq left[t] \union {s \in Sids : s = store[t].sid /\ session[s] # "live"}
                          /\ job'[t].current = FALSE /\ store'[t].sid = NoSid
    /\ Locks /\ ~lost' => cookie'.age = 0 \/ (cookie' = cookie /\ \A t \in Tabs : Delivers(t) => Delivers(t)')
    /\ Loyal' => cookie'.sid = newest /\ \A t \in Tabs : LoyalOut(t)'

(* A quiet step keeps the invariant. *)
LEMMA QuietKeeps ==
    ASSUME IInv, TypeOK', Quiet
    PROVE  IInv'
<1> DEFINE M(t) ==
      /\ job'[t].token \in {job[t].token, NoToken}
      /\ job'[t].at \in {"asked", "answered"} =>
            /\ job'[t].at = job[t].at /\ job'[t].token = job[t].token /\ job'[t].answer = job[t].answer
            /\ job'[t].current => job[t].current
      /\ job'[t].at \in {"none", "lock"} => job'[t].token = NoToken
<1>1. \A t \in Tabs : M(t)
  BY MilderFacts DEF Quiet
<1>2. NoToken.sid = NoSid /\ NoToken.age = 0 /\ NoSid \notin Sids
  BY ConstTypes, BrowserAssumption
<1>3. ASSUME NEW s \in Sids, Known(s)' PROVE Known(s)
  <2>1. CASE s = cookie'.sid
    BY <1>2, <2>1 DEF Quiet, Known
  <2>2. CASE s = newest'
    BY <2>2 DEF Quiet, Known
  <2>3. CASE \E t \in Tabs : s = store'[t].sid
    BY <1>2, <2>3 DEF Quiet, Known
  <2>4. CASE \E t \in Tabs : s = job'[t].token.sid
    BY <1>1, <1>2, <2>4 DEF Known
  <2>5. CASE \E t \in Tabs : s \in left'[t]
    <3>1. PICK t \in Tabs : s \in left'[t]
      BY <2>5
    <3>2. s \in left[t] \/ s = store[t].sid
      BY <3>1 DEF Quiet
    <3> QED  BY <3>2 DEF Known
  <2>6. CASE \E o \in orphans' : s = o.token.sid
    BY <2>6 DEF Quiet, Known
  <2> QED  BY <1>3, <2>1, <2>2, <2>3, <2>4, <2>5, <2>6 DEF Known
<1>4. \A s \in Sids : /\ session[s] # "none" => session'[s] # "none"
                      /\ session'[s] = "live" => session[s] = "live"
                      /\ session'[s] = "stolen" => session[s] = "stolen"
  BY DEF Quiet
<1>5. /\ left \in [Tabs -> SUBSET Sids] /\ left' \in [Tabs -> SUBSET Sids] /\ login \in [Tabs -> Sids \union {NoSid}]
  BY DEF IInv, TypeOK
<1>6. Extra' /\ Existing'
  BY <1>3, <1>4 DEF IInv, Extra, Existing, Quiet
<1>7. Unknown'
  <2> SUFFICES ASSUME NEW t \in Tabs, NEW s \in Sids, login'[t] = s
               PROVE  session'[s] # "none" /\ ~Known(s)' /\ \A u \in Tabs : login'[u] = s => u = t
    BY DEF Unknown
  <2>1. \A u \in Tabs : login'[u] \in {login[u], NoSid}
    BY DEF Quiet
  <2>2. session[s] # "none" /\ ~Known(s) /\ \A u \in Tabs : login[u] = s => u = t
    BY <1>2, <2>1 DEF IInv, Unknown
  <2> QED  BY <1>2, <1>3, <1>4, <2>1, <2>2
<1>8. Left'
  <2>1. ASSUME NEW t \in Tabs, NEW s \in left'[t] PROVE session'[s] # "live"
    <3>1. s \in Sids /\ (s \in left[t] \/ session[s] # "live")
      BY <1>5, <2>1 DEF Quiet
    <3> QED  BY <1>4, <3>1 DEF IInv, Left
  <2> QED  BY <2>1 DEF Left
<1>9. Restores'
  <2> SUFFICES ASSUME NEW t \in Tabs, Delivers(t)'
               PROVE  job'[t].token.sid # NoSid /\ (job'[t].current => job'[t].token.sid \notin left'[t])
    BY DEF Restores
  <2>1. Delivers(t) /\ job'[t].token = job[t].token /\ (job'[t].current => job[t].current)
    BY <1>1 DEF Delivers
  <2>2. job[t].token.sid # NoSid /\ (job[t].current => job[t].token.sid \notin left[t])
    BY <2>1 DEF IInv, Restores
  <2>3. job'[t].current = FALSE \/ left'[t] \subseteq left[t]
    BY DEF Quiet
  <2> QED  BY <2>1, <2>2, <2>3
<1>10. SignedOutStaysOut'
  <2> SUFFICES ASSUME NEW t \in Tabs, store'[t].sid # NoSid PROVE store'[t].sid \notin left'[t]
    BY DEF SignedOutStaysOut
  <2>1. left'[t] \subseteq left[t]
    BY DEF Quiet
  <2>2. CASE store'[t].sid = store[t].sid
    BY <2>1, <2>2 DEF IInv, SignedOutStaysOut
  <2>3. CASE Delivers(t) /\ job[t].current /\ store'[t].sid = job[t].token.sid
    BY <2>1, <2>3 DEF IInv, Restores
  <2> QED  BY <2>2, <2>3 DEF Quiet
<1>11. Unsent'
  BY <1>1 DEF Unsent
<1>12. Young'
  <2> SUFFICES ASSUME Locks, ~lost'
               PROVE  /\ orphans' = {}
                      /\ \A s \in Sids : session'[s] # "stolen"
                      /\ \A t \in Tabs : job'[t].token.age = 0
                      /\ cookie'.age = 0 \/ \E t \in Tabs : Delivers(t)'
    BY DEF Young
  <2>1. /\ orphans = {} /\ (\A s \in Sids : session[s] # "stolen") /\ \A t \in Tabs : job[t].token.age = 0
        /\ cookie.age = 0 \/ \E t \in Tabs : Delivers(t)
    BY DEF IInv, Young, Quiet
  <2>2. orphans' = {} /\ \A s \in Sids : session'[s] # "stolen"
    BY <1>4, <2>1 DEF Quiet
  <2>3. \A t \in Tabs : job'[t].token.age = 0
    BY <1>1, <1>2, <2>1
  <2>4. cookie'.age = 0 \/ \E t \in Tabs : Delivers(t)'
    BY <2>1 DEF Quiet
  <2> QED  BY <2>2, <2>3, <2>4
<1>13. LoyalJar'
  <2> SUFFICES ASSUME Loyal' PROVE cookie'.sid = newest' /\ \A t \in Tabs : LoyalJob(t)' /\ LoyalOut(t)'
    BY DEF LoyalJar
  <2>1. newest' = newest /\ newest \in Sids /\ newest # NoSid
    BY DEF IInv, Extra, Quiet, Loyal
  <2>2. Loyal
    BY <1>4, <2>1 DEF Loyal, Quiet
  <2>3. ASSUME NEW t \in Tabs PROVE LoyalJob(t)'
    <3>1. LoyalJob(t) /\ M(t)
      BY <1>1, <2>2 DEF IInv, LoyalJar
    <3> QED  BY <2>1, <3>1 DEF LoyalJob
  <2> QED  BY <2>1, <2>3 DEF Quiet
<1> QED  BY <1>6, <1>7, <1>8, <1>9, <1>10, <1>11, <1>12, <1>13 DEF IInv

(* A token that ages is of the same session. *)
LEMMA AgedFacts ==
    ASSUME NEW tok \in Tokens, NEW s
    PROVE  Aged(tok, s) \in Tokens /\ Aged(tok, s).sid = tok.sid /\ (tok.sid # s => Aged(tok, s) = tok)
<1>1. CASE tok.sid = s /\ tok.age < 2
  <2>1. Aged(tok, s) = [tok EXCEPT !.age = tok.age + 1]
    BY <1>1 DEF Aged
  <2>2. tok.age + 1 \in 0..2
    BY <1>1 DEF Tokens
  <2> QED  BY <1>1, <2>1, <2>2 DEF Tokens
<1>2. CASE ~(tok.sid = s /\ tok.age < 2)
  BY <1>2 DEF Aged
<1> QED  BY <1>1, <1>2

(* A refresh whose token ages is otherwise the same. *)
LEMMA AgedJobFacts ==
    ASSUME IInv, NEW t \in Tabs, NEW s \in Sids
    PROVE  /\ AgedJobs(s)[t] \in Jobs
           /\ AgedJobs(s)[t].at = job[t].at /\ AgedJobs(s)[t].current = job[t].current
           /\ AgedJobs(s)[t].answer = job[t].answer /\ AgedJobs(s)[t].token.sid = job[t].token.sid
           /\ job[t].at \in {"none", "lock"} => AgedJobs(s)[t].token = NoToken
<1>1. job[t] \in Jobs /\ job[t].token \in Tokens
  BY TypeParts DEF IInv, JobTypes, Jobs
<1>2. AgedJobs(s)[t] = [job[t] EXCEPT !.token = Aged(job[t].token, s)]
  BY DEF AgedJobs
<1>3. /\ Aged(job[t].token, s) \in Tokens /\ Aged(job[t].token, s).sid = job[t].token.sid
      /\ job[t].token.sid # s => Aged(job[t].token, s) = job[t].token
  BY <1>1, AgedFacts
<1>4. job[t].at \in {"none", "lock"} => job[t].token = NoToken
  BY DEF IInv, Unsent
<1>5. NoToken.sid # s
  BY ConstTypes, BrowserAssumption
<1>6. AgedJobs(s)[t].token = Aged(job[t].token, s)
  BY <1>1, <1>2 DEF Jobs
<1>7. AgedJobs(s)[t] \in Jobs
  BY <1>1, <1>2, <1>3 DEF Jobs
<1> QED  BY <1>1, <1>2, <1>3, <1>4, <1>5, <1>6, <1>7 DEF Jobs

(* The server's answers. *)
LEMMA VerdictFacts ==
    ASSUME TypeOK, NEW tok \in Tokens, NEW expect \in Sids \union {NoSid}, NEW v, v = RefreshVerdict(tok, expect)
    PROVE  /\ v \in Answers \ {"none"}
           /\ v = "ok" => tok.sid \in Sids /\ session[tok.sid] = "live"
           /\ v = "unauthorized" => tok.sid = NoSid \/ session[tok.sid] # "live" \/ tok.age # 0
           /\ AnswerToken(tok, v) \in Tokens /\ AnswerToken(tok, v).age = 0
           /\ v = "ok" => AnswerToken(tok, v).sid = tok.sid
           /\ AnswerToken(tok, v).sid \in {tok.sid, NoSid}
<1>1. /\ v \in Answers \ {"none"}
      /\ v = "ok" => tok.sid \in Sids /\ session[tok.sid] = "live"
      /\ v = "unauthorized" => tok.sid = NoSid \/ session[tok.sid] # "live" \/ tok.age # 0
  BY DEF RefreshVerdict, Answers, Tokens
<1>2. CASE v = "ok"
  <2>1. AnswerToken(tok, v) = [tok EXCEPT !.age = 0]
    BY <1>2 DEF AnswerToken
  <2> QED  BY <1>1, <2>1 DEF Tokens
<1>3. CASE v # "ok"
  BY <1>1, <1>3, ConstTypes DEF AnswerToken
<1> QED  BY <1>1, <1>2, <1>3

(* What a refresh does to the server. *)
LEMMA RefreshServerFacts ==
    ASSUME TypeOK, NEW tok \in Tokens, NEW expect \in Sids \union {NoSid}, NEW v, v = RefreshVerdict(tok, expect),
           RefreshServer(tok, v)
    PROVE  /\ ServerTypes'
           /\ \A s \in Sids : \/ session'[s] = session[s]
                              \/ s = tok.sid /\ tok.age = 1 /\ session[s] = "live" /\ session'[s] = "stolen"
<1>1. v = "ok" => tok.sid \in Sids
  BY VerdictFacts
<1>2. session \in [Sids -> {"none", "live", "ended", "stolen"}] /\ grace \subseteq Sids
  BY DEF TypeOK
<1>3. session' = IF Reused(tok, v) THEN [session EXCEPT ![tok.sid] = "stolen"] ELSE session
  BY DEF RefreshServer
<1>4. grace' \subseteq Sids
  BY <1>1, <1>2 DEF RefreshServer, Rotates
<1>5. CASE Reused(tok, v)
  BY <1>2, <1>3, <1>4, <1>5 DEF Reused, ServerTypes
<1>6. CASE ~Reused(tok, v)
  BY <1>2, <1>3, <1>4, <1>6 DEF ServerTypes
<1> QED  BY <1>5, <1>6

(* A step of the server that creates no session tells of none that was not known. *)
LEMMA ServerStep ==
    ASSUME IInv,
           \A s \in Sids : session'[s] = session[s] \/ (session[s] = "live" /\ session'[s] = "stolen"),
           cookie'.sid = cookie.sid,
           \A u \in Tabs : job'[u].token.sid \in {job[u].token.sid, NoSid},
           orphans' \subseteq Refreshes, \A o \in orphans' : \E x \in orphans : o.token.sid = x.token.sid,
           UNCHANGED <<store, login, history>>
    PROVE  Extra' /\ Existing' /\ Unknown' /\ Left' /\ SignedOutStaysOut' /\ (Loyal' => Loyal)
<1>1. UNCHANGED <<newest, left, unended, crossed, lost>> /\ NoSid \notin Sids
  BY BrowserAssumption DEF history
<1>2. ASSUME NEW s \in Sids, Known(s)' PROVE Known(s)
  <2>1. CASE s \in {cookie'.sid, newest'} \/ \E t \in Tabs : s = store'[t].sid \/ s \in left'[t]
    BY <1>1, <2>1 DEF Known
  <2>2. CASE \E t \in Tabs : s = job'[t].token.sid
    BY <1>1, <2>2 DEF Known
  <2>3. CASE \E o \in orphans' : s = o.token.sid
    BY <2>3 DEF Known
  <2> QED  BY <1>2, <2>1, <2>2, <2>3 DEF Known
<1>3. Extra' /\ Existing'
  BY <1>1, <1>2 DEF IInv, Extra, Existing
<1>4. Unknown'
  <2> SUFFICES ASSUME NEW t \in Tabs, NEW s \in Sids, login'[t] = s
               PROVE  session'[s] # "none" /\ ~Known(s)' /\ \A u \in Tabs : login'[u] = s => u = t
    BY DEF Unknown
  <2>1. session[s] # "none" /\ ~Known(s) /\ \A u \in Tabs : login[u] = s => u = t
    BY DEF IInv, Unknown
  <2> QED  BY <1>2, <2>1
<1>5. Left' /\ SignedOutStaysOut'
  <2>1. left \in [Tabs -> SUBSET Sids]
    BY DEF IInv, TypeOK
  <2>2. \A t \in Tabs : \A s \in left[t] : session'[s] # "live"
    BY <2>1 DEF IInv, Left
  <2> QED  BY <1>1, <2>2 DEF Left, SignedOutStaysOut, IInv
<1>6. Loyal' => Loyal
  BY <1>1 DEF Loyal, IInv, Extra
<1> QED  BY <1>3, <1>4, <1>5, <1>6

(* The tokens of a rotated session age, in the cookie and on the way. *)
LEMMA AgeTheRestFacts ==
    ASSUME IInv, NEW s \in Sids
    PROVE  /\ Aged(cookie, s) \in Tokens /\ Aged(cookie, s).sid = cookie.sid
           /\ \A o \in orphans : /\ [o EXCEPT !.token = Aged(@, s)] \in Refreshes
                                 /\ [o EXCEPT !.token = Aged(@, s)].token.sid = o.token.sid
<1>1. cookie \in Tokens /\ orphans \subseteq Refreshes
  BY DEF IInv, TypeOK, Extra
<1>2. ASSUME NEW o \in orphans
      PROVE  /\ [o EXCEPT !.token = Aged(@, s)] \in Refreshes
             /\ [o EXCEPT !.token = Aged(@, s)].token.sid = o.token.sid
  <2>1. o \in Refreshes /\ o.token \in Tokens
    BY <1>1 DEF Refreshes
  <2>2. Aged(o.token, s) \in Tokens /\ Aged(o.token, s).sid = o.token.sid
    BY <2>1, AgedFacts
  <2> QED  BY <2>1, <2>2 DEF Refreshes
<1> QED  BY <1>1, <1>2, AgedFacts

(* The server handles the refresh of tab t. *)
LEMMA HandleRefreshKeeps ==
    ASSUME IInv, NEW t \in Tabs, HandleRefresh(t)
    PROVE  IInv'
<1>1. PICK tok, v :
        /\ tok = job[t].token /\ v = RefreshVerdict(tok, job[t].expect)
        /\ job[t].at = "asked"
        /\ RefreshServer(tok, v)
        /\ IF Rotates(tok, v)
           THEN /\ AgeTheRest(tok.sid)
                /\ job' = [AgedJobs(tok.sid) EXCEPT ![t] =
                             [job[t] EXCEPT !.at = "answered", !.answer = v, !.expect = NoSid,
                                            !.token = AnswerToken(tok, v)]]
           ELSE /\ UNCHANGED <<cookie, orphans>>
                /\ job' = [job EXCEPT ![t] =
                             [job[t] EXCEPT !.at = "answered", !.answer = v, !.expect = NoSid,
                                            !.token = AnswerToken(tok, v)]]
        /\ UNCHANGED <<store, mounted, lock, api, out, login, inbox, history, bounds>>
  BY DEF HandleRefresh
<1>2. job \in [Tabs -> Jobs] /\ job[t] \in Jobs /\ tok \in Tokens /\ job[t].expect \in Sids \union {NoSid} /\ TypeOK
  BY <1>1, TypeParts DEF IInv, JobTypes, Jobs
<1>3. /\ v \in Answers \ {"none"}
      /\ v = "ok" => tok.sid \in Sids /\ session[tok.sid] = "live"
      /\ v = "unauthorized" => tok.sid = NoSid \/ session[tok.sid] # "live" \/ tok.age # 0
      /\ AnswerToken(tok, v) \in Tokens /\ AnswerToken(tok, v).age = 0
      /\ v = "ok" => AnswerToken(tok, v).sid = tok.sid
      /\ AnswerToken(tok, v).sid \in {tok.sid, NoSid}
  BY <1>1, <1>2, VerdictFacts
<1>4. /\ ServerTypes'
      /\ \A s \in Sids : \/ session'[s] = session[s]
                         \/ s = tok.sid /\ tok.age = 1 /\ session[s] = "live" /\ session'[s] = "stolen"
  BY <1>1, <1>2, RefreshServerFacts
<1> DEFINE r == [job[t] EXCEPT !.at = "answered", !.answer = v, !.expect = NoSid, !.token = AnswerToken(tok, v)]
<1>5. /\ r \in Jobs /\ r.at = "answered" /\ r.answer = v /\ r.token = AnswerToken(tok, v)
      /\ r.current = job[t].current
  BY <1>2, <1>3 DEF Jobs
<1>6. /\ job' \in [Tabs -> Jobs] /\ job'[t] = r
      /\ \A u \in Tabs \ {t} : /\ job'[u].at = job[u].at /\ job'[u].current = job[u].current
                               /\ job'[u].answer = job[u].answer /\ job'[u].token.sid = job[u].token.sid
                               /\ job[u].at \in {"none", "lock"} => job'[u].token = NoToken
  <2>1. CASE Rotates(tok, v)
    <3>1. tok.sid \in Sids
      BY <1>3, <2>1 DEF Rotates
    <3>2. job' = [AgedJobs(tok.sid) EXCEPT ![t] = r]
      BY <1>1, <2>1
    <3>3. AgedJobs(tok.sid) \in [Tabs -> Jobs]
      <4>1. \A u \in Tabs : AgedJobs(tok.sid)[u] \in Jobs
        BY <3>1, AgedJobFacts
      <4> QED  BY <4>1 DEF AgedJobs
    <3>4. \A u \in Tabs \ {t} : job'[u] = AgedJobs(tok.sid)[u]
      BY <3>2, <3>3
    <3> HIDE DEF r
    <3>5. job' \in [Tabs -> Jobs] /\ job'[t] = r
      BY <1>5, <3>2, <3>3
    <3> QED  BY <3>1, <3>4, <3>5, AgedJobFacts
  <2>2. CASE ~Rotates(tok, v)
    <3>1. job' = [job EXCEPT ![t] = r]
      BY <1>1, <2>2
    <3> HIDE DEF r
    <3> QED  BY <1>2, <1>5, <3>1 DEF IInv, Unsent
  <2> QED  BY <2>1, <2>2
<1> HIDE DEF r
<1>7. /\ cookie' \in Tokens /\ cookie'.sid = cookie.sid /\ orphans' \subseteq Refreshes
      /\ \A o \in orphans' : \E x \in orphans : o.token.sid = x.token.sid
  <2>1. CASE Rotates(tok, v)
    <3>1. tok.sid \in Sids
      BY <1>3, <2>1 DEF Rotates
    <3>2. cookie' = Aged(cookie, tok.sid) /\ orphans' = {[o EXCEPT !.token = Aged(@, tok.sid)] : o \in orphans}
      BY <1>1, <2>1 DEF AgeTheRest
    <3> QED  BY <3>1, <3>2, AgeTheRestFacts
  <2>2. CASE ~Rotates(tok, v)
    BY <1>1, <1>2, <2>2 DEF IInv, Extra, TypeOK
  <2> QED  BY <2>1, <2>2
<1>8. UNCHANGED <<store, mounted, lock, api, out, login, newest, left, unended, crossed, lost>>
  BY <1>1 DEF history
<1>9. TypeOK'
  <2>1. PageTypes' /\ HistoryTypes'
    BY <1>2, <1>8, TypeParts DEF PageTypes, HistoryTypes
  <2>2. LockOK'
    BY <1>1, <1>2, <1>5, <1>6, <1>8 DEF LockOK, TypeOK
  <2>3. JobTypes'
    BY <1>2, <1>6, <1>7, <1>8, <2>2 DEF JobTypes, TypeOK
  <2>4. (ServerTypes /\ PageTypes /\ JobTypes /\ HistoryTypes => TypeOK)'
    BY TypeParts, PTL
  <2> QED  BY <1>4, <2>1, <2>3, <2>4
<1>10. \A u \in Tabs : job'[u].token.sid \in {job[u].token.sid, NoSid}
  BY <1>1, <1>3, <1>5, <1>6
<1>11. Extra' /\ Existing' /\ Unknown' /\ Left' /\ SignedOutStaysOut' /\ (Loyal' => Loyal)
  BY <1>1, <1>4, <1>7, <1>10, ServerStep
<1>12. Restores'
  <2> SUFFICES ASSUME NEW u \in Tabs, Delivers(u)'
               PROVE  job'[u].token.sid # NoSid /\ (job'[u].current => job'[u].token.sid \notin left'[u])
    BY DEF Restores
  <2>1. CASE u = t
    <3>1. v = "ok" /\ job'[t].token.sid = tok.sid
      BY <1>3, <1>5, <1>6, <2>1 DEF Delivers
    <3>2. tok.sid \in Sids /\ session[tok.sid] = "live" /\ tok.sid # NoSid
      BY <1>3, <3>1, BrowserAssumption
    <3> QED  BY <1>8, <2>1, <3>1, <3>2 DEF IInv, Left
  <2>2. CASE u # t
    BY <1>6, <1>8, <2>2 DEF Delivers, IInv, Restores
  <2> QED  BY <2>1, <2>2
<1>13. Unsent'
  BY <1>5, <1>6 DEF Unsent
<1>14. Young'
  <2> SUFFICES ASSUME Locks, ~lost'
               PROVE  /\ orphans' = {}
                      /\ \A s \in Sids : session'[s] # "stolen"
                      /\ \A u \in Tabs : job'[u].token.age = 0
                      /\ cookie'.age = 0 \/ \E u \in Tabs : Delivers(u)'
    BY DEF Young
  <2>1. /\ orphans = {} /\ (\A s \in Sids : session[s] # "stolen") /\ (\A u \in Tabs : job[u].token.age = 0)
        /\ cookie.age = 0 \/ \E u \in Tabs : Delivers(u)
    BY <1>8 DEF IInv, Young
  <2>2. tok.age = 0
    BY <1>1, <2>1
  <2>3. orphans' = {} /\ \A s \in Sids : session'[s] # "stolen"
    BY <1>4, <1>7, <2>1, <2>2
  <2>4. \A u \in Tabs \ {t} : job[u].at \in {"none", "lock"}
    BY <1>1, <1>2 DEF TypeOK, Jobs
  <2>5. \A u \in Tabs : job'[u].token.age = 0
    BY <1>3, <1>5, <1>6, <2>4, ConstTypes
  <2>6. cookie.age = 0
    BY <1>1, <2>1, <2>4 DEF Delivers
  <2>7. CASE v = "ok"
    BY <1>5, <1>6, <2>3, <2>5, <2>7 DEF Delivers
  <2>8. CASE v # "ok"
    BY <1>1, <2>3, <2>5, <2>6, <2>8 DEF Rotates
  <2> QED  BY <2>7, <2>8
<1>15. LoyalJar'
  <2> SUFFICES ASSUME Loyal' PROVE cookie'.sid = newest' /\ \A u \in Tabs : LoyalJob(u)' /\ LoyalOut(u)'
    BY DEF LoyalJar
  <2>1. Loyal /\ cookie.sid = newest /\ \A u \in Tabs : LoyalJob(u) /\ LoyalOut(u)
    BY <1>11 DEF IInv, LoyalJar
  <2>2. cookie'.sid = newest' /\ \A u \in Tabs : LoyalOut(u)'
    BY <1>7, <1>8, <2>1 DEF LoyalOut
  <2>3. LoyalJob(t)'
    <3>1. tok.sid = newest /\ tok.age = 0 /\ newest # NoSid /\ session[newest] = "live"
      BY <1>1, <2>1 DEF LoyalJob, Loyal, IInv, Young
    <3>2. v \in {"ok", "mismatch"}
      BY <1>3, <3>1 DEF Answers
    <3> QED  BY <1>3, <1>5, <1>6, <1>8, <3>1, <3>2 DEF LoyalJob
  <2>4. ASSUME NEW u \in Tabs, u # t PROVE LoyalJob(u)'
    BY <1>6, <1>8, <2>1, <2>4 DEF LoyalJob
  <2> QED  BY <2>2, <2>3, <2>4
<1> QED  BY <1>9, <1>11, <1>12, <1>13, <1>14, <1>15 DEF IInv

(* The server handles the refresh of a page that has gone. *)
LEMMA HandleOrphanKeeps == IInv /\ HandleOrphan => IInv'
<1> SUFFICES ASSUME IInv, HandleOrphan PROVE IInv'
  OBVIOUS
<1>1. PICK o, v :
        /\ o \in orphans
        /\ v = RefreshVerdict(o.token, o.expect)
        /\ RefreshServer(o.token, v)
        /\ IF Rotates(o.token, v)
           THEN /\ cookie' = Aged(cookie, o.token.sid)
                /\ job' = AgedJobs(o.token.sid)
                /\ orphans' = {[x EXCEPT !.token = Aged(@, o.token.sid)] : x \in orphans \ {o}}
           ELSE orphans' = orphans \ {o} /\ UNCHANGED <<cookie, job>>
        /\ UNCHANGED <<store, mounted, lock, api, out, login, inbox, history, bounds>>
  BY DEF HandleOrphan
<1>2. PICK tok \in Tokens : tok = o.token /\ o.expect \in Sids \union {NoSid}
  BY <1>1 DEF IInv, Extra, Refreshes
<1>3. v = "ok" => tok.sid \in Sids
  BY <1>1, <1>2, VerdictFacts DEF IInv
<1>4. /\ ServerTypes'
      /\ \A s \in Sids : \/ session'[s] = session[s]
                         \/ s = tok.sid /\ tok.age = 1 /\ session[s] = "live" /\ session'[s] = "stolen"
  BY <1>1, <1>2, RefreshServerFacts DEF IInv
<1>5. /\ job' \in [Tabs -> Jobs]
      /\ \A u \in Tabs : /\ job'[u].at = job[u].at /\ job'[u].current = job[u].current
                         /\ job'[u].answer = job[u].answer /\ job'[u].token.sid = job[u].token.sid
                         /\ job[u].at \in {"none", "lock"} => job'[u].token = NoToken
  <2>1. CASE Rotates(tok, v)
    <3>1. tok.sid \in Sids /\ job' = AgedJobs(tok.sid)
      BY <1>1, <1>2, <1>3, <2>1 DEF Rotates
    <3>2. \A u \in Tabs : AgedJobs(tok.sid)[u] \in Jobs
      BY <3>1, AgedJobFacts
    <3>3. AgedJobs(tok.sid) \in [Tabs -> Jobs]
      BY <3>2 DEF AgedJobs
    <3> QED  BY <3>1, <3>3, AgedJobFacts
  <2>2. CASE ~Rotates(tok, v)
    BY <1>1, <1>2, <2>2, TypeParts DEF IInv, Unsent, JobTypes
  <2> QED  BY <2>1, <2>2
<1>6. /\ cookie' \in Tokens /\ cookie'.sid = cookie.sid /\ orphans' \subseteq Refreshes
      /\ \A p \in orphans' : \E x \in orphans : p.token.sid = x.token.sid
  <2>1. CASE Rotates(tok, v)
    <3>1. tok.sid \in Sids
      BY <1>3, <2>1 DEF Rotates
    <3>2. /\ cookie' = Aged(cookie, tok.sid)
          /\ orphans' = {[x EXCEPT !.token = Aged(@, tok.sid)] : x \in orphans \ {o}}
      BY <1>1, <1>2, <2>1
    <3> QED  BY <3>1, <3>2, AgeTheRestFacts
  <2>2. CASE ~Rotates(tok, v)
    BY <1>1, <1>2, <2>2 DEF IInv, Extra, TypeOK
  <2> QED  BY <2>1, <2>2
<1>7. UNCHANGED <<store, mounted, lock, api, out, login, newest, left, unended, crossed, lost>>
  BY <1>1 DEF history
<1>8. TypeOK'
  <2>1. PageTypes' /\ HistoryTypes'
    BY <1>7, TypeParts DEF IInv, PageTypes, HistoryTypes
  <2>2. JobTypes'
    BY <1>5, <1>6, <1>7, TypeParts DEF IInv, JobTypes, LockOK
  <2>3. (ServerTypes /\ PageTypes /\ JobTypes /\ HistoryTypes => TypeOK)'
    BY TypeParts, PTL
  <2> QED  BY <1>4, <2>1, <2>2, <2>3
<1>9. Extra' /\ Existing' /\ Unknown' /\ Left' /\ SignedOutStaysOut' /\ (Loyal' => Loyal)
  <2>1. \A u \in Tabs : job'[u].token.sid \in {job[u].token.sid, NoSid}
    BY <1>5
  <2> QED  BY <1>1, <1>4, <1>6, <2>1, ServerStep
<1>10. Restores' /\ Unsent'
  BY <1>5, <1>7 DEF IInv, Restores, Unsent, Delivers
<1>11. Locks => lost'
  BY <1>1, <1>7 DEF IInv, Young
<1>12. Young' /\ LoyalJar'
  BY <1>11 DEF Young, LoyalJar, Loyal
<1> QED  BY <1>8, <1>9, <1>10, <1>12 DEF IInv

(* The type invariant of the next state, from its parts. *)
LEMMA TypeNext == ServerTypes' /\ PageTypes' /\ JobTypes' /\ HistoryTypes' => TypeOK'
BY DEF TypeOK, ServerTypes, PageTypes, JobTypes, HistoryTypes, Stores, Jobs, Apis, Outs, LockOK

(* Whoever is loyal after a step without a login was loyal before it. *)
LEMMA LoyalBack ==
    ASSUME IInv, newest' = newest, crossed' = crossed, lost => lost', unended \subseteq unended',
           \A s \in Sids : session'[s] = session[s] \/ (session[s] = "live" /\ session'[s] = "ended"),
           Loyal'
    PROVE  Loyal /\ cookie.sid = newest /\ \A t \in Tabs : LoyalJob(t) /\ LoyalOut(t)
<1>1. Loyal
  BY DEF Loyal, IInv, Extra
<1> QED  BY <1>1 DEF IInv, LoyalJar

(* A page joins a refresh. *)
LEMMA JoinedFacts ==
    ASSUME IInv, NEW t \in Tabs, job' = Joined(job, t), lock' = lock, cookie' = cookie
    PROVE  /\ JobTypes' /\ (\A u \in Tabs : Milder(u)) /\ \A u \in Tabs : Delivers(u) => Delivers(u)'
<1>1. JobTypes
  BY TypeParts DEF IInv
<1>2. CASE job[t].at = "none"
  <2>1. job' = [job EXCEPT ![t] = NewJob]
    BY <1>2 DEF Joined, NewJob
  <2>2. job' \in [Tabs -> Jobs] /\ job'[t] = NewJob /\ \A u \in Tabs \ {t} : job'[u] = job[u]
    BY <1>1, <2>1, ConstTypes DEF JobTypes
  <2>3. LockOK'
    BY <1>1, <1>2, <2>2, ConstTypes DEF JobTypes, LockOK
  <2>4. \A u \in Tabs : Milder(u)
    BY <1>2, <2>2 DEF Milder
  <2>5. \A u \in Tabs : Delivers(u) => Delivers(u)'
    BY <1>2, <2>2 DEF Delivers
  <2> QED  BY <1>1, <2>2, <2>3, <2>4, <2>5 DEF JobTypes
<1>3. CASE job[t].at # "none"
  BY <1>1, <1>3 DEF Joined, JobTypes, LockOK, Milder, Delivers
<1> QED  BY <1>2, <1>3

(* The refresh of a page is superseded. *)
LEMMA SupersededFacts ==
    ASSUME IInv, NEW t \in Tabs, job' = Superseded(t), lock' = lock, cookie' \in Tokens
    PROVE  /\ JobTypes' /\ (\A u \in Tabs : Milder(u)) /\ (\A u \in Tabs : Delivers(u) => Delivers(u)')
           /\ job'[t].current = FALSE /\ (\A u \in Tabs : job'[u].at = job[u].at /\ job'[u].token = job[u].token)
           /\ \A u \in Tabs \ {t} : job'[u] = job[u]
<1>1. JobTypes
  BY TypeParts DEF IInv
<1>2. job[t] \in Jobs
  BY <1>1 DEF JobTypes
<1>3. PICK j : j = [job[t] EXCEPT !.current = FALSE]
  OBVIOUS
<1>4. j \in Jobs /\ j.at = job[t].at /\ j.answer = job[t].answer /\ j.current = FALSE /\ j.token = job[t].token
  BY <1>2, <1>3 DEF Jobs
<1>5. job' = [job EXCEPT ![t] = j]
  BY <1>1, <1>3 DEF Superseded, JobTypes
<1>6. job' \in [Tabs -> Jobs] /\ job'[t] = j /\ \A u \in Tabs \ {t} : job'[u] = job[u]
  BY <1>1, <1>4, <1>5 DEF JobTypes
<1>7. LockOK'
  BY <1>1, <1>4, <1>6 DEF JobTypes, LockOK
<1>8. \A u \in Tabs : Milder(u)
  BY <1>3, <1>6 DEF Milder
<1>9. \A u \in Tabs : Delivers(u) => Delivers(u)'
  BY <1>4, <1>6 DEF Delivers
<1> QED  BY <1>1, <1>4, <1>6, <1>7, <1>8, <1>9 DEF JobTypes

(* The refresh of a page is over, and its lock free. *)
LEMMA NoJobFacts ==
    ASSUME IInv, NEW t \in Tabs, job' = [job EXCEPT ![t] = NoJob], lock' = IF lock = t THEN NoTab ELSE lock,
           cookie' \in Tokens
    PROVE  /\ JobTypes' /\ (\A u \in Tabs : Milder(u)) /\ job'[t] = NoJob /\ \A u \in Tabs \ {t} : job'[u] = job[u]
<1>1. JobTypes
  BY TypeParts DEF IInv
<1>2. job' \in [Tabs -> Jobs] /\ job'[t] = NoJob /\ \A u \in Tabs \ {t} : job'[u] = job[u]
  BY <1>1, ConstTypes DEF JobTypes
<1>3. LockOK'
  BY <1>1, <1>2, ConstTypes, BrowserAssumption DEF JobTypes, LockOK
<1> QED  BY <1>1, <1>2, <1>3 DEF JobTypes, Milder

(* A refresh settles. *)
LEMMA SettleFacts ==
    ASSUME IInv, NEW t \in Tabs, NEW outcome, Settle(t, outcome), store' \in [Tabs -> Stores], cookie' \in Tokens,
           login' = login
    PROVE  /\ JobTypes' /\ PageTypes' /\ (\A u \in Tabs : Milder(u))
           /\ job'[t] = NoJob /\ \A u \in Tabs \ {t} : job'[u] = job[u]
           /\ \A u \in Tabs : out'[u] = out[u] \/ out'[u].at # "answered"
<1>1. PageTypes
  BY TypeParts DEF IInv
<1>2. /\ JobTypes' /\ (\A u \in Tabs : Milder(u)) /\ job'[t] = NoJob /\ \A u \in Tabs \ {t} : job'[u] = job[u]
  BY NoJobFacts DEF Settle
<1>3. api' \in [Tabs -> Apis]
  <2>1. store'[t].sid \in Sids \union {NoSid}
    BY DEF Stores
  <2>2. [at |-> "again", sid |-> store'[t].sid] \in Apis
    BY <2>1 DEF Apis
  <2> QED  BY <1>1, <2>2, ConstTypes DEF Settle, PageTypes
<1>4. out' \in [Tabs -> Outs] /\ \A u \in Tabs : out'[u] = out[u] \/ out'[u].at # "answered"
  <2>1. PICK o : o = [NoLogout EXCEPT !.at = "again"]
    OBVIOUS
  <2>2. o \in Outs /\ o.at = "again"
    BY <2>1 DEF NoLogout, Outs, Answers
  <2> QED  BY <1>1, <2>1, <2>2, ConstTypes DEF Settle, PageTypes
<1>5. mounted' \subseteq Tabs /\ login' \in [Tabs -> Sids \union {NoSid}]
  BY <1>1 DEF Settle, PageTypes
<1> QED  BY <1>2, <1>3, <1>4, <1>5 DEF PageTypes

(* A page goes. *)
LEMMA PageGoesKeeps ==
    ASSUME IInv, NEW t \in Tabs, PageGoes(t)
    PROVE  IInv'
<1>1. /\ store' = [store EXCEPT ![t] = Empty(FALSE)] /\ mounted' = mounted \ {t}
      /\ job' = [job EXCEPT ![t] = NoJob] /\ lock' = IF lock = t THEN NoTab ELSE lock
      /\ api' = [api EXCEPT ![t] = NoApi] /\ out' = [out EXCEPT ![t] = NoLogout]
      /\ login' = [login EXCEPT ![t] = NoSid] /\ orphans' = orphans \union Requests(t)
      /\ left' = [left EXCEPT ![t] = {}] /\ lost' = (lost \/ Unread(t))
      /\ UNCHANGED <<session, grace, cookie, newest, unended, crossed>>
  BY DEF PageGoes, server
<1>2. ServerTypes /\ PageTypes /\ JobTypes /\ HistoryTypes
  BY TypeParts DEF IInv
<1>3. /\ JobTypes' /\ (\A u \in Tabs : Milder(u)) /\ job'[t] = NoJob /\ \A u \in Tabs \ {t} : job'[u] = job[u]
  BY <1>1, <1>2, NoJobFacts DEF JobTypes
<1>4. TypeOK'
  <2>1. ServerTypes'
    BY <1>1, <1>2 DEF ServerTypes
  <2>2. PageTypes'
    BY <1>1, <1>2, ConstTypes DEF PageTypes
  <2>3. HistoryTypes'
    BY <1>1, <1>2 DEF HistoryTypes
  <2> QED  BY <1>3, <2>1, <2>2, <2>3, TypeNext
<1>5. \A u \in Tabs : /\ store'[u].sid \in {store[u].sid, NoSid} /\ login'[u] \in {login[u], NoSid}
                      /\ out'[u] = out[u] \/ out'[u].at # "answered"
                      /\ left'[u] \subseteq left[u] /\ (job'[u] = NoJob \/ left'[u] = left[u])
  BY <1>1, <1>2, <1>3, ConstTypes DEF PageTypes, HistoryTypes
<1>6. /\ orphans' \subseteq Refreshes /\ (\A o \in orphans' : o \in orphans \/ \E u \in Tabs : o.token = job[u].token)
      /\ ~lost' => orphans' = orphans
  <2>1. job[t] \in Jobs
    BY <1>2 DEF JobTypes
  <2>2. [token |-> job[t].token, expect |-> job[t].expect] \in Refreshes
    BY <2>1 DEF Refreshes, Jobs
  <2>3. orphans \subseteq Refreshes
    BY DEF IInv, Extra
  <2>4. CASE job[t].at = "asked"
    <3>1. orphans' = orphans \union {[token |-> job[t].token, expect |-> job[t].expect]} /\ lost'
      BY <1>1, <2>4 DEF Requests, Unread
    <3> QED  BY <2>2, <2>3, <3>1
  <2>5. CASE job[t].at # "asked"
    <3>1. orphans' = orphans
      BY <1>1, <2>5 DEF Requests
    <3> QED  BY <2>3, <3>1
  <2> QED  BY <2>4, <2>5
<1>7. ~lost' => \A u \in Tabs : Delivers(u) => Delivers(u)'
  BY <1>1, <1>3 DEF Delivers, Unread
<1>8. Loyal' => cookie'.sid = newest /\ \A u \in Tabs : LoyalOut(u)'
  <2> SUFFICES ASSUME Loyal' PROVE cookie'.sid = newest /\ \A u \in Tabs : LoyalOut(u)'
    OBVIOUS
  <2>1. cookie.sid = newest /\ \A u \in Tabs : LoyalOut(u)
    BY <1>1, LoyalBack
  <2> QED  BY <1>1, <1>5, <2>1 DEF LoyalOut
<1>9. Quiet
  BY <1>1, <1>3, <1>5, <1>6, <1>7, <1>8 DEF Quiet
<1> QED  BY <1>4, <1>9, QuietKeeps

(* A step that leaves the server, the cookie, the refreshes on their way and the history alone. *)
LEMMA PageStep ==
    ASSUME IInv, TypeOK', UNCHANGED <<session, cookie, orphans, newest, left, unended, crossed>>, lost => lost',
           \A u \in Tabs : Milder(u),
           \A u \in Tabs : store'[u].sid \in {store[u].sid, NoSid},
           \A u \in Tabs : login'[u] = login[u],
           \A u \in Tabs : out'[u] = out[u] \/ out'[u].at # "answered",
           ~lost' => \A u \in Tabs : Delivers(u) => Delivers(u)'
    PROVE  IInv'
<1>1. Loyal' => cookie'.sid = newest /\ \A u \in Tabs : LoyalOut(u)'
  <2> SUFFICES ASSUME Loyal' PROVE cookie'.sid = newest /\ \A u \in Tabs : LoyalOut(u)'
    OBVIOUS
  <2>1. cookie.sid = newest /\ \A u \in Tabs : LoyalOut(u)
    BY LoyalBack
  <2> QED  BY <2>1 DEF LoyalOut
<1>2. Quiet
  BY <1>1 DEF Quiet, IInv, Extra
<1> QED  BY <1>2, QuietKeeps
-----------------------------------------------------------------------------
(* A navigation that needs a refresh. *)
LEMMA NavigateKeeps ==
    ASSUME IInv, NEW t \in Tabs, Navigate(t)
    PROVE  IInv'
<1>1. /\ store' = [store EXCEPT ![t].done = FALSE] /\ job' = Joined(job, t)
      /\ UNCHANGED <<session, grace, cookie, mounted, lock, api, out, login, orphans, newest, left, unended, crossed, lost>>
  BY DEF Navigate, server, history
<1>2. ServerTypes /\ PageTypes /\ HistoryTypes
  BY TypeParts DEF IInv
<1>3. /\ JobTypes' /\ (\A u \in Tabs : Milder(u)) /\ \A u \in Tabs : Delivers(u) => Delivers(u)'
  BY <1>1, JoinedFacts
<1>4. store' \in [Tabs -> Stores] /\ \A u \in Tabs : store'[u].sid = store[u].sid
  BY <1>1, <1>2 DEF PageTypes, Stores
<1>5. TypeOK'
  <2>1. ServerTypes' /\ PageTypes' /\ HistoryTypes'
    BY <1>1, <1>2, <1>4 DEF ServerTypes, PageTypes, HistoryTypes
  <2> QED  BY <1>3, <2>1, TypeNext
<1> QED  BY <1>1, <1>3, <1>4, <1>5, PageStep

(* The request of a refresh leaves with the cookie. *)
LEMMA SentKeeps ==
    ASSUME IInv, TypeOK', NEW t \in Tabs, job'[t].at = "asked", job'[t].token = cookie,
           \A u \in Tabs \ {t} : job'[u] = job[u], Locks => \A u \in Tabs : ~Delivers(u),
           \A u \in Tabs : store'[u].sid \in {store[u].sid, NoSid},
           UNCHANGED <<session, cookie, orphans, out, login, newest, left, unended, crossed, lost>>
    PROVE  IInv'
<1>1. NoSid \notin Sids
  BY BrowserAssumption
<1>2. ASSUME NEW s \in Sids, Known(s)' PROVE Known(s)
  <2>1. CASE s \in {cookie'.sid, newest'} \/ \E u \in Tabs : s \in left'[u]
    BY <2>1 DEF Known
  <2>2. CASE \E u \in Tabs : s = store'[u].sid
    BY <1>1, <2>2 DEF Known
  <2>3. CASE \E u \in Tabs : s = job'[u].token.sid
    BY <2>3 DEF Known
  <2>4. CASE \E o \in orphans' : s = o.token.sid
    BY <2>4 DEF Known
  <2> QED  BY <1>2, <2>1, <2>2, <2>3, <2>4 DEF Known
<1>3. Extra' /\ Existing' /\ Left'
  BY <1>2 DEF IInv, Extra, Existing, Left
<1>4. Unknown'
  BY <1>2 DEF IInv, Unknown
<1>5. SignedOutStaysOut'
  BY DEF IInv, SignedOutStaysOut
<1>6. Restores' /\ Unsent'
  BY DEF IInv, Restores, Unsent, Delivers
<1>7. Young'
  BY DEF IInv, Young, Delivers
<1>8. LoyalJar'
  BY DEF IInv, LoyalJar, LoyalJob, LoyalOut, Loyal
<1> QED  BY <1>3, <1>4, <1>5, <1>6, <1>7, <1>8 DEF IInv

(* A refresh as it is sent. *)
LEMMA SentFacts ==
    ASSUME IInv, NEW t \in Tabs, NEW sid \in Sids \union {NoSid}
    PROVE  /\ Sent(job[t], sid) \in Jobs /\ Sent(job[t], sid).at = "asked" /\ Sent(job[t], sid).token = cookie
           /\ [Sent(job[t], sid) EXCEPT !.first = FALSE] \in Jobs
           /\ [Sent(job[t], sid) EXCEPT !.first = FALSE].at = "asked"
           /\ [Sent(job[t], sid) EXCEPT !.first = FALSE].token = cookie
<1>1. job[t] \in Jobs /\ cookie \in Tokens
  BY TypeParts DEF IInv, JobTypes
<1>2. PICK j : j = Sent(job[t], sid)
  OBVIOUS
<1>3. j \in Jobs /\ j.at = "asked" /\ j.token = cookie
  BY <1>1, <1>2 DEF Sent, Jobs, Answers
<1>4. [j EXCEPT !.first = FALSE] \in Jobs /\ [j EXCEPT !.first = FALSE].at = "asked"
      /\ [j EXCEPT !.first = FALSE].token = cookie
  BY <1>3 DEF Jobs
<1> QED  BY <1>2, <1>3, <1>4

(* The refresh has its lock: it is sent, or was superseded. *)
LEMMA StartRefreshKeeps ==
    ASSUME IInv, NEW t \in Tabs, StartRefresh(t)
    PROVE  IInv'
<1>1. /\ job[t].at = "lock" /\ (Locks => lock = NoTab) /\ store' = store
      /\ UNCHANGED <<session, grace, cookie, login, orphans, newest, left, unended, crossed, lost>>
  BY DEF StartRefresh, LockFree, server, history
<1>2. ServerTypes /\ PageTypes /\ JobTypes /\ HistoryTypes
  BY TypeParts DEF IInv
<1>3. ServerTypes' /\ HistoryTypes'
  BY <1>1, <1>2 DEF ServerTypes, HistoryTypes
<1>4. CASE job[t].current
  <2>1. job' = [job EXCEPT ![t] = Sent(job[t], store[t].sid)] /\ lock' = IF Locks THEN t ELSE lock
    BY <1>4, <1>2 DEF StartRefresh, JobTypes
  <2>2. UNCHANGED <<mounted, api, out>>
    BY <1>4 DEF StartRefresh
  <2>3. store[t].sid \in Sids \union {NoSid}
    BY <1>2 DEF PageTypes, Stores
  <2>4. PICK j \in Jobs : j = Sent(job[t], store[t].sid) /\ j.at = "asked" /\ j.token = cookie
    BY <2>3, SentFacts
  <2>5. job' \in [Tabs -> Jobs] /\ job'[t] = j /\ \A u \in Tabs \ {t} : job'[u] = job[u]
    BY <1>2, <2>1, <2>4 DEF JobTypes
  <2>6. Locks => \A u \in Tabs : job[u].at \notin {"asked", "answered"}
    BY <1>1, <1>2, BrowserAssumption DEF JobTypes, LockOK
  <2>7. JobTypes'
    <3>1. LockOK'
      BY <2>1, <2>4, <2>5, <2>6 DEF LockOK
    <3> QED  BY <1>1, <1>2, <2>1, <2>5, <3>1 DEF JobTypes
  <2>8. TypeOK'
    <3>1. PageTypes'
      BY <1>1, <1>2, <2>2 DEF PageTypes
    <3> QED  BY <1>3, <2>7, <3>1, TypeNext
  <2> QED  BY <1>1, <2>2, <2>4, <2>5, <2>6, <2>8, SentKeeps DEF Delivers
<1>5. CASE ~job[t].current
  <2>1. Settle(t, "transient")
    BY <1>5 DEF StartRefresh
  <2>2. store' \in [Tabs -> Stores] /\ cookie' \in Tokens
    BY <1>1, <1>2 DEF PageTypes, JobTypes
  <2>3. /\ JobTypes' /\ PageTypes' /\ (\A u \in Tabs : Milder(u))
        /\ job'[t] = NoJob /\ (\A u \in Tabs \ {t} : job'[u] = job[u])
        /\ \A u \in Tabs : out'[u] = out[u] \/ out'[u].at # "answered"
    BY <1>1, <2>1, <2>2, SettleFacts
  <2>4. \A u \in Tabs : Delivers(u) => Delivers(u)'
    BY <1>1, <2>3 DEF Delivers
  <2>5. TypeOK'
    BY <1>3, <2>3, TypeNext
  <2> QED  BY <1>1, <2>3, <2>4, <2>5, PageStep
<1> QED  BY <1>4, <1>5

(* A refresh fails on the way. *)
LEMMA RefreshFailsKeeps ==
    ASSUME IInv, NEW t \in Tabs, RefreshFails(t)
    PROVE  IInv'
<1>1. /\ job[t].at \in {"asked", "answered"}
      /\ store' = IF StillCurrent(t) THEN [store EXCEPT ![t].done = FALSE] ELSE store
      /\ lost' = (lost \/ Unread(t)) /\ Settle(t, "transient")
      /\ UNCHANGED <<session, grace, cookie, login, orphans, newest, left, unended, crossed>>
  BY DEF RefreshFails, server
<1>2. ServerTypes /\ PageTypes /\ JobTypes /\ HistoryTypes
  BY TypeParts DEF IInv
<1>3. store' \in [Tabs -> Stores] /\ \A u \in Tabs : store'[u].sid = store[u].sid
  BY <1>1, <1>2 DEF PageTypes, Stores
<1>4. /\ JobTypes' /\ PageTypes' /\ (\A u \in Tabs : Milder(u))
      /\ job'[t] = NoJob /\ (\A u \in Tabs \ {t} : job'[u] = job[u])
      /\ \A u \in Tabs : out'[u] = out[u] \/ out'[u].at # "answered"
  BY <1>1, <1>2, <1>3, SettleFacts DEF JobTypes
<1>5. ~lost' => \A u \in Tabs : Delivers(u) => Delivers(u)'
  BY <1>1, <1>4 DEF Delivers, Unread
<1>6. TypeOK'
  <2>1. lost' \in BOOLEAN
    BY <1>1, <1>2 DEF HistoryTypes
  <2>2. ServerTypes' /\ HistoryTypes'
    BY <1>1, <1>2, <2>1 DEF ServerTypes, HistoryTypes
  <2> QED  BY <1>4, <2>2, TypeNext
<1> QED  BY <1>1, <1>3, <1>4, <1>5, <1>6, PageStep

(* The answer to a refresh. *)
LEMMA RefreshAnsweredKeeps ==
    ASSUME IInv, NEW t \in Tabs, RefreshAnswered(t)
    PROVE  IInv'
<1>1. /\ job[t].at = "answered" /\ cookie' = JarAfter(t)
      /\ UNCHANGED <<session, grace, login, orphans, newest, left, unended, crossed, lost>>
  BY DEF RefreshAnswered, server, history
<1>2. ServerTypes /\ PageTypes /\ JobTypes /\ HistoryTypes /\ job[t] \in Jobs
  BY TypeParts DEF IInv, JobTypes
<1>3. ServerTypes' /\ HistoryTypes'
  BY <1>1, <1>2 DEF ServerTypes, HistoryTypes
<1>4. /\ cookie' \in Tokens
      /\ job[t].answer = "ok" => cookie' = job[t].token
      /\ job[t].answer = "unauthorized" => cookie' = NoToken
      /\ job[t].answer \notin {"ok", "unauthorized"} => cookie' = cookie
  BY <1>1, <1>2, ConstTypes DEF JarAfter, JobTypes, Jobs
<1>5. job[t].answer = "ok" <=> Delivers(t)
  BY <1>1 DEF Delivers
<1>6. \/ cookie' = cookie \/ cookie' = NoToken
      \/ \E u \in Tabs : Delivers(u) /\ cookie' = job[u].token
  BY <1>4, <1>5
<1>7. ASSUME Loyal' PROVE cookie'.sid = newest /\ \A u \in Tabs : LoyalOut(u)
  <2>1. cookie.sid = newest /\ \A u \in Tabs : LoyalJob(u) /\ LoyalOut(u)
    BY <1>1, <1>7, LoyalBack
  <2> QED  BY <1>1, <1>4, <2>1 DEF LoyalJob
<1>8. ASSUME NEW outcome, Settle(t, outcome), store' \in [Tabs -> Stores],
             \A u \in Tabs : \/ store'[u].sid \in {store[u].sid, NoSid}
                             \/ Delivers(u) /\ job[u].current /\ store'[u].sid = job[u].token.sid
      PROVE  IInv'
  <2>1. /\ JobTypes' /\ PageTypes' /\ (\A u \in Tabs : Milder(u))
        /\ job'[t] = NoJob /\ (\A u \in Tabs \ {t} : job'[u] = job[u])
        /\ \A u \in Tabs : out'[u] = out[u] \/ out'[u].at # "answered"
    BY <1>1, <1>4, <1>8, SettleFacts
  <2>2. TypeOK'
    BY <1>3, <2>1, TypeNext
  <2>3. Loyal' => cookie'.sid = newest /\ \A u \in Tabs : LoyalOut(u)'
    BY <1>1, <1>7, <2>1 DEF LoyalOut
  <2>4. ASSUME Locks, ~lost'
        PROVE  cookie'.age = 0 \/ (cookie' = cookie /\ \A u \in Tabs : Delivers(u) => Delivers(u)')
    <3>1. job[t].token.age = 0 /\ NoToken.age = 0
      BY <1>1, <2>4, ConstTypes DEF IInv, Young
    <3>2. CASE job[t].answer = "ok"
      BY <1>4, <3>1, <3>2
    <3>3. CASE job[t].answer = "unauthorized"
      BY <1>4, <3>1, <3>3
    <3>4. CASE job[t].answer \notin {"ok", "unauthorized"}
      BY <1>4, <1>5, <2>1, <3>4 DEF Delivers
    <3> QED  BY <3>2, <3>3, <3>4
  <2>5. Quiet
    BY <1>1, <1>6, <1>8, <2>1, <2>3, <2>4 DEF Quiet, IInv, Extra
  <2> QED  BY <2>2, <2>5, QuietKeeps
<1>9. store \in [Tabs -> Stores]
  BY <1>2 DEF PageTypes
<1>10. CASE ~StillCurrent(t)
  <2>1. store' = store /\ Settle(t, "transient")
    BY <1>10 DEF RefreshAnswered
  <2> QED  BY <1>8, <1>9, <2>1
<1>11. CASE StillCurrent(t) /\ job[t].answer = "ok"
  <2>1. Accept(t)
    BY <1>11 DEF RefreshAnswered
  <2>2. PICK x : x = [sid |-> job[t].token.sid, fresh |-> TRUE, done |-> TRUE]
    OBVIOUS
  <2>3. x \in Stores /\ x.sid = job[t].token.sid
    BY <1>2, <2>2 DEF Stores, Jobs, Tokens
  <2>4. store' = [store EXCEPT ![t] = x] /\ Settle(t, "authenticated")
    BY <2>1, <2>2 DEF Accept
  <2>5. store' \in [Tabs -> Stores] /\ store'[t] = x /\ \A u \in Tabs \ {t} : store'[u] = store[u]
    BY <1>9, <2>3, <2>4
  <2>6. Delivers(t) /\ job[t].current
    BY <1>5, <1>11 DEF StillCurrent
  <2> QED  BY <1>8, <2>3, <2>4, <2>5, <2>6
<1>12. CASE StillCurrent(t) /\ job[t].answer = "unauthorized"
  <2>1. Refused(t)
    BY <1>12 DEF RefreshAnswered
  <2>2. store' = [store EXCEPT ![t] = Empty(TRUE)] /\ Settle(t, "anonymous")
    BY <2>1 DEF Refused
  <2>3. store' \in [Tabs -> Stores] /\ \A u \in Tabs : store'[u].sid \in {store[u].sid, NoSid}
    BY <1>9, <2>2, ConstTypes
  <2> QED  BY <1>8, <2>2, <2>3
<1>13. CASE StillCurrent(t) /\ job[t].answer \notin {"ok", "unauthorized"}
  <2>1. Mismatch(t) /\ cookie' = cookie
    BY <1>4, <1>13 DEF RefreshAnswered
  <2>2. CASE job[t].first
    <3>1. /\ store' = [store EXCEPT ![t] = Empty(FALSE)]
          /\ job' = [job EXCEPT ![t] = [Sent(job[t], NoSid) EXCEPT !.first = FALSE]]
          /\ UNCHANGED <<lock, mounted, api, out>>
      BY <1>2, <2>1, <2>2 DEF Mismatch, JobTypes
    <3>2. store' \in [Tabs -> Stores] /\ \A u \in Tabs : store'[u].sid \in {store[u].sid, NoSid}
      BY <1>9, <3>1, ConstTypes
    <3>3. PICK j \in Jobs : j = [Sent(job[t], NoSid) EXCEPT !.first = FALSE] /\ j.at = "asked" /\ j.token = cookie
      BY SentFacts
    <3>4. job' \in [Tabs -> Jobs] /\ job'[t] = j /\ \A u \in Tabs \ {t} : job'[u] = job[u]
      BY <1>2, <3>1, <3>3 DEF JobTypes
    <3>5. LockOK'
      BY <1>1, <1>2, <3>1, <3>3, <3>4 DEF JobTypes, LockOK
    <3>6. JobTypes' /\ PageTypes'
      BY <1>1, <1>2, <1>4, <3>1, <3>2, <3>4, <3>5 DEF JobTypes, PageTypes
    <3>7. TypeOK'
      BY <1>3, <3>6, TypeNext
    <3>8. Locks => \A u \in Tabs : ~Delivers(u)
      BY <1>1, <1>2, <1>5, <1>13 DEF JobTypes, LockOK, Delivers
    <3> QED  BY <1>1, <2>1, <3>1, <3>2, <3>3, <3>4, <3>7, <3>8, SentKeeps
  <2>3. CASE ~job[t].first
    <3>1. store' = [store EXCEPT ![t] = Empty(TRUE)] /\ Settle(t, "out_of_sync")
      BY <2>1, <2>3 DEF Mismatch
    <3>2. store' \in [Tabs -> Stores] /\ \A u \in Tabs : store'[u].sid \in {store[u].sid, NoSid}
      BY <1>9, <3>1, ConstTypes
    <3> QED  BY <1>8, <3>1, <3>2
  <2> QED  BY <2>2, <2>3
<1> QED  BY <1>10, <1>11, <1>12, <1>13

(* Nothing but the requests of the page, the access token and the events changes. *)
LEMMA SmallStep ==
    ASSUME IInv, store' \in [Tabs -> Stores], \A u \in Tabs : store'[u].sid \in {store[u].sid, NoSid},
           api' \in [Tabs -> Apis], out' \in [Tabs -> Outs], grace' \subseteq Sids,
           \A u \in Tabs : out'[u] = out[u] \/ out'[u].at # "answered",
           UNCHANGED <<session, cookie, mounted, job, lock, login, orphans, newest, left, unended, crossed, lost>>
    PROVE  IInv'
<1>1. ServerTypes /\ PageTypes /\ JobTypes /\ HistoryTypes
  BY TypeParts DEF IInv
<1>2. TypeOK'
  <2>1. ServerTypes' /\ PageTypes' /\ HistoryTypes' /\ JobTypes'
    BY <1>1 DEF ServerTypes, PageTypes, HistoryTypes, JobTypes, LockOK
  <2> QED  BY <2>1, TypeNext
<1>3. \A u \in Tabs : Milder(u) /\ (Delivers(u) => Delivers(u)')
  BY DEF Milder, Delivers
<1> QED  BY <1>2, <1>3, PageStep

(* A request of the page is refused, and joins a refresh. *)
LEMMA ApiRefusedKeeps ==
    ASSUME IInv, NEW t \in Tabs, ApiRefused(t)
    PROVE  IInv'
<1>1. /\ api' = [api EXCEPT ![t].at = "wait"] /\ job' = Joined(job, t)
      /\ UNCHANGED <<session, grace, cookie, store, mounted, lock, out, login, orphans, newest, left, unended, crossed,
                     lost>>
  BY DEF ApiRefused, server, history
<1>2. ServerTypes /\ PageTypes /\ HistoryTypes
  BY TypeParts DEF IInv
<1>3. /\ JobTypes' /\ (\A u \in Tabs : Milder(u)) /\ \A u \in Tabs : Delivers(u) => Delivers(u)'
  BY <1>1, JoinedFacts
<1>4. api' \in [Tabs -> Apis]
  BY <1>1, <1>2 DEF PageTypes, Apis
<1>5. TypeOK'
  <2>1. ServerTypes' /\ PageTypes' /\ HistoryTypes'
    BY <1>1, <1>2, <1>4 DEF ServerTypes, PageTypes, HistoryTypes
  <2> QED  BY <1>3, <2>1, TypeNext
<1> QED  BY <1>1, <1>3, <1>5, PageStep

(* The request is repeated and accepted. *)
LEMMA ApiAcceptedKeeps ==
    ASSUME IInv, NEW t \in Tabs, ApiAccepted(t)
    PROVE  IInv'
<1>1. PageTypes /\ ServerTypes
  BY TypeParts DEF IInv
<1>2. /\ api' = [api EXCEPT ![t] = NoApi]
      /\ UNCHANGED <<session, grace, cookie, store, mounted, job, lock, out, login, orphans, newest, left, unended,
                     crossed, lost>>
  BY DEF ApiAccepted, server, history
<1>3. api' \in [Tabs -> Apis]
  BY <1>1, <1>2, ConstTypes DEF PageTypes
<1> QED  BY <1>1, <1>2, <1>3, SmallStep DEF PageTypes, ServerTypes

(* The request is refused again. *)
LEMMA ApiRefusedAgainKeeps ==
    ASSUME IInv, NEW t \in Tabs, ApiRefusedAgain(t)
    PROVE  IInv'
<1>1. CASE store[t].sid # NoSid
  BY <1>1, PageGoesKeeps DEF ApiRefusedAgain
<1>2. CASE store[t].sid = NoSid
  <2>1. /\ store' = [store EXCEPT ![t] = Empty(TRUE)] /\ job' = Superseded(t) /\ api' = [api EXCEPT ![t] = NoApi]
        /\ UNCHANGED <<session, grace, cookie, mounted, lock, out, login, orphans, newest, left, unended, crossed, lost>>
    BY <1>2 DEF ApiRefusedAgain, server, history
  <2>2. ServerTypes /\ PageTypes /\ JobTypes /\ HistoryTypes
    BY TypeParts DEF IInv
  <2>3. /\ JobTypes' /\ (\A u \in Tabs : Milder(u)) /\ \A u \in Tabs : Delivers(u) => Delivers(u)'
    BY <2>1, <2>2, SupersededFacts DEF JobTypes
  <2>4. store' \in [Tabs -> Stores] /\ \A u \in Tabs : store'[u].sid \in {store[u].sid, NoSid}
    BY <2>1, <2>2, ConstTypes DEF PageTypes
  <2>5. TypeOK'
    <3>1. ServerTypes' /\ PageTypes' /\ HistoryTypes'
      BY <2>1, <2>2, <2>4, ConstTypes DEF ServerTypes, PageTypes, HistoryTypes
    <3> QED  BY <2>3, <3>1, TypeNext
  <2> QED  BY <2>1, <2>3, <2>4, <2>5, PageStep
<1> QED  BY <1>1, <1>2

(* The access token expires. *)
LEMMA ExpireKeeps ==
    ASSUME IInv, NEW t \in Tabs, Expire(t)
    PROVE  IInv'
<1>1. PageTypes /\ ServerTypes
  BY TypeParts DEF IInv
<1>2. /\ store' = [store EXCEPT ![t].fresh = FALSE]
      /\ UNCHANGED <<session, grace, cookie, mounted, job, lock, api, out, login, orphans, newest, left, unended,
                     crossed, lost>>
  BY DEF Expire, server, history
<1>3. store' \in [Tabs -> Stores] /\ \A u \in Tabs : store'[u].sid = store[u].sid
  BY <1>1, <1>2 DEF PageTypes, Stores
<1> QED  BY <1>1, <1>2, <1>3, SmallStep DEF PageTypes, ServerTypes

(* A logout's answer is lost. *)
LEMMA LogoutFailsKeeps ==
    ASSUME IInv, NEW t \in Tabs, LogoutFails(t)
    PROVE  IInv'
<1>1. PageTypes /\ ServerTypes
  BY TypeParts DEF IInv
<1>2. /\ out' = [out EXCEPT ![t] = NoLogout]
      /\ UNCHANGED <<session, grace, cookie, store, mounted, job, lock, api, login, orphans, newest, left, unended,
                     crossed, lost>>
  BY DEF LogoutFails, server, history
<1>3. out' \in [Tabs -> Outs] /\ \A u \in Tabs : out'[u] = out[u] \/ out'[u].at # "answered"
  BY <1>1, <1>2, ConstTypes DEF PageTypes
<1> QED  BY <1>1, <1>2, <1>3, SmallStep DEF PageTypes, ServerTypes

(* An event is ignored. *)
LEMMA IgnoreEventKeeps ==
    ASSUME IInv, NEW t \in Tabs, IgnoreEvent(t)
    PROVE  IInv'
<1>1. PageTypes /\ ServerTypes
  BY TypeParts DEF IInv
<1>2. UNCHANGED <<session, grace, cookie, store, mounted, job, lock, api, out, login, orphans, newest, left, unended,
                  crossed, lost>>
  BY DEF IgnoreEvent, server, history
<1> QED  BY <1>1, <1>2, SmallStep DEF PageTypes, ServerTypes

(* The window of a previous token is over. *)
LEMMA GraceEndsKeeps == IInv /\ GraceEnds => IInv'
<1> SUFFICES ASSUME IInv, GraceEnds PROVE IInv'
  OBVIOUS
<1>1. PageTypes /\ ServerTypes
  BY TypeParts DEF IInv
<1>2. /\ grace' \subseteq grace
      /\ UNCHANGED <<session, cookie, store, mounted, job, lock, api, out, login, orphans, newest, left, unended,
                     crossed, lost>>
  BY DEF GraceEnds, history
<1> QED  BY <1>1, <1>2, SmallStep DEF PageTypes, ServerTypes

(* What the end of a session does to the server. *)
LEMMA EndSessionFacts ==
    ASSUME TypeOK, NEW s, EndSession(s)
    PROVE  /\ ServerTypes'
           /\ \A x \in Sids : session'[x] = session[x] \/ (session[x] = "live" /\ session'[x] = "ended")
           /\ s \in Sids => session'[s] # "live" \/ s = NoSid
<1>1. session \in [Sids -> {"none", "live", "ended", "stolen"}] /\ grace \subseteq Sids
  BY DEF TypeOK
<1> QED  BY <1>1 DEF EndSession, ServerTypes

(* A session is ended from elsewhere. *)
LEMMA EndedElsewhereKeeps == IInv /\ EndedElsewhere => IInv'
<1> SUFFICES ASSUME IInv, EndedElsewhere PROVE IInv'
  OBVIOUS
<1>1. PICK s \in Sids : EndSession(s)
  BY DEF EndedElsewhere
<1>2. UNCHANGED <<cookie, store, mounted, job, lock, api, out, login, orphans, newest, left, unended, crossed, lost>>
  BY DEF EndedElsewhere, history
<1>3. /\ ServerTypes'
      /\ \A x \in Sids : session'[x] = session[x] \/ (session[x] = "live" /\ session'[x] = "ended")
  BY <1>1, EndSessionFacts DEF IInv
<1>4. TypeOK'
  <2>1. PageTypes' /\ HistoryTypes' /\ JobTypes'
    BY <1>2, TypeParts DEF IInv, PageTypes, HistoryTypes, JobTypes, LockOK
  <2> QED  BY <1>3, <2>1, TypeNext
<1>5. Loyal' => cookie'.sid = newest /\ \A u \in Tabs : LoyalOut(u)'
  BY <1>2, <1>3, LoyalBack DEF LoyalOut
<1>6. \A u \in Tabs : Milder(u) /\ (Delivers(u) => Delivers(u)')
  BY <1>2 DEF Milder, Delivers
<1>7. Quiet
  BY <1>2, <1>3, <1>5, <1>6 DEF Quiet, IInv, Extra
<1> QED  BY <1>4, <1>7, QuietKeeps

(* The server handles a logout. *)
LEMMA LogoutKeeps ==
    ASSUME IInv, NEW t \in Tabs, Logout(t)
    PROVE  IInv'
<1>1. PICK v \in {"ok", "mismatch"} :
        /\ v = LogoutVerdict(store[t], cookie)
        /\ IF v = "ok" THEN EndSession(Revoked(store[t], cookie)) ELSE UNCHANGED server
        /\ out' = [out EXCEPT ![t] = [at |-> "answered", first |-> out[t].at = "idle", sid |-> LogoutOf(t),
                                     answer |-> v,
                                     clears |-> v = "ok" /\ (cookie.sid # NoSid \/ ~store[t].fresh)]]
        /\ UNCHANGED <<cookie, store, mounted, job, lock, api, login, inbox, orphans, history, bounds>>
  BY DEF Logout, LogoutVerdict
<1>2. UNCHANGED <<cookie, store, mounted, job, lock, api, login, orphans, newest, left, unended, crossed, lost>>
  BY <1>1 DEF history
<1>3. ServerTypes /\ PageTypes /\ JobTypes /\ HistoryTypes
  BY TypeParts DEF IInv
<1>4. /\ ServerTypes'
      /\ \A x \in Sids : session'[x] = session[x] \/ (session[x] = "live" /\ session'[x] = "ended")
  <2>1. CASE v = "ok"
    BY <1>1, <2>1, EndSessionFacts DEF IInv
  <2>2. CASE v # "ok"
    BY <1>1, <1>3, <2>2 DEF server, ServerTypes
  <2> QED  BY <2>1, <2>2
<1>5. PICK o : o = [at |-> "answered", first |-> out[t].at = "idle", sid |-> LogoutOf(t), answer |-> v,
                    clears |-> v = "ok" /\ (cookie.sid # NoSid \/ ~store[t].fresh)]
  OBVIOUS
<1>6. o \in Outs /\ o.sid = LogoutOf(t)
  <2>1. LogoutOf(t) \in Sids \union {NoSid}
    BY <1>3 DEF LogoutOf, PageTypes, JobTypes, Stores, Tokens
  <2> QED  BY <1>5, <2>1 DEF Outs, Answers
<1>7. out' \in [Tabs -> Outs] /\ out'[t] = o /\ \A u \in Tabs \ {t} : out'[u] = out[u]
  BY <1>1, <1>3, <1>5, <1>6 DEF PageTypes
<1>8. TypeOK'
  <2>1. PageTypes' /\ HistoryTypes' /\ JobTypes'
    BY <1>2, <1>3, <1>7 DEF PageTypes, HistoryTypes, JobTypes, LockOK
  <2> QED  BY <1>4, <2>1, TypeNext
<1>9. ASSUME Loyal' PROVE cookie'.sid = newest /\ \A u \in Tabs : LoyalOut(u)'
  <2>1. Loyal /\ cookie.sid = newest /\ \A u \in Tabs : LoyalOut(u)
    BY <1>2, <1>4, <1>9, LoyalBack
  <2>2. LoyalOut(t)'
    <3>1. CASE v = "ok"
      <4>1. store[t].sid \in {NoSid, newest}
        BY <1>1, <2>1, <3>1 DEF LogoutVerdict, Loyal
      <4> QED  BY <1>2, <1>6, <1>7, <2>1, <4>1 DEF LogoutOf, LoyalOut
    <3>2. CASE v # "ok"
      BY <1>5, <1>7, <3>2 DEF LoyalOut
    <3> QED  BY <3>1, <3>2
  <2>3. \A u \in Tabs \ {t} : LoyalOut(u)'
    BY <1>2, <1>7, <2>1 DEF LoyalOut
  <2> QED  BY <1>2, <2>1, <2>2, <2>3
<1>10. \A u \in Tabs : Milder(u) /\ (Delivers(u) => Delivers(u)')
  BY <1>2 DEF Milder, Delivers
<1>11. Quiet
  BY <1>2, <1>4, <1>9, <1>10 DEF Quiet, IInv, Extra
<1> QED  BY <1>8, <1>11, QuietKeeps

(* A page forgets its session: its refresh is superseded, and it has left the session if that is over. *)
LEMMA ForgetKeeps ==
    ASSUME IInv, NEW t \in Tabs, store' = [store EXCEPT ![t] = Empty(TRUE)], job' = Superseded(t), Leave(t),
           cookie' \in {cookie, NoToken}, out' \in [Tabs -> Outs],
           \A u \in Tabs : out'[u] = out[u] \/ out'[u].at # "answered",
           unended \subseteq unended', unended' \subseteq Sids, Loyal' => cookie'.sid = newest,
           UNCHANGED <<session, grace, mounted, lock, api, login, orphans, newest, crossed, lost>>
    PROVE  IInv'
<1>1. ServerTypes /\ PageTypes /\ JobTypes /\ HistoryTypes
  BY TypeParts DEF IInv
<1>2. cookie' \in Tokens /\ (cookie' = cookie \/ cookie'.age = 0)
  BY <1>1, ConstTypes DEF JobTypes
<1>3. /\ JobTypes' /\ (\A u \in Tabs : Milder(u)) /\ (\A u \in Tabs : Delivers(u) => Delivers(u)')
      /\ job'[t].current = FALSE
  BY <1>2, SupersededFacts
<1>4. /\ store' \in [Tabs -> Stores] /\ store'[t].sid = NoSid
      /\ \A u \in Tabs : store'[u].sid \in {store[u].sid, NoSid}
  BY <1>1, ConstTypes DEF PageTypes
<1>5. /\ left' \in [Tabs -> SUBSET Sids] /\ (\A u \in Tabs \ {t} : left'[u] = left[u])
      /\ left'[t] = left[t] \union {s \in Sids : s = store[t].sid /\ session[s] # "live"}
  BY <1>1 DEF HistoryTypes, Leave
<1>6. TypeOK'
  <2>1. ServerTypes' /\ PageTypes' /\ HistoryTypes'
    BY <1>1, <1>4, <1>5 DEF ServerTypes, PageTypes, HistoryTypes
  <2> QED  BY <1>3, <2>1, TypeNext
<1>7. Loyal' => \A u \in Tabs : LoyalOut(u)'
  <2> SUFFICES ASSUME Loyal' PROVE \A u \in Tabs : LoyalOut(u)'
    OBVIOUS
  <2>1. \A u \in Tabs : LoyalOut(u)
    BY LoyalBack
  <2> QED  BY <2>1 DEF LoyalOut
<1>8. \A u \in Tabs : \/ left'[u] \subseteq left[u] /\ (job'[u] = NoJob \/ left'[u] = left[u])
                      \/ /\ left'[u] \subseteq left[u] \union {s \in Sids : s = store[u].sid /\ session[s] # "live"}
                         /\ job'[u].current = FALSE /\ store'[u].sid = NoSid
  <2> SUFFICES ASSUME NEW u \in Tabs
               PROVE  \/ left'[u] \subseteq left[u] /\ (job'[u] = NoJob \/ left'[u] = left[u])
                      \/ /\ left'[u] \subseteq left[u] \union {s \in Sids : s = store[u].sid /\ session[s] # "live"}
                         /\ job'[u].current = FALSE /\ store'[u].sid = NoSid
    OBVIOUS
  <2>1. CASE u = t
    BY <1>3, <1>4, <1>5, <2>1
  <2>2. CASE u # t
    BY <1>5, <2>2
  <2> QED  BY <2>1, <2>2
<1>9. Quiet
  BY <1>2, <1>3, <1>4, <1>7, <1>8 DEF Quiet, IInv, Extra
<1> QED  BY <1>6, <1>9, QuietKeeps

(* The answer to a logout. *)
LEMMA LogoutAnsweredKeeps ==
    ASSUME IInv, NEW t \in Tabs, LogoutAnswered(t)
    PROVE  IInv'
<1>1. /\ out[t].at = "answered"
      /\ UNCHANGED <<session, grace, mounted, lock, api, login, orphans, newest, crossed, lost>>
  BY DEF LogoutAnswered, server
<1>2. ServerTypes /\ PageTypes /\ JobTypes /\ HistoryTypes
  BY TypeParts DEF IInv
<1>3. CASE out[t].answer = "ok"
  <2>1. SignedOut(t) /\ cookie' = IF out[t].clears THEN NoToken ELSE cookie
    BY <1>3 DEF LogoutAnswered
  <2>2. /\ store' = [store EXCEPT ![t] = Empty(TRUE)] /\ job' = Superseded(t) /\ Leave(t)
        /\ unended' = unended \union {s \in Sids : s = out[t].sid /\ session[s] = "live"}
        /\ out' = [out EXCEPT ![t] = NoLogout]
    BY <2>1 DEF SignedOut
  <2>3. out' \in [Tabs -> Outs] /\ \A u \in Tabs : out'[u] = out[u] \/ out'[u].at # "answered"
    BY <1>2, <2>2, ConstTypes DEF PageTypes
  <2>4. unended \subseteq unended' /\ unended' \subseteq Sids
    BY <1>2, <2>2 DEF HistoryTypes
  <2>5. ASSUME Loyal' PROVE cookie'.sid = newest
    <3>1. Loyal /\ cookie.sid = newest /\ LoyalOut(t)
      BY <1>1, <2>4, <2>5, LoyalBack
    <3>2. newest \in Sids /\ session[newest] = "live" /\ newest \notin unended'
      BY <1>1, <2>5, <3>1 DEF Loyal, IInv, Extra
    <3>3. ~out[t].clears
      BY <1>1, <1>3, <2>2, <3>1, <3>2 DEF LoyalOut
    <3> QED  BY <2>1, <3>1, <3>3
  <2> QED  BY <1>1, <2>1, <2>2, <2>3, <2>4, <2>5, ForgetKeeps
<1>4. CASE out[t].answer # "ok"
  <2>1. /\ out' = [out EXCEPT ![t] = IF out[t].first THEN [NoLogout EXCEPT !.at = "wait"] ELSE NoLogout]
        /\ job' = IF out[t].first THEN Joined(job, t) ELSE job
        /\ UNCHANGED <<store, cookie, left, unended>>
    BY <1>4 DEF LogoutAnswered
  <2>2. /\ JobTypes' /\ (\A u \in Tabs : Milder(u)) /\ \A u \in Tabs : Delivers(u) => Delivers(u)'
    <3>1. CASE job' = Joined(job, t)
      BY <1>1, <2>1, <3>1, JoinedFacts
    <3>2. CASE job' = job
      BY <1>1, <1>2, <2>1, <3>2 DEF JobTypes, LockOK, Milder, Delivers
    <3> QED  BY <2>1, <3>1, <3>2
  <2>3. out' \in [Tabs -> Outs] /\ \A u \in Tabs : out'[u] = out[u] \/ out'[u].at # "answered"
    <3>1. PICK o : o = [NoLogout EXCEPT !.at = "wait"]
      OBVIOUS
    <3>2. o \in Outs /\ o.at = "wait"
      BY <3>1 DEF NoLogout, Outs, Answers
    <3> QED  BY <1>2, <2>1, <3>1, <3>2, ConstTypes DEF PageTypes
  <2>4. TypeOK'
    <3>1. ServerTypes' /\ PageTypes' /\ HistoryTypes'
      BY <1>1, <1>2, <2>1, <2>3 DEF ServerTypes, PageTypes, HistoryTypes
    <3> QED  BY <2>2, <3>1, TypeNext
  <2> QED  BY <1>1, <2>1, <2>2, <2>3, <2>4, PageStep
<1> QED  BY <1>3, <1>4

(* Another tab has signed out. *)
LEMMA OtherSignedOutKeeps ==
    ASSUME IInv, NEW t \in Tabs, OtherSignedOut(t)
    PROVE  IInv'
<1>1. /\ store' = [store EXCEPT ![t] = Empty(TRUE)] /\ job' = Superseded(t) /\ Leave(t)
      /\ UNCHANGED <<session, grace, cookie, mounted, lock, api, out, login, orphans, newest, unended, crossed, lost>>
  BY DEF OtherSignedOut, server
<1>2. out \in [Tabs -> Outs] /\ unended \subseteq Sids
  BY TypeParts DEF IInv, PageTypes, HistoryTypes
<1>3. Loyal' => cookie'.sid = newest
  BY <1>1, LoyalBack
<1> QED  BY <1>1, <1>2, <1>3, ForgetKeeps

(* The server creates a session. *)
LEMMA LoginHandledKeeps ==
    ASSUME IInv, NEW t \in Tabs, LoginHandled(t)
    PROVE  IInv'
<1>1. PICK s \in Sids :
        session[s] = "none" /\ session' = [session EXCEPT ![s] = "live"] /\ login' = [login EXCEPT ![t] = s]
  BY DEF LoginHandled
<1>2. /\ login[t] = NoSid
      /\ UNCHANGED <<grace, cookie, store, mounted, job, lock, api, out, orphans, newest, left, unended, crossed, lost>>
  BY DEF LoginHandled, history
<1>3. ServerTypes /\ PageTypes /\ JobTypes /\ HistoryTypes
  BY TypeParts DEF IInv
<1>4. session'[s] = "live" /\ \A x \in Sids \ {s} : session'[x] = session[x]
  BY <1>1, <1>3 DEF ServerTypes
<1>5. login'[t] = s /\ \A u \in Tabs \ {t} : login'[u] = login[u]
  BY <1>1, <1>3 DEF PageTypes
<1>6. TypeOK'
  <2>1. ServerTypes' /\ PageTypes' /\ HistoryTypes' /\ JobTypes'
    BY <1>1, <1>2, <1>3 DEF ServerTypes, PageTypes, HistoryTypes, JobTypes, LockOK
  <2> QED  BY <2>1, TypeNext
<1>7. ~Known(s) /\ \A u \in Tabs : login[u] # s
  BY <1>1 DEF IInv, Existing, Unknown
<1>8. \A x \in Sids : Known(x)' <=> Known(x)
  BY <1>2 DEF Known
<1>9. Extra' /\ Existing'
  BY <1>2, <1>4, <1>8 DEF IInv, Extra, Existing
<1>10. Unknown'
  <2> SUFFICES ASSUME NEW u \in Tabs, NEW x \in Sids, login'[u] = x
               PROVE  session'[x] # "none" /\ ~Known(x)' /\ \A w \in Tabs : login'[w] = x => w = u
    BY DEF Unknown
  <2>1. CASE u = t
    BY <1>4, <1>5, <1>7, <1>8, <2>1
  <2>2. CASE u # t
    <3>1. login[u] = x /\ x # s
      BY <1>5, <1>7, <2>2
    <3>2. session[x] # "none" /\ ~Known(x) /\ \A w \in Tabs : login[w] = x => w = u
      BY <3>1 DEF IInv, Unknown
    <3> QED  BY <1>4, <1>5, <1>8, <3>1, <3>2
  <2> QED  BY <2>1, <2>2
<1>11. Left'
  <2>1. \A u \in Tabs : left[u] \subseteq Sids /\ s \notin left[u]
    BY <1>3, <1>7 DEF HistoryTypes, Known
  <2> QED  BY <1>2, <1>4, <2>1 DEF IInv, Left
<1>12. Restores' /\ SignedOutStaysOut' /\ Unsent'
  BY <1>2 DEF IInv, Restores, SignedOutStaysOut, Unsent, Delivers
<1>13. Young'
  BY <1>2, <1>4 DEF IInv, Young, Delivers
<1>14. LoyalJar'
  <2>1. newest # s
    BY <1>7 DEF Known
  <2>2. Loyal' => Loyal
    BY <1>2, <1>4, <2>1 DEF Loyal, IInv, Extra
  <2> QED  BY <1>2, <2>2 DEF IInv, LoyalJar, LoyalJob, LoyalOut
<1> QED  BY <1>6, <1>9, <1>10, <1>11, <1>12, <1>13, <1>14 DEF IInv

(* The answer to a login. *)
LEMMA LoginAnsweredKeeps ==
    ASSUME IInv, NEW t \in Tabs, LoginAnswered(t)
    PROVE  IInv'
<1>1. ServerTypes /\ PageTypes /\ JobTypes /\ HistoryTypes
  BY TypeParts DEF IInv
<1>2. PICK s \in Sids : s = login[t]
  BY <1>1 DEF LoginAnswered, PageTypes
<1>3. /\ cookie' = [sid |-> s, age |-> 0]
      /\ store' = [store EXCEPT ![t] = [sid |-> s, fresh |-> TRUE, done |-> TRUE]]
      /\ job' = Superseded(t) /\ login' = [login EXCEPT ![t] = NoSid] /\ newest' = s
      /\ crossed' = (crossed \/ Exchange)
      /\ UNCHANGED <<session, grace, mounted, lock, api, out, orphans, left, unended, lost>>
  BY <1>2 DEF LoginAnswered, server
<1>4. session[s] # "none" /\ ~Known(s) /\ \A u \in Tabs : login[u] = s => u = t
  BY <1>2 DEF IInv, Unknown
<1>5. cookie' \in Tokens /\ cookie'.sid = s /\ cookie'.age = 0
  BY <1>3 DEF Tokens
<1>6. /\ JobTypes' /\ (\A u \in Tabs : Milder(u))
      /\ \A u \in Tabs : job'[u].at = job[u].at /\ job'[u].token = job[u].token
  BY <1>3, <1>5, SupersededFacts
<1>7. /\ store' \in [Tabs -> Stores] /\ store'[t].sid = s /\ \A u \in Tabs \ {t} : store'[u] = store[u]
  BY <1>1, <1>3 DEF PageTypes, Stores
<1>8. /\ login' \in [Tabs -> Sids \union {NoSid}] /\ login'[t] = NoSid /\ \A u \in Tabs \ {t} : login'[u] = login[u]
  BY <1>1, <1>3 DEF PageTypes
<1>9. NoSid \notin Sids
  BY BrowserAssumption
<1>10. crossed' \in BOOLEAN
  BY <1>1, <1>3 DEF HistoryTypes, Exchange
<1>11. TypeOK'
  <2>1. ServerTypes' /\ PageTypes' /\ HistoryTypes'
    BY <1>1, <1>3, <1>7, <1>8, <1>10 DEF ServerTypes, PageTypes, HistoryTypes
  <2> QED  BY <1>6, <2>1, TypeNext
<1>12. ASSUME NEW x \in Sids, Known(x)' PROVE Known(x) \/ x = s
  <2>1. CASE x \in {cookie'.sid, newest'} \/ \E u \in Tabs : x \in left'[u]
    BY <1>3, <1>5, <2>1 DEF Known
  <2>2. CASE \E u \in Tabs : x = store'[u].sid
    BY <1>7, <2>2 DEF Known
  <2>3. CASE \E u \in Tabs : x = job'[u].token.sid
    BY <1>6, <2>3 DEF Known
  <2>4. CASE \E o \in orphans' : x = o.token.sid
    BY <1>3, <2>4 DEF Known
  <2> QED  BY <1>12, <2>1, <2>2, <2>3, <2>4 DEF Known
<1>13. Extra' /\ Existing'
  BY <1>3, <1>4, <1>12 DEF IInv, Extra, Existing
<1>14. Unknown'
  <2> SUFFICES ASSUME NEW u \in Tabs, NEW x \in Sids, login'[u] = x
               PROVE  session'[x] # "none" /\ ~Known(x)' /\ \A w \in Tabs : login'[w] = x => w = u
    BY DEF Unknown
  <2>1. u # t /\ login[u] = x
    BY <1>8, <1>9
  <2>2. x # s
    BY <1>4, <2>1
  <2>3. session[x] # "none" /\ ~Known(x) /\ \A w \in Tabs : login[w] = x => w = u
    BY <2>1 DEF IInv, Unknown
  <2> QED  BY <1>3, <1>8, <1>9, <1>12, <2>2, <2>3
<1>15. Left'
  BY <1>3 DEF IInv, Left
<1>16. Restores' /\ Unsent'
  <2>1. \A u \in Tabs : /\ job'[u].token = job[u].token /\ job'[u].at = job[u].at
                        /\ Delivers(u)' => Delivers(u) /\ (job'[u].current => job[u].current)
    BY <1>6, MilderFacts DEF Delivers
  <2> QED  BY <1>3, <2>1 DEF IInv, Restores, Unsent
<1>17. SignedOutStaysOut'
  <2>1. s \notin left[t]
    BY <1>4 DEF Known
  <2> QED  BY <1>3, <1>7, <2>1 DEF IInv, SignedOutStaysOut
<1>18. Young'
  BY <1>3, <1>5, <1>6 DEF IInv, Young
<1>19. LoyalJar'
  <2> SUFFICES ASSUME Loyal' PROVE cookie'.sid = newest' /\ \A u \in Tabs : LoyalJob(u)' /\ LoyalOut(u)'
    BY DEF LoyalJar
  <2>1. \A u \in Tabs : job[u].at \notin {"asked", "answered"} /\ out[u].at # "answered"
    BY <1>3 DEF Loyal, Exchange
  <2> QED  BY <1>3, <1>5, <1>6, <2>1 DEF LoyalJob, LoyalOut
<1> QED  BY <1>11, <1>13, <1>14, <1>15, <1>16, <1>17, <1>18, <1>19 DEF IInv

(* The invariant holds initially. *)
LEMMA InitInv == Init => IInv
<1> SUFFICES ASSUME Init PROVE IInv
  OBVIOUS
<1>1. cookie \in Tokens /\ cookie.sid = First /\ cookie.age = 0 /\ First \in Sids \union {NoSid} /\ NoSid \notin Sids
  BY BrowserAssumption DEF Init, Tokens
<1>2. TypeOK
  <2>1. ServerTypes
    BY DEF Init, ServerTypes
  <2>2. PageTypes
    BY ConstTypes DEF Init, PageTypes
  <2>3. JobTypes
    <3>1. job \in [Tabs -> Jobs] /\ lock = NoTab
      BY ConstTypes DEF Init
    <3>2. LockOK
      BY ConstTypes, BrowserAssumption DEF Init, LockOK
    <3> QED  BY <1>1, <3>1, <3>2 DEF JobTypes
  <2>4. HistoryTypes
    BY DEF Init, HistoryTypes
  <2> QED  BY <2>1, <2>2, <2>3, <2>4, TypeParts
<1>3. /\ \A t \in Tabs : /\ job[t] = NoJob /\ store[t] = Empty(FALSE) /\ login[t] = NoSid /\ left[t] = {}
                         /\ out[t] = NoLogout
      /\ \A s \in Sids : session[s] = IF s = First THEN "live" ELSE "none"
      /\ newest = First /\ orphans = {} /\ unended = {} /\ ~lost /\ ~crossed
  BY DEF Init
<1>4. \A t \in Tabs : job[t].at = "none" /\ job[t].token = NoToken /\ store[t].sid = NoSid /\ out[t].at = "idle"
  BY <1>3, ConstTypes
<1>5. Extra
  BY <1>1, <1>3 DEF Extra
<1>6. Existing
  BY <1>1, <1>3, <1>4, ConstTypes DEF Existing, Known
<1>7. Unknown /\ Left /\ Restores /\ SignedOutStaysOut /\ Unsent
  <2>1. ASSUME NEW t \in Tabs, NEW s \in Sids PROVE login[t] # s
    <3>1. login[t] = NoSid
      BY DEF Init
    <3> QED  BY <3>1, BrowserAssumption
  <2>2. Unknown
    BY <2>1 DEF Unknown
  <2>3. Left
    BY <1>3 DEF Left
  <2>4. Restores /\ SignedOutStaysOut /\ Unsent
    BY <1>4 DEF Restores, Delivers, SignedOutStaysOut, Unsent
  <2> QED  BY <2>2, <2>3, <2>4
<1>8. Young /\ LoyalJar
  BY <1>1, <1>3, <1>4, ConstTypes DEF Young, LoyalJar, LoyalJob, LoyalOut
<1> QED  BY <1>2, <1>5, <1>6, <1>7, <1>8 DEF IInv

(* Every step keeps the invariant. *)
LEMMA StepKeeps == IInv /\ [Next]_vars => IInv'
<1> SUFFICES ASSUME IInv, [Next]_vars PROVE IInv'
  OBVIOUS
<1>1. ASSUME NEW t \in Tabs,
             \/ HandleRefresh(t)
             \/ Navigate(t) \/ StartRefresh(t) \/ RefreshAnswered(t) \/ RefreshFails(t)
             \/ ApiAccepted(t) \/ ApiRefused(t) \/ ApiRefusedAgain(t) \/ Expire(t)
      PROVE  IInv'
  BY <1>1, HandleRefreshKeeps, NavigateKeeps, StartRefreshKeeps, RefreshAnsweredKeeps, RefreshFailsKeeps,
     ApiAcceptedKeeps, ApiRefusedKeeps, ApiRefusedAgainKeeps, ExpireKeeps
<1>2. ASSUME NEW t \in Tabs,
             \/ LoginHandled(t) \/ LoginAnswered(t)
             \/ Logout(t) \/ LogoutAnswered(t) \/ LogoutFails(t)
             \/ OtherSignedIn(t) \/ OtherSignedOut(t) \/ IgnoreEvent(t) \/ Reload(t)
      PROVE  IInv'
  BY <1>2, LoginHandledKeeps, LoginAnsweredKeeps, LogoutKeeps, LogoutAnsweredKeeps, LogoutFailsKeeps,
     PageGoesKeeps, OtherSignedOutKeeps, IgnoreEventKeeps DEF OtherSignedIn, Reload
<1>3. CASE HandleOrphan \/ GraceEnds \/ EndedElsewhere
  BY <1>3, HandleOrphanKeeps, GraceEndsKeeps, EndedElsewhereKeeps
<1>4. CASE UNCHANGED vars
  <2>1. PageTypes /\ ServerTypes
    BY TypeParts DEF IInv
  <2> QED  BY <1>4, <2>1, SmallStep DEF vars, PageTypes, ServerTypes
<1> QED  BY <1>1, <1>2, <1>3, <1>4 DEF Next
-----------------------------------------------------------------------------
(* The inductive invariant of the browser's tabs. *)
THEOREM BrowserInvariant == Spec => []IInv
<1>1. Init => IInv
  BY InitInv
<1>2. IInv /\ [Next]_vars => IInv'
  BY StepKeeps
<1> QED  BY <1>1, <1>2, PTL DEF Spec

(* The types hold, and with navigator.locks the lock is held by the one tab whose refresh has been sent. *)
THEOREM TypeCorrect == Spec => []TypeOK
<1>1. IInv => TypeOK
  BY DEF IInv
<1> QED  BY <1>1, BrowserInvariant, PTL

(* A page never shows a session again that it has left and the server has ended. *)
THEOREM SignedOutForGood == Spec => []SignedOutStaysOut
<1>1. IInv => SignedOutStaysOut
  BY DEF IInv
<1> QED  BY <1>1, BrowserInvariant, PTL

(* With navigator.locks, no session is revoked as reused unless a refresh was lost or left behind. *)
THEOREM TabsAreNoThieves ==
    ASSUME Locks
    PROVE  Spec => []NoFalseTheft
<1>1. IInv => NoFalseTheft
  BY DEF IInv, Young, NoFalseTheft
<1> QED  BY <1>1, BrowserInvariant, PTL

(* With navigator.locks, no tab is locked out of the session of the last login by the other tabs. *)
THEOREM TabsKeepTheSession ==
    ASSUME Locks
    PROVE  Spec => NoSelfLockout
<1> DEFINE Step ==
      \A t \in Tabs :
          (/\ job[t].at = "answered" /\ job[t].answer = "unauthorized" /\ job'[t].at = "none"
           /\ store[t].sid # NoSid /\ session[store[t].sid] = "live" /\ store'[t].sid = NoSid
           /\ store[t].sid = newest /\ newest \notin unended)
          => lost \/ crossed
<1>1. IInv /\ [Next]_vars => [Step]_vars
  BY DEF IInv, LoyalJar, Loyal, LoyalJob
<1>2. Spec => [][Step]_vars
  BY <1>1, BrowserInvariant, PTL DEF Spec
<1> QED  BY <1>2 DEF NoSelfLockout
=============================================================================
