----------------------------- MODULE UserSession -----------------------------
(***************************************************************************)
(* Login sessions: model/user_session.go, service/auth_session.go and      *)
(* controller/auth_session.go.                                             *)
(*                                                                         *)
(* A login session is a row of user_sessions, with a copy in Redis that    *)
(* every authenticated request reads.  The module is about one session:    *)
(* requests that validate it, refresh it, revoke it or carry it over a     *)
(* change of the user's auth version run at the same time, on nodes that   *)
(* may have a Redis each.  A step is one database statement, one           *)
(* transaction or one Redis script; between two steps time passes.         *)
(*                                                                         *)
(* Refresh tokens.  The next secret is derived from the presented one      *)
(* (deriveNextRefreshSecret), so the tokens of a session are numbered: the *)
(* row holds `gen`, the number of the current one, and the previous hash   *)
(* is that of gen - 1.  ForgedToken is a secret of no session.             *)
(*                                                                         *)
(* Time is a clock in ticks of one second.  An entry of Redis is gone when *)
(* its `until` is reached.  A process reads the clock once and may use the *)
(* value much later.                                                       *)
(***************************************************************************)
EXTENDS Integers, Sequences

CONSTANTS
    Calls,       \* the requests, one each
    Redises,     \* the Redis instances of the nodes
    MayDo,       \* per request: what it may do
    Near,        \* per request: the Redis instances of the nodes it may reach
    Strangers,   \* the requests that may present a secret of no session
    TTL,         \* userCacheTTLSeconds
    Grace,       \* RefreshReplayWindow
    Expires,     \* expires_at of the session
    Retention,   \* UserSessionRevokedRetentionDays: how long cleanup keeps a revoked row
    MaxClock,    \* bound: the clock
    MaxFaults    \* bound: failed Redis calls and transactions

AllKinds == {"validate", "refresh", "logout", "revoke", "advance"}

ASSUME SessionAssumption ==
    /\ TTL \in Nat \ {0} /\ Grace \in Nat /\ Expires \in Nat \ {0}
    /\ Retention \in Nat /\ MaxClock \in Nat /\ MaxFaults \in Nat
    /\ MayDo \in [Calls -> SUBSET AllKinds] /\ Near \in [Calls -> SUBSET Redises]
    /\ Strangers \subseteq Calls

VARIABLES
    clock,
    row,          \* the row of user_sessions
    authVersion,  \* users.auth_version
    published,    \* the Redis instances whose copy of the user has that version
    cache,        \* per Redis: the entry of the session
    pc,           \* per call: its next step, or its result
    call,         \* per call: its arguments and local variables
    issued,       \* history: the access tokens handed out
    rotated,      \* history: when the request arrived that superseded the previous token
    over,         \* history: when the row was revoked, -1 while it is not
    sealed,       \* history: the Redis instances that got the tombstone
    faults

shared  == <<row, authVersion, published, cache>>
history == <<issued, rotated, over, sealed>>
vars    == <<clock, row, authVersion, published, cache, pc, call, issued, rotated, over, sealed, faults>>

Earlier(a, b) == IF a <= b THEN a ELSE b

ForgedToken == -1
Deny == {"revoking", "revoked"}
(* How a call ends.  What it answers when it is refused (401, 404, 500) is not looked at here. *)
Unauthorized == "refused"
Failed       == "refused"
NotRevoked   == "refused"
Results      == {"ok", "refused"}

PCs == {"idle", "cacheRead", "rowRead", "denyWrite", "fill", "filled", "confirm", "check", "user",
        "rotRead", "rotCAS", "fence", "update", "tombstone", "revRead", "bump", "advance"} \union Results
NoEntry == [status |-> "none", version |-> 0, uav |-> 0, until |-> 0]

(***************************************************************************)
(* The locals of a call: what it does (kind) on which Redis (at), with      *)
(* which refresh token and access token (version and uav); the time it      *)
(* read (now) and its cacheDeadline; the version of the row or entry it     *)
(* read (seen, seenUav); the function that is running (phase); the rounds   *)
(* of RotateUserSessionRefresh, or the auth version this call committed     *)
(* (count).  History: when it arrived (since), and whether its Redis had    *)
(* the tombstone by then (late).                                            *)
(***************************************************************************)
NoCall == [kind |-> "none", at |-> "none", token |-> ForgedToken, version |-> 0, uav |-> 0, now |-> 0,
           deadline |-> 0, seen |-> 0, seenUav |-> 0, phase |-> "get", count |-> 0, since |-> 0,
           late |-> FALSE]

(* CreateUserSession has inserted the row and, unless that failed, written the entry to the Redis of its node. *)
Init ==
    /\ clock = 0
    /\ row = [status |-> "active", version |-> 1, uav |-> 1, gen |-> 0, prevUntil |-> 0, reason |-> "none", revokedAt |-> 0]
    /\ authVersion = 1
    /\ published = Redises
    /\ \E home \in SUBSET Redises :
         /\ \A r, s \in home : r = s
         /\ cache = [r \in Redises |-> IF r \notin home THEN NoEntry ELSE
              [status |-> "active", version |-> 1, uav |-> 1, until |-> Earlier(TTL, Expires)]]
    /\ pc = [c \in Calls |-> "idle"]
    /\ call = [c \in Calls |-> NoCall]
    /\ issued = {[version |-> 1, uav |-> 1]}
    /\ rotated = 0
    /\ over = -1
    /\ sealed = {}
    /\ faults = 0
-----------------------------------------------------------------------------
(***************************************************************************)
(* The row, the entry and the steps all calls share.                       *)
(***************************************************************************)
Fault   == faults < MaxFaults /\ faults' = faults + 1
NoFault == UNCHANGED faults

(* The call goes on with these locals; with a result, it has none any more. *)
GoWith(c, where, locals) ==
    /\ pc' = [pc EXCEPT ![c] = where]
    /\ call' = [call EXCEPT ![c] = IF where \in Results THEN NoCall ELSE locals]

Goto(c, where) == GoWith(c, where, call[c])

(* The locals of c without those that only a request that may still be let in needs. *)
Refused(c) == [call[c] EXCEPT !.token = ForgedToken, !.since = 0, !.deadline = 0]

(* status = active, revoked_at = 0 and expires_at > t. *)
Active(t) == row.status = "active" /\ t < Expires

(* What Redis answers. *)
Entry(c) == cache[call[c].at]

(* The Lua script of writeUserSessionCache lets the version that c has seen in. *)
Accepts(c, status) ==
    /\ status = "active" => Entry(c).status \notin Deny
    /\ Entry(c).version <= call[c].seen

(* Mutant: the entry lives a full TTL from the moment it is written. *)
MutDeadline(c) == clock + TTL

(* The cacheDeadline that the write is given: taken before the row was read. *)
Deadline(c) == call[c].deadline

(* PEXPIREAT. *)
ActiveUntil(c) == Earlier(Deadline(c), Expires)

(* PEXPIRE: a deny entry lives a full TTL from now on. *)
DenyUntil == IF clock < Expires THEN Earlier(clock + TTL, Expires) ELSE clock + 1

Put(c, status) ==
    cache' = [cache EXCEPT ![call[c].at] =
        [status |-> status, version |-> call[c].seen, uav |-> call[c].seenUav,
         until |-> IF status = "active" THEN ActiveUntil(c) ELSE DenyUntil]]

(* What follows a session that was read or written back, per function. *)
After(c) ==
    IF call[c].phase # "get" THEN "ok" ELSE IF call[c].kind = "validate" THEN "check" ELSE "user"

(* issueAuthBundle signs an access token for the version that c has seen. *)
Continue(c) ==
    /\ GoWith(c, After(c), [call[c] EXCEPT !.deadline = 0])
    /\ issued' = IF After(c) = "ok" THEN issued \union {[version |-> call[c].seen, uav |-> call[c].seenUav]}
                 ELSE issued

(* ErrUserSessionInactive: 401 where the service knows the error, 500 elsewhere. *)
RejectInactive(c) == Goto(c, IF call[c].phase = "get" THEN Unauthorized ELSE Failed) /\ UNCHANGED issued
-----------------------------------------------------------------------------
(***************************************************************************)
(* A request arrives.  Its access token is one that was handed out, its    *)
(* refresh token one of the session, of any age, or a forged one.          *)
(***************************************************************************)
FirstStep(k) ==
    CASE k \in {"validate", "refresh"} -> "cacheRead"
      [] k \in {"logout", "revoke"}    -> "revRead"
      [] k = "advance"                 -> "bump"

Arrive(c) ==
    /\ pc[c] = "idle"
    /\ \E k \in MayDo[c], r \in Near[c],
          i \in issued, g \in 0..row.gen \union (IF c \in Strangers THEN {ForgedToken} ELSE {}) :
         /\ k \notin {"validate", "advance"} => i = [version |-> 1, uav |-> 1]     \* not used
         /\ k \notin {"refresh", "logout"} => g = 0                           \* not used
         /\ GoWith(c, FirstStep(k),
              [kind |-> k, at |-> r, token |-> g, version |-> i.version, uav |-> i.uav, now |-> IF FirstStep(k) = "revRead" THEN clock ELSE 0,
               deadline |-> 0, seen |-> 0, seenUav |-> 0, phase |-> "get", count |-> 0,
               since |-> IF FirstStep(k) = "cacheRead" THEN clock ELSE 0,
               late |-> FirstStep(k) = "cacheRead" /\ r \in sealed])
    /\ UNCHANGED <<clock, shared, history, faults>>

(* getUserSessionCache; the deadline is taken before the row is read. *)
CacheRead(c) ==
    /\ pc[c] = "cacheRead"
    /\ \/ /\ Entry(c).status = "active" /\ NoFault
          /\ GoWith(c, After(c), [call[c] EXCEPT !.seen = Entry(c).version, !.seenUav = Entry(c).uav])
       \/ /\ Entry(c).status \in Deny /\ NoFault
          /\ Goto(c, Unauthorized)
       \/ /\ IF Entry(c).status = "none" THEN NoFault ELSE Fault
          /\ GoWith(c, "rowRead", [call[c] EXCEPT !.deadline = clock + TTL])
    /\ UNCHANGED <<clock, shared, history>>

(* GetUserSessionBySID. *)
RowRead(c) ==
    /\ pc[c] = "rowRead"
    /\ GoWith(c, IF Active(clock) THEN "fill" ELSE IF row.status = "gone" THEN Unauthorized ELSE "denyWrite",
              [(IF Active(clock) THEN call[c] ELSE Refused(c)) EXCEPT !.seen = row.version, !.seenUav = row.uav])
    /\ UNCHANGED <<clock, shared, history, faults>>

(* An inactive row leaves a tombstone in Redis; a failure to write it is ignored. *)
DenyWrite(c) ==
    /\ pc[c] = "denyWrite"
    /\ \/ NoFault /\ Accepts(c, "revoked") /\ Put(c, "revoked")
       \/ NoFault /\ ~Accepts(c, "revoked") /\ UNCHANGED cache
       \/ Fault /\ UNCHANGED cache
    /\ Goto(c, Unauthorized)
    /\ UNCHANGED <<clock, row, authVersion, published, history>>

(***************************************************************************)
(* writeUserSessionCache of an active session.  A write whose deadline is  *)
(* over is given up before the script or, when the script was late, finds  *)
(* that PEXPIREAT has deleted the entry; both are stale observations.      *)
(***************************************************************************)
Fill(c) ==
    /\ pc[c] = "fill"
    /\ \/ /\ NoFault /\ clock >= Deadline(c)
          /\ Goto(c, "confirm") /\ UNCHANGED <<cache, issued>>
       \/ /\ NoFault /\ clock >= Deadline(c) /\ Accepts(c, "active")
          /\ cache' = [cache EXCEPT ![call[c].at] = NoEntry]
          /\ Goto(c, "confirm") /\ UNCHANGED issued
       \/ /\ NoFault /\ (clock >= Expires \/ ~Accepts(c, "active"))
          /\ RejectInactive(c) /\ UNCHANGED cache
       \/ /\ NoFault /\ clock < Deadline(c) /\ clock < Expires /\ Accepts(c, "active")
          /\ Put(c, "active")
          /\ Goto(c, "filled") /\ UNCHANGED issued
       \/ /\ Fault /\ UNCHANGED cache
          /\ IF call[c].phase = "advance" THEN Goto(c, Failed) /\ UNCHANGED issued ELSE Continue(c)
    /\ UNCHANGED <<clock, row, authVersion, published, rotated, over, sealed>>

(* completedAt: the script has run, perhaps too late. *)
Filled(c) ==
    /\ pc[c] = "filled"
    /\ \/ clock >= Deadline(c) /\ Goto(c, "confirm") /\ UNCHANGED issued
       \/ clock < Deadline(c) /\ clock >= Expires /\ RejectInactive(c)
       \/ clock < Deadline(c) /\ clock < Expires /\ Continue(c)
    /\ UNCHANGED <<clock, shared, rotated, over, sealed, faults>>

Confirmed(c) == Active(clock) /\ row.version = call[c].seen /\ row.uav = call[c].seenUav

(* confirmUserSessionActiveSnapshot. *)
Confirm(c) ==
    /\ pc[c] = "confirm"
    /\ IF Confirmed(c) THEN Continue(c) ELSE RejectInactive(c)
    /\ UNCHANGED <<clock, shared, rotated, over, sealed, faults>>
-----------------------------------------------------------------------------
(***************************************************************************)
(* The user.  Its cache is the subject of UserAuthCache; here a Redis that *)
(* has not heard of the last change may answer with any earlier version.   *)
(***************************************************************************)
UserVersions(c) == IF call[c].at \in published THEN {authVersion} ELSE 1..authVersion

(* ValidateLoginSession, once it has the session. *)
Check(c) ==
    /\ pc[c] = "check"
    /\ \E v \in UserVersions(c) :
         Goto(c, IF /\ call[c].seen = call[c].version /\ call[c].seenUav = call[c].uav
                    /\ clock < Expires /\ v = call[c].uav
                 THEN "ok" ELSE Unauthorized)
    /\ UNCHANGED <<clock, shared, history, faults>>

(* RefreshLoginSession: a session of another auth version is revoked. *)
UserCheck(c) ==
    /\ pc[c] = "user"
    /\ \E v \in UserVersions(c) :
         LET current == v = call[c].seenUav /\ authVersion = call[c].seenUav
         IN  IF clock >= Expires THEN Goto(c, Unauthorized)
             ELSE GoWith(c, IF current THEN "rotRead" ELSE "revRead",
                         [call[c] EXCEPT !.now = clock, !.phase = IF current THEN "rotate" ELSE "security",
                                           !.seen = 0, !.seenUav = 0])
    /\ UNCHANGED <<clock, shared, history, faults>>

(***************************************************************************)
(* RotateUserSessionRefresh.  The race of two refreshes with one token     *)
(* ends with the same next token for both: the next secret is derived from *)
(* the presented one, so the previous token's successor is the current one.*)
(***************************************************************************)
MaxRounds == 3

IsPrevious(c) == row.gen > 0 /\ call[c].token = row.gen - 1

(* Mutant: the previous token is reuse at once. *)
MutInGrace(c) == FALSE

InGrace(c) == call[c].now <= row.prevUntil

RotateRead(c) ==
    /\ pc[c] = "rotRead"
    /\ LET locals == [call[c] EXCEPT !.seen = row.version, !.seenUav = row.uav, !.deadline = clock + TTL]
       IN  \/ /\ ~Active(call[c].now)
              /\ Goto(c, Failed) /\ UNCHANGED issued
           \/ /\ Active(call[c].now) /\ call[c].token = row.gen
              /\ GoWith(c, "rotCAS", locals) /\ UNCHANGED issued
           \/ /\ Active(call[c].now) /\ IsPrevious(c) /\ InGrace(c)
              /\ Goto(c, "ok") /\ issued' = issued \union {[version |-> row.version, uav |-> row.uav]}
           \/ /\ Active(call[c].now) /\ IsPrevious(c) /\ ~InGrace(c)
              /\ GoWith(c, "fence", [Refused(c) EXCEPT !.phase = "reuse", !.seen = row.version, !.seenUav = row.uav]) /\ UNCHANGED issued
           \/ /\ Active(call[c].now) /\ call[c].token # row.gen /\ ~IsPrevious(c)
              /\ Goto(c, Unauthorized) /\ UNCHANGED issued
    /\ UNCHANGED <<clock, shared, rotated, over, sealed, faults>>

(* Mutant: the update compares the hash and not the status. *)
MutCompares(c) == row.gen = call[c].token

Compares(c) == Active(call[c].now) /\ row.gen = call[c].token

RotateCAS(c) ==
    /\ pc[c] = "rotCAS"
    /\ IF Compares(c)
       THEN /\ row' = [row EXCEPT !.gen = call[c].token + 1, !.prevUntil = call[c].now + Grace]
            /\ rotated' = call[c].since
            /\ GoWith(c, "fill", [call[c] EXCEPT !.token = ForgedToken, !.now = 0, !.count = 0])  \* not used any more
       ELSE /\ GoWith(c, IF call[c].count + 1 < MaxRounds THEN "rotRead" ELSE Unauthorized,
                      [call[c] EXCEPT !.count = @ + 1])
            /\ UNCHANGED <<row, rotated>>
    /\ UNCHANGED <<clock, authVersion, published, cache, issued, over, sealed, faults>>
-----------------------------------------------------------------------------
(***************************************************************************)
(* Revocation: RevokeUserSession, RevokeUserSessionByRefreshHash and the   *)
(* reuse branch above.  The deny fence is published first, then the row is *)
(* revoked, then the tombstone.                                            *)
(* RefreshLoginSession ignores how the revocation ended and answers 401.   *)
(***************************************************************************)
Answer(c, result) == Goto(c, IF call[c].phase = "security" THEN Unauthorized ELSE result)

(* A logout by refresh token needs the current token, or the previous one within Grace. *)
Holds(c) == call[c].token = row.gen \/ (IsPrevious(c) /\ InGrace(c))

RevokeRead(c) ==
    /\ pc[c] = "revRead"
    /\ IF Active(call[c].now) /\ (call[c].kind = "logout" => Holds(c))
       THEN GoWith(c, "fence", [Refused(c) EXCEPT !.seen = row.version, !.seenUav = row.uav])
       ELSE Answer(c, NotRevoked)
    /\ UNCHANGED <<clock, shared, history, faults>>

(* writeUserSessionDenyFence: an error ends the call. *)
DenyFence(c) ==
    /\ pc[c] = "fence"
    /\ \/ NoFault /\ Accepts(c, "revoking") /\ Put(c, "revoking") /\ Goto(c, "update")
       \/ NoFault /\ ~Accepts(c, "revoking") /\ UNCHANGED cache /\ Answer(c, Failed)
       \/ Fault /\ UNCHANGED cache /\ Answer(c, Failed)
    /\ UNCHANGED <<clock, row, authVersion, published, history>>

(* Mutant: the reason is the request, not the cause. *)
MutReason(c) == call[c].kind

Reason(c) == IF call[c].phase = "get" THEN call[c].kind ELSE call[c].phase

(* The transaction that revokes the row, if it is still active. *)
RevokeRow(c) ==
    /\ pc[c] = "update"
    /\ \/ /\ NoFault /\ Active(call[c].now)
          /\ row' = [row EXCEPT !.status = "revoked", !.reason = Reason(c), !.revokedAt = call[c].now]
          /\ over' = clock
          /\ Goto(c, "tombstone")
       \/ /\ NoFault /\ ~Active(call[c].now)
          /\ Answer(c, IF call[c].phase = "reuse" THEN Failed ELSE NotRevoked) /\ UNCHANGED <<row, over>>
       \/ /\ Fault
          /\ Answer(c, Failed) /\ UNCHANGED <<row, over>>
    /\ UNCHANGED <<clock, authVersion, published, cache, issued, rotated, sealed>>

(* Mutant: nothing is written: the fence has to do, which expires earlier. *)
MutPutTombstone(c) == UNCHANGED cache

PutTombstone(c) == Put(c, "revoked")

(* The tombstone; a failure is only logged. *)
Tombstone(c) ==
    /\ pc[c] = "tombstone"
    /\ \/ NoFault /\ Accepts(c, "revoked") /\ PutTombstone(c) /\ sealed' = sealed \union {call[c].at}
       \/ NoFault /\ ~Accepts(c, "revoked") /\ UNCHANGED <<cache, sealed>>
       \/ Fault /\ UNCHANGED <<cache, sealed>>
    /\ Goto(c, IF call[c].phase = "get" THEN "ok" ELSE Unauthorized)
    /\ UNCHANGED <<clock, row, authVersion, published, issued, rotated, over>>
-----------------------------------------------------------------------------
(***************************************************************************)
(* A change of the user's security settings by the session itself: the     *)
(* auth version is committed and published, then the session is carried    *)
(* over.                                                                   *)
(***************************************************************************)
Bump(c) ==
    /\ pc[c] = "bump"
    /\ authVersion' = authVersion + 1
    /\ published' = {call[c].at}
    /\ GoWith(c, "advance", [call[c] EXCEPT !.count = authVersion + 1, !.now = clock, !.phase = "advance"])
    /\ UNCHANGED <<clock, row, cache, history, faults>>

(***************************************************************************)
(* AdvanceUserSessionAuthVersion: to the version committed, or a later one *)
(* read from the cache.  The clock was read at t, some time after the      *)
(* publication and before the transaction.                                 *)
(***************************************************************************)
Advance(c) ==
    /\ pc[c] = "advance"
    /\ \/ /\ NoFault /\ row.version = call[c].version /\ row.uav = call[c].uav
          /\ \E n \in call[c].count..authVersion, t \in call[c].now..clock :
               /\ Active(t)
               /\ row' = [row EXCEPT !.version = @ + 1, !.uav = n]
               /\ GoWith(c, "fill", [call[c] EXCEPT !.seen = row.version + 1, !.seenUav = n, !.deadline = t + TTL])
       \/ /\ NoFault /\ ~(Active(clock) /\ row.version = call[c].version /\ row.uav = call[c].uav)
          /\ Goto(c, Failed) /\ UNCHANGED row
       \/ Fault /\ Goto(c, Failed) /\ UNCHANGED row
    /\ UNCHANGED <<clock, authVersion, published, cache, history>>
-----------------------------------------------------------------------------
(* DeleteExpiredUserSessions and DeleteOldRevokedUserSessions. *)
Cleanup ==
    /\ \/ row.status = "active" /\ clock > Expires
       \/ row.status = "revoked" /\ clock > row.revokedAt + Retention
    /\ row' = [row EXCEPT !.status = "gone"]
    /\ UNCHANGED <<clock, authVersion, published, cache, pc, call, history, faults>>

(* Time passes, and Redis drops the entries that expire. *)
Tick ==
    /\ clock < MaxClock
    /\ clock' = clock + 1
    /\ cache' = [r \in Redises |-> IF clock' < cache[r].until THEN cache[r] ELSE NoEntry]
    /\ UNCHANGED <<row, authVersion, published, pc, call, history, faults>>

CallStep(c) ==
    \/ Arrive(c) \/ CacheRead(c) \/ RowRead(c) \/ DenyWrite(c) \/ Fill(c) \/ Filled(c) \/ Confirm(c)
    \/ Check(c) \/ UserCheck(c) \/ RotateRead(c) \/ RotateCAS(c) \/ RevokeRead(c) \/ DenyFence(c)
    \/ RevokeRow(c) \/ Tombstone(c) \/ Bump(c) \/ Advance(c)

Next == Tick \/ Cleanup \/ \E c \in Calls : CallStep(c)

Spec == Init /\ [][Next]_vars
-----------------------------------------------------------------------------
Rows == [status : {"active", "revoked", "gone"}, version : Nat, uav : Nat, gen : Nat, prevUntil : Nat,
         reason : {"none", "reuse", "security", "logout", "revoke"}, revokedAt : Nat]
Entries == [status : {"none", "active"} \union Deny, version : Nat, uav : Nat, until : Nat]
Locals == [kind : AllKinds, at : Redises, token : Int, version : Nat, uav : Nat, now : Nat,
           deadline : Nat, seen : Nat, seenUav : Nat,
           phase : {"get", "rotate", "security", "reuse", "advance"}, count : Nat, since : Nat,
           late : BOOLEAN]

(* Every variable has its type; a call has locals while it runs. *)
TypeOK ==
    /\ clock \in Nat /\ row \in Rows /\ authVersion \in Nat /\ published \subseteq Redises
    /\ cache \in [Redises -> Entries]
    /\ pc \in [Calls -> PCs]
    /\ call \in [Calls -> Locals \union {NoCall}]
    /\ \A c \in Calls : call[c] = NoCall <=> pc[c] \in Results \union {"idle"}
    /\ issued \subseteq [version : Nat, uav : Nat]
    /\ rotated \in Nat /\ over \in Int /\ sealed \subseteq Redises /\ faults \in Nat

(* Request c is let in, or handed new tokens, by this step. *)
LetIn(c) == pc[c] # "ok" /\ pc'[c] = "ok" /\ call[c].kind \in {"validate", "refresh"}

(***************************************************************************)
(* Once the revocation has left its tombstone in a Redis, no request that  *)
(* starts there later is let in: neither the old entry, nor a reader that   *)
(* read the row before it was revoked and writes its entry after the        *)
(* tombstone has expired, brings the session back.                          *)
(***************************************************************************)
RevokedStaysOut == [][\A c \in Calls : LetIn(c) => ~call[c].late]_vars

(***************************************************************************)
(* On every node, also one with a Redis of its own that never saw the      *)
(* fence, and also when the tombstone was lost, a revoked session is        *)
(* refused from TTL after the revocation on.                                *)
(***************************************************************************)
RevokedWithinTTL == [][\A c \in Calls : LetIn(c) /\ over >= 0 => call[c].since < over + TTL]_vars

(***************************************************************************)
(* A refresh token is taken for stolen only when it comes back more than   *)
(* Grace after the request that superseded it arrived: two tabs that        *)
(* refresh with one token, or a retry after a lost answer, do not revoke    *)
(* the session.                                                             *)
(***************************************************************************)
TheftIsLate ==
    [][\A c \in Calls : call[c].phase # "reuse" /\ call'[c].phase = "reuse"
                          => call[c].now > rotated + Grace]_vars

(***************************************************************************)
(* Requests that race with one refresh token advance the session once; a   *)
(* session that is over stays over.                                        *)
(***************************************************************************)
Family == INSTANCE TokenFamily WITH live <- row.status = "active", gen <- row.gen
FamilySpec == Family!Spec

(***************************************************************************)
(* service/auth_session.go:162: a change of the security settings preserves *)
(* the session that makes it.                                              *)
(***************************************************************************)
CurrentPreserved == \A c \in Calls : pc[c] = "advance" => row.reason # "security"
=============================================================================
