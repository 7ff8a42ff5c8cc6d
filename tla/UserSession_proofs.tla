------------------------- MODULE UserSession_proofs -------------------------
(***************************************************************************)
(* Proofs about UserSession, for any number of requests, Redis servers,    *)
(* faults and ticks: the types, that a revoked session stays out, that a   *)
(* refresh token is not taken for stolen within its window, and that the   *)
(* session implements TokenFamily.                                         *)
(***************************************************************************)
EXTENDS UserSession, TLAPS

(* A request here has been taken for one of an active session. *)
Passed   == {"fill", "filled", "confirm", "check", "user", "rotRead", "rotCAS"}
Revoking == {"revRead", "fence", "update", "tombstone"}

(* The time up to which the row may have been seen active, of a session over at o (-1: not yet). *)
EndTime(t, o) == IF o >= 0 THEN o ELSE t

(* What holds of a request at w with the locals l, at time t, where o and s are over and sealed. *)
StageAt(w, l, t, o, s) ==
    /\ l.since <= t
    /\ l.deadline <= t + TTL
    /\ w \in {"fill", "filled"} => l.deadline <= EndTime(t, o) + TTL
    /\ w \in Passed => ~l.late /\ (o >= 0 => l.since < o + TTL)
    /\ l.late => l.at \in s
    /\ w \in {"rotRead", "rotCAS"} => l.phase = "rotate" /\ l.since <= l.now
    /\ w \in Revoking => (l.phase = "get" /\ l.kind \in {"logout", "revoke"}) \/ l.phase \in {"reuse", "security"}
    /\ w = "tombstone" => o >= 0
    /\ w \in {"cacheRead", "rowRead"} => l.phase = "get" /\ l.kind \in {"validate", "refresh"}

Stages == \A c \in Calls : StageAt(pc[c], call[c], clock, over, sealed)

(* Up to this time a reader that saw the row active may still write its entry. *)
Limit == Earlier(over + TTL, Expires)

(* An entry of Redis r lives; an active one not longer than TTL after the end of the session; and *)
(* where the tombstone was left, an entry that denies outlives every reader of the active row.    *)
EntryOK(r) ==
    /\ cache[r].status # "none" => clock < cache[r].until
    /\ cache[r].status = "active" => cache[r].until <= EndTime(clock, over) + TTL
    /\ r \in sealed => /\ over >= 0 /\ cache[r].status # "active"
                       /\ clock < Limit => cache[r].status \in Deny /\ Limit <= cache[r].until

Entered == \A r \in Redises : EntryOK(r)

(* The row, its end and the last rotation. *)
RowOK ==
    /\ over = -1 \/ (0 <= over /\ over <= clock)
    /\ row.status = "active" => over = -1
    /\ row.gen > 0 => rotated + Grace <= row.prevUntil

IInv == TypeOK /\ RowOK /\ Entered /\ Stages

(* What the action properties say of a step. *)
Safe ==
    \A c \in Calls :
        /\ LetIn(c) => ~call[c].late
        /\ LetIn(c) /\ over >= 0 => call[c].since < over + TTL
        /\ call[c].phase # "reuse" /\ call'[c].phase = "reuse" => call[c].now > rotated + Grace

(* Request c goes to w with the locals l, and what that needs. *)
GoodStep(c, w, l) ==
    /\ GoWith(c, w, l)
    /\ w \in PCs \ {"idle"}
    /\ w \notin Results => l \in Locals /\ StageAt(w, l, clock, over', sealed')
    /\ w = "ok" => pc[c] \in Passed \/ call[c].kind \notin {"validate", "refresh"}
    /\ w \notin Results /\ l.phase = "reuse" => call[c].phase = "reuse" \/ call[c].now > rotated + Grace

(* The requests after a step. *)
CallsOK ==
    /\ pc' \in [Calls -> PCs] /\ call' \in [Calls -> Locals \union {NoCall}]
    /\ \A d \in Calls : call'[d] = NoCall <=> pc'[d] \in Results \union {"idle"}
    /\ \A d \in Calls : StageAt(pc'[d], call'[d], clock', over', sealed')
    /\ Safe

-----------------------------------------------------------------------------
(* Locals are not NoCall, and a request that runs has them. *)
LEMMA Running ==
    ASSUME TypeOK
    PROVE  /\ NoCall \notin Locals
           /\ NoCall.phase = "get" /\ NoCall.since = 0 /\ NoCall.deadline = 0 /\ ~NoCall.late
           /\ \A c \in Calls : pc[c] \notin Results \union {"idle"} => call[c] \in Locals
BY DEF TypeOK, NoCall, Locals, AllKinds

(* The step of one request keeps the others where they are. *)
LEMMA Stepping ==
    ASSUME IInv, NEW c \in Calls, NEW w, NEW l, GoodStep(c, w, l),
           clock' = clock, sealed \subseteq sealed',
           over' = over \/ (over = -1 /\ over' = clock)
    PROVE  CallsOK
<1> DEFINE m == IF w \in Results THEN NoCall ELSE l
<1>1. /\ pc \in [Calls -> PCs] /\ call \in [Calls -> Locals \union {NoCall}] /\ clock \in Nat /\ over \in Int
      /\ TTL \in Nat \ {0}
  BY SessionAssumption DEF IInv, TypeOK
<1>2. pc' = [pc EXCEPT ![c] = w] /\ call' = [call EXCEPT ![c] = m] /\ w \in PCs
  BY DEF GoodStep, GoWith
<1>3. m \in Locals \union {NoCall} /\ (m = NoCall <=> w \in Results \union {"idle"})
  BY Running DEF GoodStep, IInv
<1>4. /\ pc'[c] = w /\ call'[c] = m
      /\ \A d \in Calls : d # c => pc'[d] = pc[d] /\ call'[d] = call[d]
  BY <1>1, <1>2
<1>5. pc' \in [Calls -> PCs] /\ call' \in [Calls -> Locals \union {NoCall}]
  BY <1>1, <1>2, <1>3
<1>6. \A d \in Calls : call'[d] = NoCall <=> pc'[d] \in Results \union {"idle"}
  BY <1>3, <1>4 DEF IInv, TypeOK
<1>7. StageAt(w, m, clock', over', sealed')
  <2>1. CASE w \in Results
    BY <2>1, <1>1, Running DEF StageAt, Results, Passed, Revoking, EndTime, IInv
  <2>2. CASE w \notin Results
    BY <2>2 DEF GoodStep
  <2> QED  BY <2>1, <2>2
<1>8. ASSUME NEW d \in Calls, d # c PROVE StageAt(pc'[d], call'[d], clock', over', sealed')
  <2>1. StageAt(pc[d], call[d], clock, over, sealed) /\ call[d] \in Locals \union {NoCall}
    BY <1>1 DEF IInv, Stages
  <2>2. call[d].since \in Nat /\ call[d].deadline \in Nat
    BY <2>1 DEF Locals, NoCall
  <2> QED  BY <2>1, <2>2, <1>1, <1>4, <1>8 DEF StageAt, EndTime
<1>9. Safe
  <2> SUFFICES ASSUME NEW d \in Calls
               PROVE  /\ LetIn(d) => ~call[d].late
                      /\ LetIn(d) /\ over >= 0 => call[d].since < over + TTL
                      /\ call[d].phase # "reuse" /\ call'[d].phase = "reuse" => call[d].now > rotated + Grace
    BY DEF Safe
  <2>1. CASE d # c
    BY <2>1, <1>4 DEF LetIn
  <2>2. CASE d = c
    <3>1. LetIn(c) => pc[c] \in Passed
      BY <1>4 DEF GoodStep, LetIn
    <3>2. StageAt(pc[c], call[c], clock, over, sealed)
      BY DEF IInv, Stages
    <3>3. call[c].phase # "reuse" /\ call'[c].phase = "reuse" => call[c].now > rotated + Grace
      BY <1>4, Running DEF GoodStep, IInv
    <3> QED  BY <2>2, <3>1, <3>2, <3>3 DEF StageAt
  <2> QED  BY <2>1, <2>2
<1> QED  BY <1>4, <1>5, <1>6, <1>7, <1>8, <1>9 DEF CallsOK

(* A step that changes neither the row nor Redis. *)
LEMMA QuietKeeps ==
    ASSUME IInv, CallsOK, UNCHANGED <<clock, shared, rotated, over, sealed>>,
           issued' \subseteq [version : Nat, uav : Nat], faults' \in Nat
    PROVE  IInv' /\ Safe
<1>1. TypeOK'
  BY DEF IInv, TypeOK, CallsOK, shared
<1>2. RowOK' /\ Entered'
  BY DEF IInv, RowOK, Entered, EntryOK, Limit, shared
<1>3. Stages'
  BY DEF CallsOK, Stages
<1> QED  BY <1>1, <1>2, <1>3 DEF IInv, CallsOK

(* The counter of the faults stays a number. *)
LEMMA FaultType ==
    ASSUME IInv
    PROVE  (Fault => faults' \in Nat) /\ (NoFault => faults' \in Nat)
BY DEF Fault, NoFault, IInv, TypeOK

-----------------------------------------------------------------------------
(* A request that is not let in any more. *)
LEMMA SetRefused ==
    ASSUME NEW l \in Locals, NEW g \in Int
    PROVE  LET m == [l EXCEPT !.token = g, !.since = 0, !.deadline = 0] IN
           /\ m \in Locals
           /\ m.kind = l.kind /\ m.at = l.at /\ m.since = 0 /\ m.deadline = 0
           /\ m.late = l.late /\ m.phase = l.phase /\ m.now = l.now
BY DEF Locals

(* What Refused leaves of the locals. *)
LEMMA RefusedFacts ==
    ASSUME NEW c \in Calls, call[c] \in Locals
    PROVE  /\ Refused(c) \in Locals
           /\ Refused(c).late = call[c].late /\ Refused(c).at = call[c].at /\ Refused(c).phase = call[c].phase
           /\ Refused(c).since = 0 /\ Refused(c).deadline = 0 /\ Refused(c).now = call[c].now
           /\ Refused(c).kind = call[c].kind
<1>1. ForgedToken \in Int
  BY DEF ForgedToken
<1> QED  BY <1>1, SetRefused DEF Refused

(* A request ends with a result. *)
LEMMA EndStep ==
    ASSUME IInv, NEW c \in Calls, NEW w \in Results, NEW l, GoWith(c, w, l),
           w = "ok" => pc[c] \in Passed \/ call[c].kind \notin {"validate", "refresh"}
    PROVE  GoodStep(c, w, l)
BY DEF GoodStep, Results, PCs

(* A request that is refused. *)
LEMMA RefusedStep ==
    ASSUME IInv, NEW c \in Calls, NEW w \in {Unauthorized, Failed, NotRevoked}, Goto(c, w)
    PROVE  GoodStep(c, w, call[c])
BY EndStep DEF Goto, Unauthorized, Failed, NotRevoked, Results

(* A request that runs: the types of what it has, and what its stage says. *)
FactsOf(c) ==
    /\ call[c] \in Locals /\ call[c].at \in Redises
    /\ call[c].since \in Nat /\ call[c].deadline \in Nat /\ call[c].now \in Nat
    /\ call[c].seen \in Nat /\ call[c].seenUav \in Nat /\ call[c].token \in Int
    /\ call[c].count \in Nat /\ call[c].kind \in AllKinds
    /\ StageAt(pc[c], call[c], clock, over, sealed)
    /\ clock \in Nat /\ over \in Int /\ (over = -1 \/ (0 <= over /\ over <= clock))
    /\ row \in Rows /\ row.version \in Nat /\ row.uav \in Nat /\ row.gen \in Nat /\ row.prevUntil \in Nat
    /\ TTL \in Nat \ {0} /\ Expires \in Nat \ {0} /\ Grace \in Nat
    /\ rotated \in Nat

(* Every request that runs has these facts. *)
LEMMA Facts ==
    ASSUME IInv, NEW c \in Calls, pc[c] \notin Results \union {"idle"}
    PROVE  FactsOf(c)
<1>1. call[c] \in Locals
  BY Running DEF IInv
<1>2. row \in Rows /\ clock \in Nat /\ over \in Int /\ rotated \in Nat
  BY DEF IInv, TypeOK
<1>3. StageAt(pc[c], call[c], clock, over, sealed) /\ (over = -1 \/ (0 <= over /\ over <= clock))
  BY DEF IInv, Stages, RowOK
<1>4. row.version \in Nat /\ row.uav \in Nat /\ row.gen \in Nat /\ row.prevUntil \in Nat
  BY <1>2 DEF Rows
<1>5. /\ call[c].at \in Redises
      /\ call[c].since \in Nat /\ call[c].deadline \in Nat /\ call[c].now \in Nat
      /\ call[c].seen \in Nat /\ call[c].seenUav \in Nat /\ call[c].token \in Int
      /\ call[c].count \in Nat /\ call[c].kind \in AllKinds
  BY <1>1 DEF Locals
<1> QED  BY <1>1, <1>2, <1>3, <1>4, <1>5, SessionAssumption DEF FactsOf

(* A step of one request that changes neither the row nor Redis. *)
LEMMA QuietStep ==
    ASSUME IInv, NEW c \in Calls, NEW w, NEW l, GoodStep(c, w, l),
           UNCHANGED <<clock, shared, rotated, over, sealed>>,
           issued' \subseteq [version : Nat, uav : Nat], faults' \in Nat
    PROVE  IInv' /\ Safe
BY Stepping, QuietKeeps

(* A request arrives. *)
LEMMA ArriveKeeps ==
    ASSUME IInv, NEW c \in Calls, Arrive(c)
    PROVE  IInv' /\ Safe
<1>1. PICK k \in MayDo[c], r \in Near[c], i \in issued,
           g \in 0..row.gen \union (IF c \in Strangers THEN {ForgedToken} ELSE {}) :
        GoWith(c, FirstStep(k),
              [kind |-> k, at |-> r, token |-> g, version |-> i.version, uav |-> i.uav,
               now |-> IF FirstStep(k) = "revRead" THEN clock ELSE 0,
               deadline |-> 0, seen |-> 0, seenUav |-> 0, phase |-> "get", count |-> 0,
               since |-> IF FirstStep(k) = "cacheRead" THEN clock ELSE 0,
               late |-> FirstStep(k) = "cacheRead" /\ r \in sealed])
  BY DEF Arrive
<1> DEFINE w == FirstStep(k)
           l == [kind |-> k, at |-> r, token |-> g, version |-> i.version, uav |-> i.uav,
                 now |-> IF w = "revRead" THEN clock ELSE 0,
                 deadline |-> 0, seen |-> 0, seenUav |-> 0, phase |-> "get", count |-> 0,
                 since |-> IF w = "cacheRead" THEN clock ELSE 0,
                 late |-> w = "cacheRead" /\ r \in sealed]
<1>2. UNCHANGED <<clock, shared, history, faults>> /\ pc[c] = "idle"
  BY DEF Arrive
<1>3. k \in AllKinds /\ r \in Redises /\ i.version \in Nat /\ i.uav \in Nat /\ g \in Int /\ clock \in Nat
  <2>1. MayDo[c] \subseteq AllKinds /\ Near[c] \subseteq Redises
    BY SessionAssumption
  <2>2. row.gen \in Nat /\ issued \subseteq [version : Nat, uav : Nat] /\ clock \in Nat
    BY DEF IInv, TypeOK, Rows
  <2> QED  BY <2>1, <2>2 DEF ForgedToken
<1>4. w \in {"cacheRead", "revRead", "bump"} /\ (w = "revRead" => k \in {"logout", "revoke"})
  BY <1>3 DEF FirstStep, AllKinds
<1>5. l \in Locals
  BY <1>3 DEF Locals
<1>6. StageAt(w, l, clock, over', sealed')
  <2>1. l.late => w = "cacheRead" /\ r \in sealed
    OBVIOUS
  <2>2. /\ l.since <= clock /\ l.deadline = 0 /\ l.at = r /\ l.phase = "get" /\ l.kind = k
        /\ l.late => l.at \in sealed'
    BY <1>2, <1>3, <2>1 DEF history
  <2>3. l.deadline <= clock + TTL
    BY <1>3, <2>2, SessionAssumption
  <2>4. w \notin Passed /\ w \notin {"fill", "filled"} /\ w \notin {"rotRead", "rotCAS"} /\ w # "tombstone"
        /\ (w = "cacheRead" => k \in {"validate", "refresh"}) /\ w # "rowRead"
    BY <1>3, <1>4 DEF Passed, FirstStep, AllKinds
  <2> HIDE DEF l, w
  <2> QED  BY <1>4, <2>2, <2>3, <2>4, Zenon DEF StageAt, Revoking
<1>7. GoodStep(c, w, l)
  BY <1>1, <1>4, <1>5, <1>6 DEF GoodStep, PCs, Results
<1>8. issued' \subseteq [version : Nat, uav : Nat] /\ faults' \in Nat
  BY <1>2 DEF history, IInv, TypeOK
<1> QED  BY <1>2, <1>7, <1>8, QuietStep DEF history

(* The session is read from Redis. *)
LEMMA CacheReadKeeps ==
    ASSUME IInv, NEW c \in Calls, CacheRead(c)
    PROVE  IInv' /\ Safe
<1> USE DEF FactsOf
<1>1. /\ pc[c] = "cacheRead" /\ pc[c] \notin Results \union {"idle"}
      /\ UNCHANGED <<clock, shared, history>>
  BY DEF CacheRead, Results
<1>f. FactsOf(c)
  BY <1>1, Facts
<1>2. Entry(c) \in Entries /\ EntryOK(call[c].at)
  BY <1>f, <1>1 DEF Entry, IInv, TypeOK, Entered
<1>3. issued' \subseteq [version : Nat, uav : Nat] /\ UNCHANGED <<rotated, over, sealed>>
  BY <1>f, <1>1 DEF history, IInv, TypeOK
<1>4. faults' \in Nat
  BY FaultType DEF CacheRead
<1>5. CASE /\ Entry(c).status = "active"
           /\ GoWith(c, After(c), [call[c] EXCEPT !.seen = Entry(c).version, !.seenUav = Entry(c).uav])
  <2> DEFINE l == [call[c] EXCEPT !.seen = Entry(c).version, !.seenUav = Entry(c).uav]
             w == After(c)
  <2>1. Entry(c).version \in Nat /\ Entry(c).uav \in Nat
    BY <1>2 DEF Entries
  <2>2. /\ l \in Locals
        /\ l.since = call[c].since /\ l.deadline = call[c].deadline /\ l.late = call[c].late
        /\ l.at = call[c].at /\ l.phase = call[c].phase
    BY <1>f, <1>1, <2>1 DEF Locals
  <2>3. ~call[c].late /\ (over >= 0 => call[c].since < over + TTL)
    BY <1>f, <1>1, <1>2, <1>5 DEF StageAt, EntryOK, Entry, EndTime, Entries
  <2>4. w \in {"check", "user"} /\ call[c].phase = "get"
    BY <1>f, <1>1 DEF StageAt, After
  <2>5. StageAt(w, l, clock, over', sealed')
    BY <1>f, <1>1, <1>3, <2>2, <2>3, <2>4 DEF StageAt, Passed, Revoking
  <2>6. GoodStep(c, w, l)
    BY <1>5, <2>2, <2>4, <2>5 DEF GoodStep, PCs, Results
  <2> QED  BY <1>f, <1>1, <1>3, <1>4, <2>6, QuietStep
<1>6. CASE Goto(c, Unauthorized)
  BY <1>f, <1>1, <1>3, <1>4, <1>6, RefusedStep, QuietStep
<1>7. CASE GoWith(c, "rowRead", [call[c] EXCEPT !.deadline = clock + TTL])
  <2> DEFINE l == [call[c] EXCEPT !.deadline = clock + TTL]
  <2>1. clock + TTL \in Nat
    BY <1>f, <1>1
  <2>2. /\ l \in Locals
        /\ l.since = call[c].since /\ l.deadline = clock + TTL /\ l.late = call[c].late
        /\ l.at = call[c].at /\ l.phase = call[c].phase /\ l.kind = call[c].kind
    BY <1>f, <1>1, <2>1 DEF Locals
  <2>3. StageAt("rowRead", l, clock, over', sealed')
    BY <1>f, <1>1, <1>3, <2>2 DEF StageAt, Passed, Revoking
  <2>4. l.phase = "get"
    BY <1>f, <1>1, <2>2 DEF StageAt
  <2>5. GoodStep(c, "rowRead", l)
    BY <1>7, <2>2, <2>3, <2>4 DEF GoodStep, PCs, Results
  <2> QED  BY <1>f, <1>1, <1>3, <1>4, <2>5, QuietStep
<1> QED  BY <1>5, <1>6, <1>7 DEF CacheRead

(* The row is read: a session that is over is refused, also for a late request. *)
LEMMA RowReadKeeps ==
    ASSUME IInv, NEW c \in Calls, RowRead(c)
    PROVE  IInv' /\ Safe
<1> USE DEF FactsOf
<1> DEFINE b == IF Active(clock) THEN call[c] ELSE Refused(c)
           l == [b EXCEPT !.seen = row.version, !.seenUav = row.uav]
           w == IF Active(clock) THEN "fill" ELSE IF row.status = "gone" THEN Unauthorized ELSE "denyWrite"
<1>1. /\ pc[c] = "rowRead" /\ pc[c] \notin Results \union {"idle"}
      /\ UNCHANGED <<clock, shared, history, faults>> /\ GoWith(c, w, l)
  BY DEF RowRead, Results
<1>f. FactsOf(c)
  BY <1>1, Facts
<1>2. /\ issued' \subseteq [version : Nat, uav : Nat] /\ UNCHANGED <<rotated, over, sealed>>
      /\ faults' \in Nat
  BY <1>f, <1>1 DEF history, IInv, TypeOK
<1>3. b \in Locals /\ b.late = call[c].late /\ b.at = call[c].at /\ b.phase = "get" /\ b.since \in Nat
      /\ b.since <= clock /\ b.deadline <= clock + TTL /\ b.deadline \in Nat
  <2> QED  BY <1>f, <1>1, RefusedFacts DEF StageAt
<1>4. /\ l \in Locals /\ l.late = b.late /\ l.at = b.at /\ l.phase = "get"
      /\ l.since = b.since /\ l.deadline = b.deadline
  BY <1>f, <1>1, <1>3 DEF Locals
<1>5. w \in {"fill", "denyWrite", "refused"} /\ (w = "fill" => over = -1 /\ sealed = {})
  <2>1. w = "fill" => row.status = "active"
    BY DEF Active, Unauthorized
  <2>2. row.status = "active" => over = -1
    BY DEF IInv, RowOK
  <2>3. over = -1 => sealed = {}
    BY DEF IInv, Entered, EntryOK, TypeOK
  <2>4. w \in {"fill", "denyWrite", "refused"}
    BY DEF Unauthorized
  <2> QED  BY <2>1, <2>2, <2>3, <2>4
<1> HIDE DEF b, l, w
<1>6. StageAt(w, l, clock, over', sealed')
  BY <1>f, <1>1, <1>2, <1>3, <1>4, <1>5 DEF StageAt, Passed, Revoking, EndTime
<1>7. GoodStep(c, w, l)
  BY <1>f, <1>1, <1>4, <1>5, <1>6 DEF GoodStep, PCs, Results
<1> QED  BY <1>f, <1>1, <1>2, <1>7, QuietStep

(***************************************************************************)
(* Writes to Redis.                                                        *)
(***************************************************************************)
(* An entry that denies lives, and where the session is over to the limit of its readers. *)
LEMMA DenyLives ==
    ASSUME NEW c \in Calls, FactsOf(c)
    PROVE  /\ DenyUntil \in Nat /\ clock < DenyUntil
           /\ over >= 0 /\ clock < Limit => Limit <= DenyUntil
BY DEF FactsOf, DenyUntil, Limit, Earlier

(* Put writes the one entry. *)
LEMMA PutFacts ==
    ASSUME IInv, NEW c \in Calls, FactsOf(c), NEW st \in {"active"} \union Deny, Put(c, st)
    PROVE  /\ cache' \in [Redises -> Entries]
           /\ \A r \in Redises : r # call[c].at => cache'[r] = cache[r]
           /\ cache'[call[c].at].status = st
           /\ cache'[call[c].at].until = IF st = "active" THEN ActiveUntil(c) ELSE DenyUntil
<1> DEFINE u == IF st = "active" THEN ActiveUntil(c) ELSE DenyUntil
           e == [status |-> st, version |-> call[c].seen, uav |-> call[c].seenUav, until |-> u]
<1>1. cache \in [Redises -> Entries] /\ call[c].at \in Redises /\ cache' = [cache EXCEPT ![call[c].at] = e]
  BY DEF IInv, TypeOK, Put, FactsOf
<1>2. u \in Nat
  BY DenyLives DEF ActiveUntil, Earlier, Deadline, FactsOf
<1>3. e \in Entries /\ e.status = st /\ e.until = u
  BY <1>2 DEF Entries, FactsOf
<1> HIDE DEF e, u
<1>4. cache'[call[c].at] = e /\ cache' \in [Redises -> Entries]
      /\ \A r \in Redises : r # call[c].at => cache'[r] = cache[r]
  BY <1>1, <1>3
<1> QED  BY <1>3, <1>4 DEF u

(* An entry that denies may be written at any time. *)
LEMMA DenyKeeps ==
    ASSUME IInv, NEW c \in Calls, FactsOf(c), NEW st \in Deny, Put(c, st), UNCHANGED <<clock, over>>,
           sealed' = sealed \/ (over >= 0 /\ sealed' = sealed \union {call[c].at})
    PROVE  cache' \in [Redises -> Entries] /\ Entered'
<1>1. /\ cache' \in [Redises -> Entries]
      /\ \A r \in Redises : r # call[c].at => cache'[r] = cache[r]
      /\ cache'[call[c].at].status = st /\ cache'[call[c].at].until = DenyUntil
  BY PutFacts DEF Deny
<1>2. ASSUME NEW r \in Redises PROVE EntryOK(r)'
  <2>1. EntryOK(r) /\ Limit' = Limit
    BY DEF IInv, Entered, Limit
  <2>2. CASE r # call[c].at
    BY <1>1, <2>1, <2>2 DEF EntryOK
  <2>3. CASE r = call[c].at
    BY <1>1, <2>1, <2>3, DenyLives DEF EntryOK, Deny
  <2> QED  BY <2>2, <2>3
<1> QED  BY <1>1, <1>2 DEF Entered

(* The entry of a reader of the active row is refused where the tombstone was left. *)
LEMMA ActiveKeeps ==
    ASSUME IInv, NEW c \in Calls, FactsOf(c), Put(c, "active"), UNCHANGED <<clock, over, sealed>>,
           pc[c] = "fill", clock < Deadline(c), clock < Expires, Accepts(c, "active")
    PROVE  cache' \in [Redises -> Entries] /\ Entered'
<1>1. /\ cache' \in [Redises -> Entries]
      /\ \A r \in Redises : r # call[c].at => cache'[r] = cache[r]
      /\ cache'[call[c].at].status = "active" /\ cache'[call[c].at].until = ActiveUntil(c)
  BY PutFacts
<1>2. call[c].deadline <= EndTime(clock, over) + TTL
  BY DEF FactsOf, StageAt
<1>3. clock < ActiveUntil(c) /\ ActiveUntil(c) <= EndTime(clock, over) + TTL
  BY <1>2 DEF ActiveUntil, Earlier, Deadline, FactsOf, EndTime
<1>4. call[c].at \notin sealed
  <2>1. SUFFICES ASSUME call[c].at \in sealed PROVE FALSE
    OBVIOUS
  <2>2. EntryOK(call[c].at)
    BY DEF IInv, Entered, FactsOf
  <2>3. over >= 0 /\ (clock < Limit => cache[call[c].at].status \in Deny)
    BY <2>1, <2>2 DEF EntryOK
  <2>4. clock < Limit
    BY <1>2, <2>3 DEF Limit, Earlier, EndTime, Deadline, FactsOf
  <2> QED  BY <2>3, <2>4 DEF Accepts, Entry
<1>5. ASSUME NEW r \in Redises PROVE EntryOK(r)'
  <2>1. EntryOK(r) /\ Limit' = Limit
    BY DEF IInv, Entered, Limit
  <2>2. CASE r # call[c].at
    BY <1>1, <2>1, <2>2 DEF EntryOK
  <2>3. CASE r = call[c].at
    BY <1>1, <1>3, <1>4, <2>3 DEF EntryOK
  <2> QED  BY <2>2, <2>3
<1> QED  BY <1>1, <1>5 DEF Entered

(* An entry whose deadline is over when it is written is deleted by Redis. *)
LEMMA DeletedKeeps ==
    ASSUME IInv, NEW c \in Calls, FactsOf(c), UNCHANGED <<clock, over, sealed>>, Accepts(c, "active"),
           cache' = [cache EXCEPT ![call[c].at] = NoEntry]
    PROVE  cache' \in [Redises -> Entries] /\ Entered'
<1>1. cache \in [Redises -> Entries] /\ call[c].at \in Redises /\ NoEntry \in Entries /\ NoEntry.status = "none"
  BY DEF IInv, TypeOK, FactsOf, NoEntry, Entries
<1>2. /\ cache' \in [Redises -> Entries] /\ cache'[call[c].at].status = "none"
      /\ \A r \in Redises : r # call[c].at => cache'[r] = cache[r]
  BY <1>1
<1>3. ASSUME NEW r \in Redises PROVE EntryOK(r)'
  <2>1. EntryOK(r) /\ Limit' = Limit
    BY DEF IInv, Entered, Limit
  <2>2. CASE r # call[c].at
    BY <1>2, <2>1, <2>2 DEF EntryOK
  <2>3. CASE r = call[c].at
    BY <1>2, <2>1, <2>3 DEF EntryOK, Accepts, Entry
  <2> QED  BY <2>2, <2>3
<1> QED  BY <1>2, <1>3 DEF Entered

(* A step that leaves Redis alone. *)
LEMMA UntouchedKeeps ==
    ASSUME IInv, UNCHANGED <<clock, over, sealed, cache>>
    PROVE  cache' \in [Redises -> Entries] /\ Entered'
BY DEF IInv, TypeOK, Entered, EntryOK, Limit

(* A step of one request that writes to Redis. *)
LEMMA RedisStep ==
    ASSUME IInv, NEW c \in Calls, NEW w, NEW l, GoodStep(c, w, l),
           UNCHANGED <<clock, row, authVersion, published, rotated, over>>,
           sealed \subseteq sealed', sealed' \subseteq Redises,
           cache' \in [Redises -> Entries], Entered',
           issued' \subseteq [version : Nat, uav : Nat], faults' \in Nat
    PROVE  IInv' /\ Safe
<1>1. CallsOK
  BY Stepping
<1>2. TypeOK'
  BY <1>1 DEF IInv, TypeOK, CallsOK
<1>3. RowOK'
  BY DEF IInv, RowOK
<1>4. Stages'
  BY <1>1 DEF CallsOK, Stages
<1> QED  BY <1>1, <1>2, <1>3, <1>4 DEF IInv, CallsOK

(* A reader of a row that is over leaves a tombstone. *)
LEMMA DenyWriteKeeps ==
    ASSUME IInv, NEW c \in Calls, DenyWrite(c)
    PROVE  IInv' /\ Safe
<1>1. /\ pc[c] = "denyWrite" /\ pc[c] \notin Results \union {"idle"} /\ Goto(c, Unauthorized)
      /\ UNCHANGED <<clock, row, authVersion, published, history>>
  BY DEF DenyWrite, Results
<1>2. FactsOf(c)
  BY <1>1, Facts
<1>3. /\ issued' \subseteq [version : Nat, uav : Nat] /\ UNCHANGED <<rotated, over, sealed>>
      /\ faults' \in Nat /\ sealed' \subseteq Redises /\ UNCHANGED clock
  BY <1>1, FaultType DEF history, IInv, TypeOK, DenyWrite
<1>4. cache' \in [Redises -> Entries] /\ Entered'
  BY <1>2, <1>3, DenyKeeps, UntouchedKeeps DEF DenyWrite, Deny
<1> QED  BY <1>1, <1>3, <1>4, RefusedStep, RedisStep

(* After a request has what it came for: it is let in, or goes on to the user. *)
LEMMA ContinueStep ==
    ASSUME IInv, NEW c \in Calls, FactsOf(c), pc[c] \in {"fill", "filled", "confirm"}, Continue(c),
           UNCHANGED <<over, sealed>>
    PROVE  /\ \E w, l : GoodStep(c, w, l)
           /\ issued' \subseteq [version : Nat, uav : Nat]
<1> DEFINE l == [call[c] EXCEPT !.deadline = 0]
           w == After(c)
<1>1. /\ l \in Locals
      /\ l.since = call[c].since /\ l.deadline = 0 /\ l.late = call[c].late
      /\ l.at = call[c].at /\ l.phase = call[c].phase
  BY DEF FactsOf, Locals
<1>2. w \in {"ok", "check", "user"} /\ (w # "ok" => call[c].phase = "get") /\ GoWith(c, w, l)
  BY DEF After, Continue
<1>3. StageAt(w, l, clock, over', sealed')
  BY <1>1, <1>2 DEF FactsOf, StageAt, Passed, Revoking
<1>4. GoodStep(c, w, l)
  BY <1>1, <1>2, <1>3 DEF GoodStep, PCs, Results, Passed
<1>5. issued' \subseteq [version : Nat, uav : Nat]
  BY DEF Continue, FactsOf, IInv, TypeOK
<1> QED  BY <1>4, <1>5

(* A stale or inactive observation ends the request. *)
LEMMA RejectStep ==
    ASSUME IInv, NEW c \in Calls, RejectInactive(c)
    PROVE  /\ \E w, l : GoodStep(c, w, l)
           /\ issued' \subseteq [version : Nat, uav : Nat]
BY RefusedStep DEF RejectInactive, IInv, TypeOK

(* A request that goes on at w with the locals it has. *)
LEMMA GoOnStep ==
    ASSUME IInv, NEW c \in Calls, FactsOf(c), NEW w, Goto(c, w), UNCHANGED <<over, sealed>>,
           \/ pc[c] = "fill" /\ w \in {"filled", "confirm"}
           \/ pc[c] = "filled" /\ w = "confirm"
    PROVE  \E l : GoodStep(c, w, l)
<1>1. StageAt(w, call[c], clock, over', sealed')
  BY DEF FactsOf, StageAt, Passed, Revoking
<1> QED  BY <1>1 DEF GoodStep, PCs, Results, Goto, FactsOf

(* The entry of an active session is written, or the write is too late or fails. *)
LEMMA FillKeeps ==
    ASSUME IInv, NEW c \in Calls, Fill(c)
    PROVE  IInv' /\ Safe
<1>1. /\ pc[c] = "fill" /\ pc[c] \notin Results \union {"idle"}
      /\ UNCHANGED <<clock, row, authVersion, published, rotated, over, sealed>>
  BY DEF Fill, Results
<1>2. FactsOf(c)
  BY <1>1, Facts
<1>3. faults' \in Nat /\ sealed' \subseteq Redises
  BY <1>1, FaultType DEF IInv, TypeOK, Fill
<1>4. cache' \in [Redises -> Entries] /\ Entered'
  <2>1. CASE UNCHANGED cache
    BY <2>1, <1>1, UntouchedKeeps
  <2>2. CASE Accepts(c, "active") /\ cache' = [cache EXCEPT ![call[c].at] = NoEntry]
    BY <2>2, <1>1, <1>2, DeletedKeeps
  <2>3. CASE clock < Deadline(c) /\ clock < Expires /\ Accepts(c, "active") /\ Put(c, "active")
    BY <2>3, <1>1, <1>2, ActiveKeeps
  <2> QED  BY <2>1, <2>2, <2>3 DEF Fill
<1>5. (\E w, l : GoodStep(c, w, l)) /\ issued' \subseteq [version : Nat, uav : Nat]
  <2>1. CASE \E w \in {"filled", "confirm"} : Goto(c, w) /\ UNCHANGED issued
    BY <2>1, <1>1, <1>2, GoOnStep DEF IInv, TypeOK
  <2>2. CASE RejectInactive(c)
    BY <2>2, RejectStep
  <2>3. CASE Goto(c, Failed) /\ UNCHANGED issued
    BY <2>3, RefusedStep DEF IInv, TypeOK
  <2>4. CASE Continue(c)
    BY <2>4, <1>1, <1>2, ContinueStep
  <2> QED  BY <2>1, <2>2, <2>3, <2>4 DEF Fill
<1> QED  BY <1>1, <1>3, <1>4, <1>5, RedisStep

(* The script has run: in time or too late. *)
LEMMA FilledKeeps ==
    ASSUME IInv, NEW c \in Calls, Filled(c)
    PROVE  IInv' /\ Safe
<1>1. /\ pc[c] = "filled" /\ pc[c] \notin Results \union {"idle"}
      /\ UNCHANGED <<clock, shared, rotated, over, sealed, faults>>
  BY DEF Filled, Results
<1>2. FactsOf(c) /\ faults' \in Nat
  BY <1>1, Facts DEF IInv, TypeOK
<1>3. (\E w, l : GoodStep(c, w, l)) /\ issued' \subseteq [version : Nat, uav : Nat]
  <2>1. CASE Goto(c, "confirm") /\ UNCHANGED issued
    BY <2>1, <1>1, <1>2, GoOnStep DEF IInv, TypeOK
  <2>2. CASE RejectInactive(c)
    BY <2>2, RejectStep
  <2>3. CASE Continue(c)
    BY <2>3, <1>1, <1>2, ContinueStep
  <2> QED  BY <2>1, <2>2, <2>3 DEF Filled
<1> QED  BY <1>1, <1>2, <1>3, QuietStep

(* The row is read again. *)
LEMMA ConfirmKeeps ==
    ASSUME IInv, NEW c \in Calls, Confirm(c)
    PROVE  IInv' /\ Safe
<1>1. /\ pc[c] = "confirm" /\ pc[c] \notin Results \union {"idle"}
      /\ UNCHANGED <<clock, shared, rotated, over, sealed, faults>>
  BY DEF Confirm, Results
<1>2. FactsOf(c) /\ faults' \in Nat
  BY <1>1, Facts DEF IInv, TypeOK
<1>3. (\E w, l : GoodStep(c, w, l)) /\ issued' \subseteq [version : Nat, uav : Nat]
  BY <1>1, <1>2, ContinueStep, RejectStep DEF Confirm
<1> QED  BY <1>1, <1>2, <1>3, QuietStep

-----------------------------------------------------------------------------
(* The user is compared: a request that gets here may be let in. *)
LEMMA CheckKeeps ==
    ASSUME IInv, NEW c \in Calls, Check(c)
    PROVE  IInv' /\ Safe
<1>1. /\ pc[c] = "check" /\ UNCHANGED <<clock, shared, history, faults>>
      /\ \E w \in Results : GoWith(c, w, call[c])
  BY DEF Check, Results, Goto, Unauthorized
<1>2. /\ issued' \subseteq [version : Nat, uav : Nat] /\ faults' \in Nat
      /\ UNCHANGED <<rotated, over, sealed>>
  BY <1>1 DEF history, IInv, TypeOK
<1>3. \E w, l : GoodStep(c, w, l)
  BY <1>1, EndStep DEF Passed
<1> QED  BY <1>1, <1>2, <1>3, QuietStep

(* A refresh goes on to the rotation, or to the revocation of a session of another version. *)
LEMMA UserCheckKeeps ==
    ASSUME IInv, NEW c \in Calls, UserCheck(c)
    PROVE  IInv' /\ Safe
<1>1. /\ pc[c] = "user" /\ pc[c] \notin Results \union {"idle"} /\ UNCHANGED <<clock, shared, history, faults>>
  BY DEF UserCheck, Results
<1>2. /\ issued' \subseteq [version : Nat, uav : Nat] /\ faults' \in Nat
      /\ UNCHANGED <<rotated, over, sealed>> /\ FactsOf(c)
  BY <1>1, Facts DEF history, IInv, TypeOK
<1>3. CASE Goto(c, Unauthorized)
  BY <1>1, <1>2, <1>3, RefusedStep, QuietStep
<1>4. ASSUME NEW w \in {"rotRead", "revRead"}, NEW ph,
             ph = IF w = "rotRead" THEN "rotate" ELSE "security",
             GoWith(c, w, [call[c] EXCEPT !.now = clock, !.phase = ph, !.seen = 0, !.seenUav = 0])
      PROVE  IInv' /\ Safe
  <2> DEFINE l == [call[c] EXCEPT !.now = clock, !.phase = ph, !.seen = 0, !.seenUav = 0]
  <2>1. /\ l \in Locals
        /\ l.since = call[c].since /\ l.deadline = call[c].deadline /\ l.late = call[c].late
        /\ l.at = call[c].at /\ l.phase = ph /\ l.now = clock
    BY <1>2, <1>4 DEF FactsOf, Locals
  <2>2. StageAt(w, l, clock, over', sealed')
    BY <1>1, <1>2, <1>4, <2>1 DEF FactsOf, StageAt, Passed, Revoking
  <2>3. GoodStep(c, w, l)
    BY <1>4, <2>1, <2>2 DEF GoodStep, PCs, Results
  <2> QED  BY <1>1, <1>2, <2>3, QuietStep
<1>5. PICK v \in UserVersions(c) :
        LET current == v = call[c].seenUav /\ authVersion = call[c].seenUav
        IN  IF clock >= Expires THEN Goto(c, Unauthorized)
            ELSE GoWith(c, IF current THEN "rotRead" ELSE "revRead",
                        [call[c] EXCEPT !.now = clock, !.phase = IF current THEN "rotate" ELSE "security",
                                          !.seen = 0, !.seenUav = 0])
  BY DEF UserCheck
<1>6. CASE clock >= Expires
  BY <1>3, <1>5, <1>6
<1>7. CASE ~(clock >= Expires) /\ v = call[c].seenUav /\ authVersion = call[c].seenUav
  BY <1>4, <1>5, <1>7
<1>8. CASE ~(clock >= Expires) /\ ~(v = call[c].seenUav /\ authVersion = call[c].seenUav)
  BY <1>4, <1>5, <1>8
<1> QED  BY <1>6, <1>7, <1>8

(* The row is read for the rotation: the one place where a token is taken for stolen. *)
LEMMA RotateReadKeeps ==
    ASSUME IInv, NEW c \in Calls, RotateRead(c)
    PROVE  IInv' /\ Safe
<1>1. /\ pc[c] = "rotRead" /\ pc[c] \notin Results \union {"idle"}
      /\ UNCHANGED <<clock, shared, rotated, over, sealed, faults>>
  BY DEF RotateRead, Results
<1>2. FactsOf(c) /\ faults' \in Nat
  BY <1>1, Facts DEF IInv, TypeOK
<1>3. CASE (Goto(c, Failed) \/ Goto(c, Unauthorized)) /\ UNCHANGED issued
  BY <1>1, <1>2, <1>3, RefusedStep, QuietStep DEF IInv, TypeOK
<1>4. CASE Goto(c, "ok") /\ issued' = issued \union {[version |-> row.version, uav |-> row.uav]}
  <2>1. GoodStep(c, "ok", call[c])
    BY <1>1, <1>4, EndStep DEF Goto, Results, Passed
  <2>2. issued' \subseteq [version : Nat, uav : Nat]
    BY <1>2, <1>4 DEF FactsOf, IInv, TypeOK
  <2> QED  BY <1>1, <1>2, <2>1, <2>2, QuietStep
<1>5. CASE /\ GoWith(c, "rotCAS", [call[c] EXCEPT !.seen = row.version, !.seenUav = row.uav, !.deadline = clock + TTL])
           /\ UNCHANGED issued
  <2> DEFINE l == [call[c] EXCEPT !.seen = row.version, !.seenUav = row.uav, !.deadline = clock + TTL]
  <2>1. /\ l \in Locals
        /\ l.since = call[c].since /\ l.deadline = clock + TTL /\ l.late = call[c].late
        /\ l.at = call[c].at /\ l.phase = call[c].phase /\ l.now = call[c].now
    <3>1. clock + TTL \in Nat
      BY <1>2 DEF FactsOf
    <3> QED  BY <1>2, <3>1 DEF FactsOf, Locals
  <2>2. StageAt("rotCAS", l, clock, over', sealed')
    BY <1>1, <1>2, <2>1 DEF FactsOf, StageAt, Passed, Revoking
  <2>3. GoodStep(c, "rotCAS", l)
    BY <1>5, <2>1, <2>2 DEF GoodStep, PCs, Results, StageAt
  <2> QED  BY <1>1, <1>2, <1>5, <2>3, QuietStep DEF IInv, TypeOK
<1>6. CASE /\ IsPrevious(c) /\ ~InGrace(c) /\ UNCHANGED issued
           /\ GoWith(c, "fence", [Refused(c) EXCEPT !.phase = "reuse", !.seen = row.version, !.seenUav = row.uav])
  <2> DEFINE l == [Refused(c) EXCEPT !.phase = "reuse", !.seen = row.version, !.seenUav = row.uav]
  <2>1. call[c] \in Locals /\ row.version \in Nat /\ row.uav \in Nat
    BY <1>2 DEF FactsOf
  <2>2. Refused(c) \in Locals /\ Refused(c).since = 0 /\ Refused(c).deadline = 0
        /\ Refused(c).late = call[c].late /\ Refused(c).at = call[c].at
    BY <2>1, RefusedFacts
  <2>3. /\ l \in Locals /\ l.since = 0 /\ l.deadline = 0 /\ l.late = call[c].late
        /\ l.at = call[c].at /\ l.phase = "reuse"
    BY <2>1, <2>2 DEF Locals
  <2>4. StageAt("fence", l, clock, over', sealed')
    BY <1>1, <1>2, <2>3 DEF FactsOf, StageAt, Passed, Revoking
  <2>5. call[c].now > rotated + Grace
    <3>1. row.gen > 0 => rotated + Grace <= row.prevUntil
      BY DEF IInv, RowOK
    <3> QED  BY <1>2, <1>6, <3>1 DEF FactsOf, IsPrevious, InGrace
  <2>6. GoodStep(c, "fence", l)
    BY <1>6, <2>3, <2>4, <2>5 DEF GoodStep, PCs, Results
  <2> QED  BY <1>1, <1>2, <1>6, <2>6, QuietStep DEF IInv, TypeOK
<1> QED  BY <1>3, <1>4, <1>5, <1>6 DEF RotateRead

(* A step of one request that changes the row. *)
LEMMA RowStep ==
    ASSUME IInv, NEW c \in Calls, NEW w, NEW l, GoodStep(c, w, l),
           UNCHANGED <<clock, cache, published, authVersion, issued, sealed>>,
           over' = over \/ (over = -1 /\ over' = clock),
           row' \in Rows, rotated' \in Nat, faults' \in Nat,
           row'.status = "active" => over' = -1,
           row'.gen > 0 => rotated' + Grace <= row'.prevUntil
    PROVE  IInv' /\ Safe
<1>1. CallsOK
  BY Stepping
<1>2. clock \in Nat /\ over \in Int
  BY DEF IInv, TypeOK
<1>3. over' \in Int
  BY <1>2
<1>4. TypeOK'
  BY <1>1, <1>3 DEF IInv, TypeOK, CallsOK
<1>5. RowOK'
  BY <1>2 DEF IInv, RowOK
<1>6. ASSUME NEW r \in Redises PROVE EntryOK(r)'
  <2>1. EntryOK(r)
    BY DEF IInv, Entered
  <2>2. CASE over' = over
    BY <2>1, <2>2 DEF EntryOK, Limit
  <2>3. CASE over = -1 /\ over' = clock
    BY <2>1, <2>3, <1>2 DEF EntryOK, EndTime
  <2> QED  BY <2>2, <2>3
<1>7. Stages'
  BY <1>1 DEF CallsOK, Stages
<1> QED  BY <1>1, <1>4, <1>5, <1>6, <1>7 DEF IInv, CallsOK, Entered

(* The rotation: the window begins at the time the request read, after it arrived. *)
LEMMA RotateCASKeeps ==
    ASSUME IInv, NEW c \in Calls, RotateCAS(c)
    PROVE  IInv' /\ Safe
<1>1. /\ pc[c] = "rotCAS" /\ pc[c] \notin Results \union {"idle"}
      /\ UNCHANGED <<clock, authVersion, published, cache, issued, over, sealed, faults>>
  BY DEF RotateCAS, Results
<1>2. FactsOf(c) /\ faults' \in Nat
  BY <1>1, Facts DEF IInv, TypeOK
<1>3. CASE Compares(c)
  <2> DEFINE l == [call[c] EXCEPT !.token = ForgedToken, !.now = 0, !.count = 0]
  <2>1. /\ row' = [row EXCEPT !.gen = call[c].token + 1, !.prevUntil = call[c].now + Grace]
        /\ rotated' = call[c].since /\ GoWith(c, "fill", l)
    BY <1>3 DEF RotateCAS
  <2>2. row.status = "active" /\ row.gen = call[c].token
    BY <1>3 DEF Compares, Active
  <2>3. over = -1
    BY <2>2 DEF IInv, RowOK
  <2>4. ForgedToken \in Int
    BY DEF ForgedToken
  <2>5. /\ l \in Locals
        /\ l.since = call[c].since /\ l.deadline = call[c].deadline /\ l.late = call[c].late
        /\ l.at = call[c].at /\ l.phase = call[c].phase
    BY <1>2, <2>4 DEF FactsOf, Locals
  <2>6. StageAt("fill", l, clock, over', sealed')
    BY <1>1, <1>2, <2>3, <2>5 DEF FactsOf, StageAt, Passed, Revoking, EndTime
  <2>7. GoodStep(c, "fill", l)
    BY <1>1, <1>2, <2>1, <2>5, <2>6 DEF GoodStep, PCs, Results, FactsOf, StageAt
  <2>8. row' \in Rows /\ row'.status = row.status /\ row'.prevUntil = call[c].now + Grace
    <3>1. call[c].token + 1 \in Nat /\ call[c].now + Grace \in Nat
      BY <1>2, <2>2 DEF FactsOf
    <3> QED  BY <1>2, <2>1, <3>1 DEF FactsOf, Rows
  <2>9. call[c].since <= call[c].now
    BY <1>1, <1>2 DEF FactsOf, StageAt
  <2>10. rotated' \in Nat /\ rotated' + Grace <= row'.prevUntil
    BY <1>2, <2>1, <2>8, <2>9 DEF FactsOf
  <2> QED  BY <1>1, <1>2, <2>3, <2>7, <2>8, <2>10, RowStep
<1>4. CASE ~Compares(c)
  <2> DEFINE l == [call[c] EXCEPT !.count = call[c].count + 1]
             w == IF call[c].count + 1 < MaxRounds THEN "rotRead" ELSE Unauthorized
  <2>1. UNCHANGED <<row, rotated>> /\ GoWith(c, w, l)
    BY <1>4 DEF RotateCAS
  <2>2. /\ l \in Locals
        /\ l.since = call[c].since /\ l.deadline = call[c].deadline /\ l.late = call[c].late
        /\ l.at = call[c].at /\ l.phase = call[c].phase /\ l.now = call[c].now
    <3>1. call[c].count + 1 \in Nat
      BY <1>2 DEF FactsOf
    <3> QED  BY <1>2, <3>1 DEF FactsOf, Locals
  <2>3. w \in {"rotRead", "refused"}
    BY DEF Unauthorized
  <2> HIDE DEF w
  <2>4. StageAt("rotRead", l, clock, over', sealed')
    BY <1>1, <1>2, <2>2 DEF FactsOf, StageAt, Passed, Revoking
  <2>5. GoodStep(c, w, l)
    BY <1>1, <1>2, <2>1, <2>2, <2>3, <2>4 DEF GoodStep, PCs, Results, FactsOf, StageAt
  <2>6. issued' \subseteq [version : Nat, uav : Nat]
    BY <1>1 DEF IInv, TypeOK
  <2> QED  BY <1>1, <1>2, <2>1, <2>5, <2>6, QuietStep DEF shared
<1> QED  BY <1>3, <1>4

-----------------------------------------------------------------------------
(* Answer ends the request, and not with "ok". *)
LEMMA AnswerStep ==
    ASSUME IInv, NEW c \in Calls, NEW w \in {Unauthorized, Failed, NotRevoked}, Answer(c, w)
    PROVE  \E v, l : GoodStep(c, v, l)
BY RefusedStep DEF Answer, Unauthorized, Failed, NotRevoked

(* The row is read for a revocation. *)
LEMMA RevokeReadKeeps ==
    ASSUME IInv, NEW c \in Calls, RevokeRead(c)
    PROVE  IInv' /\ Safe
<1>1. /\ pc[c] = "revRead" /\ pc[c] \notin Results \union {"idle"} /\ UNCHANGED <<clock, shared, history, faults>>
  BY DEF RevokeRead, Results
<1>2. /\ issued' \subseteq [version : Nat, uav : Nat] /\ faults' \in Nat
      /\ UNCHANGED <<rotated, over, sealed>> /\ FactsOf(c)
  BY <1>1, Facts DEF history, IInv, TypeOK
<1>3. CASE Answer(c, NotRevoked)
  BY <1>1, <1>2, <1>3, AnswerStep, QuietStep
<1>4. CASE GoWith(c, "fence", [Refused(c) EXCEPT !.seen = row.version, !.seenUav = row.uav])
  <2> DEFINE l == [Refused(c) EXCEPT !.seen = row.version, !.seenUav = row.uav]
  <2>1. call[c] \in Locals /\ row.version \in Nat /\ row.uav \in Nat
    BY <1>2 DEF FactsOf
  <2>2. Refused(c) \in Locals /\ Refused(c).since = 0 /\ Refused(c).deadline = 0 /\ Refused(c).kind = call[c].kind
        /\ Refused(c).late = call[c].late /\ Refused(c).at = call[c].at /\ Refused(c).phase = call[c].phase
    BY <2>1, RefusedFacts
  <2>3. /\ l \in Locals /\ l.since = 0 /\ l.deadline = 0 /\ l.late = call[c].late
        /\ l.at = call[c].at /\ l.phase = call[c].phase /\ l.kind = call[c].kind
    BY <2>1, <2>2 DEF Locals
  <2>4. StageAt("fence", l, clock, over', sealed')
    BY <1>1, <1>2, <2>3 DEF FactsOf, StageAt, Passed, Revoking
  <2>5. GoodStep(c, "fence", l)
    BY <1>4, <2>3, <2>4 DEF GoodStep, PCs, Results
  <2> QED  BY <1>1, <1>2, <2>5, QuietStep
<1> QED  BY <1>3, <1>4 DEF RevokeRead

(* The fence is published before the row is touched. *)
LEMMA DenyFenceKeeps ==
    ASSUME IInv, NEW c \in Calls, DenyFence(c)
    PROVE  IInv' /\ Safe
<1>1. /\ pc[c] = "fence" /\ pc[c] \notin Results \union {"idle"}
      /\ UNCHANGED <<clock, row, authVersion, published, history>>
  BY DEF DenyFence, Results
<1>2. FactsOf(c)
  BY <1>1, Facts
<1>3. /\ issued' \subseteq [version : Nat, uav : Nat] /\ UNCHANGED <<rotated, over, sealed>>
      /\ faults' \in Nat /\ sealed' \subseteq Redises /\ UNCHANGED clock
  BY <1>1, FaultType DEF history, IInv, TypeOK, DenyFence
<1>4. cache' \in [Redises -> Entries] /\ Entered'
  BY <1>2, <1>3, DenyKeeps, UntouchedKeeps DEF DenyFence, Deny
<1>5. \E w, l : GoodStep(c, w, l)
  <2>1. CASE Goto(c, "update")
    <3>1. StageAt("update", call[c], clock, over', sealed')
      BY <1>1, <1>2, <1>3 DEF FactsOf, StageAt, Passed, Revoking
    <3> QED  BY <1>2, <2>1, <3>1 DEF GoodStep, PCs, Results, Goto, FactsOf
  <2>2. CASE Answer(c, Failed)
    BY <2>2, AnswerStep
  <2> QED  BY <2>1, <2>2 DEF DenyFence
<1> QED  BY <1>1, <1>3, <1>4, <1>5, RedisStep

(* The row is revoked: from now on the end is fixed, and no deadline is later than TTL after it. *)
LEMMA RevokeRowKeeps ==
    ASSUME IInv, NEW c \in Calls, RevokeRow(c)
    PROVE  IInv' /\ Safe
<1>1. /\ pc[c] = "update" /\ pc[c] \notin Results \union {"idle"}
      /\ UNCHANGED <<clock, authVersion, published, cache, issued, rotated, sealed>>
  BY DEF RevokeRow, Results
<1>2. FactsOf(c) /\ faults' \in Nat
  BY <1>1, Facts, FaultType DEF RevokeRow
<1>3. CASE /\ Active(call[c].now) /\ over' = clock /\ Goto(c, "tombstone")
           /\ row' = [row EXCEPT !.status = "revoked", !.reason = Reason(c), !.revokedAt = call[c].now]
  <2>1. row.status = "active" /\ over = -1
    BY <1>3 DEF Active, IInv, RowOK
  <2>2. Reason(c) \in {"reuse", "security", "logout", "revoke"}
    BY <1>1, <1>2 DEF FactsOf, StageAt, Revoking, Reason
  <2>3. row' \in Rows /\ row'.status = "revoked" /\ row'.gen = row.gen /\ row'.prevUntil = row.prevUntil
    BY <1>2, <1>3, <2>2 DEF FactsOf, Rows
  <2>4. StageAt("tombstone", call[c], clock, over', sealed')
    BY <1>1, <1>2, <1>3 DEF FactsOf, StageAt, Passed, Revoking
  <2>5. GoodStep(c, "tombstone", call[c])
    BY <1>2, <1>3, <2>4 DEF GoodStep, PCs, Results, Goto, FactsOf
  <2>6. row'.gen > 0 => rotated' + Grace <= row'.prevUntil
    BY <1>1, <2>3 DEF IInv, RowOK
  <2>7. rotated' \in Nat
    BY <1>1, <1>2 DEF FactsOf
  <2> QED  BY <1>1, <1>2, <1>3, <2>1, <2>3, <2>5, <2>6, <2>7, RowStep
<1>4. CASE (Answer(c, Failed) \/ Answer(c, NotRevoked)) /\ UNCHANGED <<row, over>>
  <2>1. \E w, l : GoodStep(c, w, l)
    BY <1>4, AnswerStep
  <2>2. issued' \subseteq [version : Nat, uav : Nat]
    BY <1>1 DEF IInv, TypeOK
  <2> QED  BY <1>1, <1>2, <1>4, <2>1, <2>2, QuietStep DEF shared
<1> QED  BY <1>3, <1>4 DEF RevokeRow

(* The tombstone. *)
LEMMA TombstoneKeeps ==
    ASSUME IInv, NEW c \in Calls, Tombstone(c)
    PROVE  IInv' /\ Safe
<1>1. /\ pc[c] = "tombstone" /\ pc[c] \notin Results \union {"idle"}
      /\ UNCHANGED <<clock, row, authVersion, published, issued, rotated, over>>
      /\ Goto(c, IF call[c].phase = "get" THEN "ok" ELSE Unauthorized)
  BY DEF Tombstone, Results
<1>2. FactsOf(c) /\ over >= 0
  BY <1>1, Facts DEF FactsOf, StageAt
<1>3. /\ issued' \subseteq [version : Nat, uav : Nat] /\ faults' \in Nat
      /\ sealed \subseteq sealed' /\ sealed' \subseteq Redises
  BY <1>1, <1>2, FaultType DEF IInv, TypeOK, Tombstone, FactsOf
<1>4. cache' \in [Redises -> Entries] /\ Entered'
  <2>1. CASE Put(c, "revoked") /\ sealed' = sealed \union {call[c].at}
    BY <1>1, <1>2, <2>1, DenyKeeps DEF Deny
  <2>2. CASE UNCHANGED <<cache, sealed>>
    BY <1>1, <2>2, UntouchedKeeps
  <2> QED  BY <2>1, <2>2 DEF Tombstone, PutTombstone
<1>5. \E w, l : GoodStep(c, w, l)
  <2>1. call[c].phase = "get" => call[c].kind \notin {"validate", "refresh"}
    BY <1>1, <1>2 DEF FactsOf, StageAt, Revoking
  <2>2. CASE call[c].phase = "get"
    BY <1>1, <2>1, <2>2, EndStep DEF Goto, Results
  <2>3. CASE call[c].phase # "get"
    BY <1>1, <2>3, RefusedStep
  <2> QED  BY <2>2, <2>3
<1> QED  BY <1>1, <1>3, <1>4, <1>5, RedisStep

-----------------------------------------------------------------------------
(* The auth version is committed and published. *)
LEMMA BumpKeeps ==
    ASSUME IInv, NEW c \in Calls, Bump(c)
    PROVE  IInv' /\ Safe
<1> DEFINE l == [call[c] EXCEPT !.count = authVersion + 1, !.now = clock, !.phase = "advance"]
<1>1. /\ pc[c] = "bump" /\ pc[c] \notin Results \union {"idle"} /\ GoWith(c, "advance", l)
      /\ UNCHANGED <<clock, row, cache, history, faults>>
      /\ authVersion' = authVersion + 1 /\ published' = {call[c].at}
  BY DEF Bump, Results
<1>2. FactsOf(c) /\ UNCHANGED <<rotated, over, sealed, issued>>
  BY <1>1, Facts DEF history
<1>3. authVersion + 1 \in Nat /\ published' \subseteq Redises
  BY <1>1, <1>2 DEF IInv, TypeOK, FactsOf
<1>4. /\ l \in Locals /\ l.since = call[c].since /\ l.deadline = call[c].deadline /\ l.late = call[c].late
      /\ l.at = call[c].at /\ l.phase = "advance"
  BY <1>2, <1>3 DEF FactsOf, Locals
<1>5. StageAt("advance", l, clock, over', sealed')
  BY <1>1, <1>2, <1>4 DEF FactsOf, StageAt, Passed, Revoking
<1>6. GoodStep(c, "advance", l)
  BY <1>1, <1>4, <1>5 DEF GoodStep, PCs, Results
<1>7. CallsOK
  BY <1>1, <1>2, <1>6, Stepping
<1>8. TypeOK'
  BY <1>1, <1>2, <1>3, <1>7 DEF IInv, TypeOK, CallsOK
<1>9. RowOK' /\ Entered'
  BY <1>1, <1>2 DEF IInv, RowOK, Entered, EntryOK, Limit
<1>10. Stages'
  BY <1>7 DEF CallsOK, Stages
<1> QED  BY <1>7, <1>8, <1>9, <1>10 DEF IInv, CallsOK

(* The session is carried over to the new auth version, while it is active. *)
LEMMA AdvanceKeeps ==
    ASSUME IInv, NEW c \in Calls, Advance(c)
    PROVE  IInv' /\ Safe
<1>1. /\ pc[c] = "advance" /\ pc[c] \notin Results \union {"idle"}
      /\ UNCHANGED <<clock, authVersion, published, cache, history>>
  BY DEF Advance, Results
<1>2. FactsOf(c) /\ faults' \in Nat /\ UNCHANGED <<rotated, over, sealed, issued>>
  BY <1>1, Facts, FaultType DEF Advance, history
<1>3. ASSUME NEW n \in call[c].count..authVersion, NEW t \in call[c].now..clock, Active(t),
             row' = [row EXCEPT !.version = @ + 1, !.uav = n],
             GoWith(c, "fill", [call[c] EXCEPT !.seen = row.version + 1, !.seenUav = n, !.deadline = t + TTL])
      PROVE  IInv' /\ Safe
  <2> DEFINE l == [call[c] EXCEPT !.seen = row.version + 1, !.seenUav = n, !.deadline = t + TTL]
  <2>1. n \in Nat /\ t \in Nat /\ t <= clock /\ row.version + 1 \in Nat /\ t + TTL \in Nat /\ t + TTL <= clock + TTL
    BY <1>2 DEF FactsOf, IInv, TypeOK
  <2>2. row.status = "active" /\ over = -1
    BY <1>3 DEF Active, IInv, RowOK
  <2>3. sealed = {}
    BY <2>2 DEF IInv, Entered, EntryOK, TypeOK
  <2>4. /\ l \in Locals /\ l.since = call[c].since /\ l.deadline = t + TTL /\ l.late = call[c].late
        /\ l.at = call[c].at /\ l.phase = call[c].phase
    BY <1>2, <2>1 DEF FactsOf, Locals
  <2>5. StageAt("fill", l, clock, over', sealed')
    BY <1>1, <1>2, <2>1, <2>2, <2>3, <2>4 DEF FactsOf, StageAt, Passed, Revoking, EndTime
  <2>6. GoodStep(c, "fill", l)
    BY <1>3, <2>4, <2>5 DEF GoodStep, PCs, Results
  <2>7. row' \in Rows /\ row'.status = row.status /\ row'.gen = row.gen /\ row'.prevUntil = row.prevUntil
    BY <1>2, <1>3, <2>1 DEF FactsOf, Rows
  <2>8. row'.gen > 0 => rotated' + Grace <= row'.prevUntil
    BY <1>2, <2>7 DEF IInv, RowOK
  <2>9. rotated' \in Nat
    BY <1>2 DEF FactsOf
  <2> QED  BY <1>1, <1>2, <2>2, <2>6, <2>7, <2>8, <2>9, RowStep
<1>4. CASE Goto(c, Failed) /\ UNCHANGED row
  <2>1. issued' \subseteq [version : Nat, uav : Nat]
    BY <1>2 DEF IInv, TypeOK
  <2> QED  BY <1>1, <1>2, <1>4, <2>1, RefusedStep, QuietStep DEF shared
<1> QED  BY <1>3, <1>4 DEF Advance

(* The cleanup deletes the row. *)
LEMMA CleanupKeeps ==
    ASSUME IInv, Cleanup
    PROVE  IInv' /\ Safe
<1>1. /\ row' = [row EXCEPT !.status = "gone"] /\ row \in Rows
      /\ UNCHANGED <<clock, authVersion, published, cache, pc, call, issued, rotated, over, sealed, faults>>
  BY DEF Cleanup, history, IInv, TypeOK
<1>2. row' \in Rows /\ row'.status = "gone" /\ row'.gen = row.gen /\ row'.prevUntil = row.prevUntil
  BY <1>1 DEF Rows
<1>3. TypeOK' /\ RowOK'
  BY <1>1, <1>2 DEF IInv, TypeOK, RowOK
<1>4. Entered' /\ Stages'
  BY <1>1 DEF IInv, Entered, EntryOK, Limit, Stages
<1>5. Safe
  BY <1>1 DEF Safe, LetIn
<1> QED  BY <1>3, <1>4, <1>5 DEF IInv

(* Time passes. *)
LEMMA TickKeeps ==
    ASSUME IInv, Tick
    PROVE  IInv' /\ Safe
<1>1. /\ clock' = clock + 1 /\ clock \in Nat /\ over \in Int /\ TTL \in Nat /\ Expires \in Nat
      /\ cache' = [r \in Redises |-> IF clock' < cache[r].until THEN cache[r] ELSE NoEntry]
      /\ UNCHANGED <<row, authVersion, published, pc, call, issued, rotated, over, sealed, faults>>
  BY SessionAssumption DEF Tick, history, IInv, TypeOK
<1>2. NoEntry \in Entries /\ NoEntry.status = "none" /\ cache \in [Redises -> Entries]
  BY DEF NoEntry, Entries, IInv, TypeOK
<1>3. cache' \in [Redises -> Entries]
  BY <1>1, <1>2
<1>4. TypeOK'
  BY <1>1, <1>3 DEF IInv, TypeOK
<1>5. RowOK'
  BY <1>1 DEF IInv, RowOK
<1>6. ASSUME NEW r \in Redises PROVE EntryOK(r)'
  <2>1. EntryOK(r) /\ Limit' = Limit /\ cache[r].until \in Nat
    BY <1>1, <1>2 DEF IInv, Entered, Limit, Entries
  <2>2. Limit \in Int
    BY <1>1 DEF Limit, Earlier
  <2>3. CASE clock' < cache[r].until
    <3>1. cache'[r] = cache[r]
      BY <1>1, <2>3
    <3> QED  BY <1>1, <2>1, <2>2, <2>3, <3>1 DEF EntryOK, EndTime
  <2>4. CASE ~(clock' < cache[r].until)
    <3>1. cache'[r].status = "none"
      BY <1>1, <1>2, <2>4
    <3> QED  BY <1>1, <2>1, <2>2, <2>4, <3>1 DEF EntryOK, EndTime
  <2> QED  BY <2>3, <2>4
<1>7. ASSUME NEW c \in Calls PROVE StageAt(pc'[c], call'[c], clock', over', sealed')
  <2>1. StageAt(pc[c], call[c], clock, over, sealed) /\ call[c] \in Locals \union {NoCall}
    BY DEF IInv, Stages, TypeOK
  <2>2. call[c].since \in Nat /\ call[c].deadline \in Nat
    BY <2>1 DEF Locals, NoCall
  <2> QED  BY <1>1, <2>1, <2>2 DEF StageAt, EndTime
<1>8. Safe
  BY <1>1 DEF Safe, LetIn
<1> QED  BY <1>4, <1>5, <1>6, <1>7, <1>8 DEF IInv, Entered, Stages

(* At the start. *)
LEMMA InitInv ==
    ASSUME Init
    PROVE  IInv
<1>1. /\ NoCall \notin Locals /\ NoCall.since = 0 /\ NoCall.deadline = 0 /\ ~NoCall.late
  BY DEF NoCall, Locals, AllKinds
<1>2. /\ TTL \in Nat \ {0} /\ Expires \in Nat \ {0} /\ NoEntry \in Entries /\ NoEntry.status = "none"
  BY SessionAssumption DEF NoEntry, Entries
<1>3. \A r \in Redises : cache[r] \in Entries /\ (cache[r].status = "none" \/ (0 < cache[r].until /\ cache[r].until <= TTL))
  BY <1>2 DEF Init, Entries, Earlier
<1>4. cache \in [Redises -> Entries]
  BY <1>3 DEF Init
<1>5. row \in Rows /\ row.status = "active" /\ row.gen = 0
  BY DEF Init, Rows
<1>6. TypeOK
  BY <1>1, <1>4, <1>5 DEF Init, TypeOK, PCs, Results
<1>7. RowOK
  BY <1>5 DEF Init, RowOK
<1>8. Entered
  BY <1>2, <1>3 DEF Init, Entered, EntryOK, EndTime, Entries
<1>9. Stages
  <2>1. ASSUME NEW c \in Calls PROVE StageAt(pc[c], call[c], clock, over, sealed)
    <3>1. pc[c] = "idle" /\ call[c] = NoCall /\ clock = 0
      BY DEF Init
    <3>2. call[c].since <= clock /\ call[c].deadline <= clock + TTL
      BY <1>1, <1>2, <3>1
    <3> QED  BY <1>1, <3>1, <3>2 DEF StageAt, Passed, Revoking
  <2> QED  BY <2>1 DEF Stages
<1> QED  BY <1>6, <1>7, <1>8, <1>9 DEF IInv

(* The invariant is inductive, and every step is safe. *)
LEMMA StepKeeps ==
    ASSUME IInv, [Next]_vars
    PROVE  IInv' /\ Safe
<1>1. CASE UNCHANGED vars
  <2>1. TypeOK' /\ RowOK'
    BY <1>1 DEF vars, IInv, TypeOK, RowOK
  <2>2. Entered' /\ Stages' /\ Safe
    BY <1>1 DEF vars, IInv, Entered, EntryOK, Limit, Stages, Safe, LetIn
  <2> QED  BY <2>1, <2>2 DEF IInv
<1>2. ASSUME NEW c \in Calls, CallStep(c) PROVE IInv' /\ Safe
  BY <1>2, ArriveKeeps, CacheReadKeeps, RowReadKeeps, DenyWriteKeeps, FillKeeps, FilledKeeps, ConfirmKeeps,
     CheckKeeps, UserCheckKeeps, RotateReadKeeps, RotateCASKeeps, RevokeReadKeeps, DenyFenceKeeps,
     RevokeRowKeeps, TombstoneKeeps, BumpKeeps, AdvanceKeeps DEF CallStep
<1> QED  BY <1>1, <1>2, TickKeeps, CleanupKeeps DEF Next

-----------------------------------------------------------------------------
(* The inductive invariant holds of every reachable state. *)
THEOREM SessionInvariant == Spec => []IInv
<1>1. Init => IInv
  BY InitInv
<1>2. IInv /\ [Next]_vars => IInv'
  BY StepKeeps
<1> QED  BY <1>1, <1>2, PTL DEF Spec

(* The variables of user_session.go's model keep their types, and a request has locals exactly while it runs. *)
THEOREM TypeCorrect == Spec => []TypeOK
<1>1. IInv => TypeOK
  BY DEF IInv
<1> QED  BY <1>1, SessionInvariant, PTL

(* Where RevokeUserSession has left its tombstone, no request that arrives later is let in. *)
THEOREM RevokedOut == Spec => RevokedStaysOut
<1>1. IInv /\ [Next]_vars => [\A c \in Calls : LetIn(c) => ~call[c].late]_vars
  BY StepKeeps DEF Safe
<1> QED  BY <1>1, SessionInvariant, PTL DEF Spec, RevokedStaysOut

(* With or without the tombstone, on every Redis, a revoked session is refused from TTL after its end on. *)
THEOREM RevokedInTime == Spec => RevokedWithinTTL
<1>1. IInv /\ [Next]_vars => [\A c \in Calls : LetIn(c) /\ over >= 0 => call[c].since < over + TTL]_vars
  BY StepKeeps DEF Safe
<1> QED  BY <1>1, SessionInvariant, PTL DEF Spec, RevokedWithinTTL

(* RotateUserSessionRefresh reports reuse only of a token superseded more than Grace ago. *)
THEOREM TheftOnlyLate == Spec => TheftIsLate
<1>1. IInv /\ [Next]_vars => [\A c \in Calls : call[c].phase # "reuse" /\ call'[c].phase = "reuse"
                                                => call[c].now > rotated + Grace]_vars
  BY StepKeeps DEF Safe
<1> QED  BY <1>1, SessionInvariant, PTL DEF Spec, TheftIsLate

(***************************************************************************)
(* The refinement: row is written by a rotation, which supersedes the      *)
(* current token once; by a revocation or the cleanup, which end the       *)
(* session; and by an advance, which is no step of the family.             *)
(***************************************************************************)
LEMMA FamilyStep ==
    ASSUME IInv, [Next]_vars
    PROVE  [Family!Rotate \/ Family!End]_<<row.status = "active", row.gen>>
<1>1. row \in Rows
  BY DEF IInv, TypeOK
<1>2. CASE row' = row
  BY <1>2
<1>3. ASSUME NEW c \in Calls, RotateCAS(c), row' # row PROVE Family!Rotate
  <2>1. /\ row.status = "active" /\ row.gen = call[c].token
        /\ row' = [row EXCEPT !.gen = call[c].token + 1, !.prevUntil = call[c].now + Grace]
    BY <1>3 DEF RotateCAS, Compares, Active
  <2>2. row'.status = row.status /\ row'.gen = row.gen + 1
    BY <1>1, <2>1 DEF Rows
  <2> QED  BY <2>1, <2>2 DEF Family!Rotate
<1>4. ASSUME NEW c \in Calls, RevokeRow(c), row' # row PROVE Family!End
  <2>1. /\ row.status = "active"
        /\ row' = [row EXCEPT !.status = "revoked", !.reason = Reason(c), !.revokedAt = call[c].now]
    BY <1>4 DEF RevokeRow, Active
  <2>2. row'.status = "revoked" /\ row'.gen = row.gen
    BY <1>1, <2>1 DEF Rows
  <2> QED  BY <2>1, <2>2 DEF Family!End
<1>5. ASSUME NEW c \in Calls, Advance(c), row' # row PROVE row'.status = row.status /\ row'.gen = row.gen
  BY <1>1, <1>5 DEF Advance, Rows
<1>6. ASSUME Cleanup PROVE Family!End \/ (row'.status # "active" /\ row.status # "active" /\ row'.gen = row.gen)
  <2>1. row' = [row EXCEPT !.status = "gone"] /\ row.status \in {"active", "revoked"}
    BY <1>6 DEF Cleanup
  <2>2. row'.status = "gone" /\ row'.gen = row.gen
    BY <1>1, <2>1 DEF Rows
  <2> QED  BY <2>1, <2>2 DEF Family!End
<1>7. ASSUME row' # row
      PROVE  Cleanup \/ \E c \in Calls : RotateCAS(c) \/ RevokeRow(c) \/ Advance(c)
  <2>1. ~UNCHANGED vars /\ ~Tick
    BY <1>7 DEF vars, Tick
  <2>2. ASSUME NEW c \in Calls, CallStep(c) PROVE RotateCAS(c) \/ RevokeRow(c) \/ Advance(c)
    BY <1>7, <2>2 DEF CallStep, Arrive, CacheRead, RowRead, DenyWrite, Fill, Filled, Confirm, Check, UserCheck,
       RotateRead, RevokeRead, DenyFence, Tombstone, Bump, shared
  <2> QED  BY <2>1, <2>2 DEF Next
<1> QED  BY <1>2, <1>3, <1>4, <1>5, <1>6, <1>7

(* A login session implements TokenFamily: each refresh token is superseded once, by the next one, *)
(* however many requests race with it, and an ended session never changes again.                   *)
THEOREM ImplementsFamily == Spec => FamilySpec
<1>1. Init => Family!Init
  BY DEF Init, Family!Init
<1>2. IInv /\ [Next]_vars => [Family!Rotate \/ Family!End]_<<row.status = "active", row.gen>>
  BY FamilyStep
<1> QED  BY <1>1, <1>2, SessionInvariant, PTL DEF Spec, FamilySpec, Family!Spec
=============================================================================
