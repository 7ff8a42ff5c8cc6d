----------------------- MODULE BillingSession_proofs -----------------------
(***************************************************************************)
(* Proofs about BillingSession, for any set of requests, any quotas, any   *)
(* initial balances and any number of database errors.                     *)
(***************************************************************************)
EXTENDS BillingSession, TLAPS

(* A session record is determined by its fields. *)
Fields(s) ==
    [pc |-> s.pc, rest |-> s.rest, need |-> s.need, keyRich |-> s.keyRich,
     walletRich |-> s.walletRich, available |-> s.available, limited |-> s.limited,
     trusted |-> s.trusted, pre |-> s.pre, tokenConsumed |-> s.tokenConsumed,
     extraReserved |-> s.extraReserved, consumed |-> s.consumed, arg |-> s.arg,
     fundingSettled |-> s.fundingSettled, settled |-> s.settled, refunded |-> s.refunded,
     failed |-> s.failed, attempts |-> s.attempts, lossy |-> s.lossy]

(* The initial session is a session. *)
LEMMA IdleType == Idle \in Session
BY DEF Idle, Session, PCs, Sources, Pools

(* Every field of s has its type. *)
Typed(s) ==
    /\ s.pc \in PCs /\ s.rest \in Seq(Sources) /\ s.need \in Nat /\ s.attempts \in Nat
    /\ s.keyRich \in BOOLEAN /\ s.walletRich \in BOOLEAN /\ s.limited \in BOOLEAN
    /\ s.trusted \in BOOLEAN /\ s.fundingSettled \in BOOLEAN /\ s.settled \in BOOLEAN
    /\ s.refunded \in BOOLEAN /\ s.failed \in BOOLEAN /\ s.lossy \in BOOLEAN
    /\ s.available \in Int /\ s.pre \in Int /\ s.tokenConsumed \in Int
    /\ s.extraReserved \in Int /\ s.consumed \in Int /\ s.arg \in Int

(* A record with the fields of a session, each of its type, is a session. *)
LEMMA FieldsTyped ==
    ASSUME NEW s, s = Fields(s), Typed(s)
    PROVE  s \in Session
<1>1. Fields(s) \in Session
  BY DEF Session, Fields, Typed
<1> QED BY <1>1

(* The invariant that every step preserves. *)
Inv == TypeOK /\ NeverOverdrawn /\ BooksBalance

(* The part of Inv' that is not about the session records, for a step of r. *)
Kept(r) ==
    /\ bal' \in [Pools -> Int] /\ pkg' \in [Pools -> Nat] /\ key' \in Int /\ subUsed' \in Nat
    /\ paid' \in [Requests -> Int] /\ keyPaid' \in [Requests -> Int]
    /\ NeverOverdrawn'
    /\ \A q \in Requests \ {r} : paid'[q] = paid[q] /\ keyPaid'[q] = keyPaid[q]

(* A step of r preserves the invariant when the new record of r is a        *)
(* session whose books balance: the books of the others did not move.       *)
LEMMA StepPreserves ==
    ASSUME Inv, NEW r \in Requests, NEW t, t = Fields(t), Typed(t),
           sess' = [sess EXCEPT ![r] = t], Fault \/ NoFault, Kept(r),
           Books(r, t, paid'[r], keyPaid'[r])
    PROVE  Inv'
<1>1. t \in Session
  BY FieldsTyped
<1>2. sess' \in [Requests -> Session] /\ sess'[r] = t
  BY <1>1 DEF Inv, TypeOK
<1>3. \A q \in Requests \ {r} : sess'[q] = sess[q]
  BY DEF Inv, TypeOK
<1>4. faults' \in 0..MaxFaults
  BY NumbersAssumption DEF Fault, NoFault, Inv, TypeOK
<1>5. TypeOK'
  BY <1>2, <1>4 DEF Kept, TypeOK
<1>6. BooksBalance'
  <2> SUFFICES ASSUME NEW q \in Requests
               PROVE  Books(q, sess'[q], paid'[q], keyPaid'[q])
    BY DEF BooksBalance
  <2>1. CASE q = r
    BY <1>2, <2>1
  <2>2. CASE q # r
    <3>1. sess'[q] = sess[q] /\ paid'[q] = paid[q] /\ keyPaid'[q] = keyPaid[q]
      BY <1>3, <2>2 DEF Kept
    <3> QED
      BY <3>1 DEF Inv, BooksBalance
  <2> QED
    BY <2>1, <2>2
<1> QED
  BY <1>5, <1>6 DEF Inv, Kept

(* A step that moves no money. *)
LEMMA MoneyUnchanged ==
    ASSUME Inv, NEW r \in Requests, UNCHANGED money
    PROVE  Kept(r) /\ paid'[r] = paid[r] /\ keyPaid'[r] = keyPaid[r]
BY DEF Inv, TypeOK, Kept, money, NeverOverdrawn

(* A step that books d against one of the user's balances. *)
LEMMA PoolTaken ==
    ASSUME Inv, NEW r \in Requests, NEW p \in Pools, NEW d \in Int, TakePool(r, p, d),
           p = "requests" => bal[p] - d >= 0
    PROVE  Kept(r) /\ paid'[r] = paid[r] + d /\ keyPaid'[r] = keyPaid[r]
<1>1. bal' \in [Pools -> Int] /\ paid' \in [Requests -> Int]
  BY DEF Inv, TypeOK, TakePool
<1>2. paid'[r] = paid[r] + d /\ \A q \in Requests \ {r} : paid'[q] = paid[q]
  BY DEF Inv, TypeOK, TakePool
<1>3. NeverOverdrawn'
  BY DEF Inv, TypeOK, TakePool, NeverOverdrawn, Pools
<1> QED
  BY <1>1, <1>2, <1>3 DEF Kept, TakePool, Inv, TypeOK

(* A step that books d against the key. *)
LEMMA KeyTaken ==
    ASSUME Inv, NEW r \in Requests, NEW d \in Int, TakeKey(r, d)
    PROVE  Kept(r) /\ paid'[r] = paid[r] /\ keyPaid'[r] = keyPaid[r] + d
BY DEF Inv, TypeOK, TakeKey, Kept, NeverOverdrawn

(* A step that books d against the subscription. *)
LEMMA SubTaken ==
    ASSUME Inv, NEW r \in Requests, NEW d \in Int, TakeSub(r, d)
    PROVE  Kept(r) /\ paid'[r] = paid[r] + d /\ keyPaid'[r] = keyPaid[r]
BY NumbersAssumption DEF Inv, TypeOK, TakeSub, SubFits, Max0, Kept, NeverOverdrawn

(* The source of a session that is past "idle" is one of the four. *)
LEMMA SourceType ==
    ASSUME Inv, NEW r \in Requests, sess[r].pc \notin {"idle", "rejected"}
    PROVE  /\ sess[r] \in Session
           /\ Source(sess[r]) \in Sources
           /\ Tail(sess[r].rest) \in Seq(Sources)
           /\ Books(r, sess[r], paid[r], keyPaid[r])
<1>1. sess[r] \in Session /\ Books(r, sess[r], paid[r], keyPaid[r])
  BY DEF Inv, TypeOK, BooksBalance
<1>2. sess[r].rest \in Seq(Sources) /\ sess[r].rest # <<>>
  BY <1>1 DEF Session, Books
<1> QED
  BY <1>1, <1>2 DEF Source
-----------------------------------------------------------------------------
(***************************************************************************)
(* One lemma per action.                                                   *)
(***************************************************************************)
(* Trying another source keeps the invariant when the request holds nothing. *)
LEMMA TryPreserves ==
    ASSUME Inv, NEW r \in Requests, NEW s, s.need \in Nat, s.keyRich \in BOOLEAN,
           s.lossy \in BOOLEAN, NEW rest \in Seq(Sources), Try(r, s, rest),
           Fault \/ NoFault, Kept(r), s.lossy \/ (paid'[r] = 0 /\ keyPaid'[r] = 0)
    PROVE  Inv'
<1> PICK t : t = [[Idle EXCEPT !.rest = rest, !.need = s.need, !.keyRich = s.keyRich,
                               !.lossy = s.lossy]
                  EXCEPT !.pc = IF rest = <<>> THEN "rejected" ELSE "probe"]
  OBVIOUS
<1>1. sess' = [sess EXCEPT ![r] = t]
  BY DEF Try, Goto
<1>2. t = Fields(t)
  BY IdleType DEF Session, Fields, Idle
<1>3. Typed(t)
  BY IdleType DEF Session, Typed, PCs, Idle
<1>4. Books(r, t, paid'[r], keyPaid'[r])
  BY DEF Idle, Books, Opening, Reserving, Topping, Refunding, OpeningBooks, ReservingBooks,
         ServingBooks, SettlingBooks, RefundingBooks, EndBooks, Blank
<1> QED
  BY <1>1, <1>2, <1>3, <1>4, StepPreserves

(* PreConsumeBilling: a request starts with an estimate and a priority list. *)
LEMMA BeginPreserves ==
    ASSUME Inv, NEW r \in Requests, Begin(r)
    PROVE  Inv'
<1> PICK need \in Quotas, priority \in BillingPriorities \union {Preferred(pref) : pref \in Preferences} :
        Try(r, [Idle EXCEPT !.need = need, !.keyRich = key > TrustQuota], priority)
  BY DEF Begin
<1> PICK s : s = [Idle EXCEPT !.need = need, !.keyRich = key > TrustQuota]
  OBVIOUS
<1>1. priority \in Seq(Sources)
  <2>1. /\ <<"subscription">> \in Seq(Sources)
        /\ <<"wallet">> \in Seq(Sources)
        /\ <<"wallet", "subscription">> \in Seq(Sources)
        /\ <<"requests", "subscription", "tokens", "wallet">> \in Seq(Sources)
    BY DEF Sources, Pools
  <2>2. \A pref \in Preferences : Preferred(pref) \in Seq(Sources)
    BY <2>1 DEF Preferred
  <2> QED
    BY <2>2, SourcesAssumption
<1>2. s.need \in Nat /\ s.keyRich \in BOOLEAN /\ s.lossy \in BOOLEAN
  BY QuotasAssumption DEF Idle
<1>3. Books(r, sess[r], paid[r], keyPaid[r]) /\ sess[r].pc = "idle" /\ NoFault
  BY DEF Inv, BooksBalance, Begin
<1>4. Kept(r) /\ paid'[r] = paid[r] /\ keyPaid'[r] = keyPaid[r]
  BY MoneyUnchanged DEF Begin
<1>5. s.lossy \/ (paid'[r] = 0 /\ keyPaid'[r] = 0)
  BY <1>3, <1>4 DEF Books, OpeningBooks, Opening, Inv, TypeOK, Session
<1>6. Try(r, s, priority)
  OBVIOUS
<1> QED
  BY <1>1, <1>2, <1>3, <1>4, <1>5, <1>6, TryPreserves

(* tryRequests, tryTokens, trySubscription, tryWallet *)
LEMMA ProbePreserves ==
    ASSUME Inv, NEW r \in Requests, Probe(r)
    PROVE  Inv'
<1> PICK s : s = sess[r]
  OBVIOUS
<1>1. s.pc = "probe" /\ s \in Session /\ Source(s) \in Sources /\ Tail(s.rest) \in Seq(Sources)
      /\ Books(r, s, paid[r], keyPaid[r])
  BY SourceType DEF Probe
<1>2. Kept(r) /\ paid'[r] = paid[r] /\ keyPaid'[r] = keyPaid[r]
  BY MoneyUnchanged DEF Probe
<1>3. s.lossy \/ (paid'[r] = 0 /\ keyPaid'[r] = 0)
  BY <1>1, <1>2 DEF Books, OpeningBooks, Opening
<1>4. CASE NextSource(r, s) /\ (Fault \/ NoFault)
  <2>1. s.need \in Nat /\ s.keyRich \in BOOLEAN /\ s.lossy \in BOOLEAN
    BY <1>1 DEF Session
  <2> QED
    BY <1>1, <1>2, <1>3, <1>4, <2>1, TryPreserves DEF NextSource
<1>5. CASE Goto(r, s, "trust") /\ NoFault
  <2> PICK t : t = [s EXCEPT !.pc = "trust"]
    OBVIOUS
  <2>1. sess' = [sess EXCEPT ![r] = t] /\ (Fault \/ NoFault)
    BY <1>5 DEF Goto
  <2>2. t = Fields(t)
    BY <1>1 DEF Session, Fields
  <2>3. Typed(t)
    BY <1>1, SMTT(60) DEF Session, Typed, PCs
  <2>4. Books(r, t, paid'[r], keyPaid'[r])
    BY <1>1, <1>2 DEF Session, Books, Opening, Reserving, Topping, Refunding, OpeningBooks, ReservingBooks,
         ServingBooks, SettlingBooks, RefundingBooks, EndBooks, Blank
  <2> QED
    BY <1>2, <2>1, <2>2, <2>3, <2>4, StepPreserves
<1>6. ASSUME NEW p \in Pools, NoFault,
             Goto(r, [s EXCEPT !.available = UserBalancePackageAvailable(p),
                               !.limited = Restricted(p),
                               !.walletRich = p = "wallet" /\ bal["wallet"] > TrustQuota], "trust")
      PROVE  Inv'
  <2>1. UserBalancePackageAvailable(p) \in Int /\ Restricted(p) \in BOOLEAN
    BY PoolsAssumption DEF UserBalancePackageAvailable, Restricted, Max0, Inv, TypeOK
  <2> PICK a \in Int, l \in BOOLEAN, w \in BOOLEAN :
        Goto(r, [s EXCEPT !.available = a, !.limited = l, !.walletRich = w], "trust")
    BY <1>6, <2>1
  <2> PICK t : t = [[s EXCEPT !.available = a, !.limited = l, !.walletRich = w] EXCEPT !.pc = "trust"]
    OBVIOUS
  <2>2. sess' = [sess EXCEPT ![r] = t] /\ (Fault \/ NoFault)
    BY <1>6 DEF Goto
  <2>3. t = Fields(t)
    BY <1>1 DEF Session, Fields
  <2>4. Typed(t)
    BY <1>1, SMTT(60) DEF Session, Typed, PCs
  <2>5. Books(r, t, paid'[r], keyPaid'[r])
    BY <1>1, <1>2 DEF Session, Books, Opening, Reserving, Topping, Refunding, OpeningBooks, ReservingBooks,
         ServingBooks, SettlingBooks, RefundingBooks, EndBooks, Blank
  <2> QED
    BY <1>2, <2>2, <2>3, <2>4, <2>5, StepPreserves
<1> QED
  BY <1>1, <1>4, <1>5, <1>6 DEF Probe, Sources

(* checkTrust settles whether the session is trusted; a subscription is not. *)
LEMMA checkTrustPreserves ==
    ASSUME Inv, NEW r \in Requests, checkTrust(r)
    PROVE  Inv'
<1> PICK s : s = sess[r]
  OBVIOUS
<1>1. s.pc = "trust" /\ s \in Session /\ Source(s) \in Sources /\ Books(r, s, paid[r], keyPaid[r])
  BY SourceType DEF checkTrust
<1>2. Kept(r) /\ paid'[r] = paid[r] /\ keyPaid'[r] = keyPaid[r]
  BY MoneyUnchanged DEF checkTrust
<1>3. /\ shouldTrust(r) \in BOOLEAN
      /\ Source(s) = "subscription" => ~shouldTrust(r)
  BY DEF shouldTrust
<1>4. PICK b \in BOOLEAN : /\ Source(s) = "subscription" => ~b
                           /\ Goto(r, [s EXCEPT !.trusted = b], "token") /\ (Fault \/ NoFault)
  BY <1>3 DEF checkTrust
<1> PICK t : t = [[s EXCEPT !.trusted = b] EXCEPT !.pc = "token"]
  OBVIOUS
<1>5. sess' = [sess EXCEPT ![r] = t]
  BY <1>4 DEF Goto
<1>6. t = Fields(t)
  BY <1>1 DEF Session, Fields
<1>7. Typed(t)
  BY <1>1, SMTT(60) DEF Session, Typed, PCs
<1>8. Source(t) = Source(s)
  BY <1>1 DEF Source, Session
<1>9. Books(r, t, paid'[r], keyPaid'[r])
  BY <1>1, <1>2, <1>4, <1>8 DEF Session, Books, Opening, Reserving, Topping, Refunding, OpeningBooks,
     ReservingBooks, ServingBooks, SettlingBooks, RefundingBooks, EndBooks, Blank
<1> QED
  BY <1>2, <1>4, <1>5, <1>6, <1>7, <1>9, StepPreserves

(* preConsume, the key. *)
LEMMA preConsumeTokenPreserves ==
    ASSUME Inv, NEW r \in Requests, preConsumeToken(r)
    PROVE  Inv'
<1> PICK s : s = sess[r]
  OBVIOUS
<1> PICK q : q = effectiveQuota(s)
  OBVIOUS
<1>1. /\ s \in Session /\ s.pc = "token"
      /\ Source(s) \in Sources /\ Tail(s.rest) \in Seq(Sources)
      /\ Books(r, s, paid[r], keyPaid[r])
  BY SourceType DEF preConsumeToken
<1>2. q \in Nat
  BY <1>1 DEF effectiveQuota, Asked, Session
<1>3. /\ s.lossy \/ (paid[r] = 0 /\ keyPaid[r] = 0 /\ s.tokenConsumed = 0)
      /\ s.lossy \/ (Source(s) = "subscription" => ~s.trusted)
      /\ s.need \in Nat /\ s.keyRich \in BOOLEAN /\ s.lossy \in BOOLEAN
      /\ paid[r] \in Int /\ keyPaid[r] \in Int
  BY <1>1 DEF Books, OpeningBooks, Opening, Session, Inv, TypeOK
<1>4. CASE NextSource(r, s) /\ (Fault \/ NoFault) /\ UNCHANGED money
  BY <1>1, <1>3, <1>4, MoneyUnchanged, TryPreserves DEF NextSource
<1>5. CASE q <= 0 /\ Goto(r, s, "fund") /\ NoFault /\ UNCHANGED money
  <2> PICK t : t = [s EXCEPT !.pc = "fund"]
    OBVIOUS
  <2>1. sess' = [sess EXCEPT ![r] = t] /\ (Fault \/ NoFault)
    BY <1>5 DEF Goto
  <2>2. t = Fields(t)
    BY <1>1 DEF Session, Fields
  <2>3. Typed(t)
    BY <1>1, SMTT(60) DEF Session, Typed, PCs
  <2>4. Kept(r) /\ paid'[r] = paid[r] /\ keyPaid'[r] = keyPaid[r]
    BY <1>5, MoneyUnchanged
  <2>5. effectiveQuota(t) = q /\ q = 0 /\ Source(t) = Source(s)
    BY <1>1, <1>2, <1>5 DEF effectiveQuota, Asked, Source, Session
  <2>6. Books(r, t, paid'[r], keyPaid'[r])
    BY <1>1, <1>3, <2>4, <2>5 DEF Session, Share, Books, Opening, Reserving, Topping, Refunding,
           OpeningBooks, ReservingBooks, ServingBooks, SettlingBooks, RefundingBooks, EndBooks, Blank
  <2> QED
    BY <2>1, <2>2, <2>3, <2>4, <2>6, StepPreserves
<1>6. CASE /\ q > 0 /\ Goto(r, [s EXCEPT !.tokenConsumed = q], "fund") /\ NoFault
           /\ \/ r \in Playground /\ UNCHANGED money
              \/ r \notin Playground /\ TakeKey(r, q)
  <2> PICK t : t = [[s EXCEPT !.tokenConsumed = q] EXCEPT !.pc = "fund"]
    OBVIOUS
  <2>1. sess' = [sess EXCEPT ![r] = t] /\ (Fault \/ NoFault)
    BY <1>6 DEF Goto
  <2>2. t = Fields(t)
    BY <1>1 DEF Session, Fields
  <2>3. Typed(t)
    <3>1. q \in Int
      BY <1>2
    <3> QED
      BY <1>1, <3>1, SMTT(30) DEF Session, Typed, PCs
  <2>4. Kept(r) /\ paid'[r] = paid[r] /\ keyPaid'[r] = keyPaid[r] + Share(r, q)
    BY <1>2, <1>3, <1>6, MoneyUnchanged, KeyTaken DEF Share
  <2>5. effectiveQuota(t) = q /\ Source(t) = Source(s)
    BY <1>1, <1>2, <1>6 DEF effectiveQuota, Asked, Source, Session
  <2>6. Books(r, t, paid'[r], keyPaid'[r])
    BY <1>1, <1>2, <1>3, <2>4, <2>5 DEF Session, Share, Books, Opening, Reserving, Topping, Refunding,
           OpeningBooks, ReservingBooks, ServingBooks, SettlingBooks, RefundingBooks, EndBooks, Blank
  <2> QED
    BY <2>1, <2>2, <2>3, <2>4, <2>6, StepPreserves
<1> QED
  BY <1>2, <1>4, <1>5, <1>6 DEF preConsumeToken

(* funding.PreConsume returned an error: roll the key back or go on. *)
LEMMA FundingFailedPreserves ==
    ASSUME Inv, NEW r \in Requests, sess[r].pc \in {"fund", "readCurr", "fundCurr"},
           FundingFailed(r, sess[r]), Fault \/ NoFault, UNCHANGED money
    PROVE  Inv'
<1> PICK s : s = sess[r]
  OBVIOUS
<1>1. /\ s.pc \in {"fund", "readCurr", "fundCurr"} /\ s \in Session /\ Source(s) \in Sources
      /\ Tail(s.rest) \in Seq(Sources) /\ Books(r, s, paid[r], keyPaid[r])
  BY SourceType
<1>2. Kept(r) /\ paid'[r] = paid[r] /\ keyPaid'[r] = keyPaid[r]
  BY MoneyUnchanged
<1>3. effectiveQuota(s) \in Nat
  BY <1>1 DEF effectiveQuota, Asked, Session
<1>4. CASE s.tokenConsumed > 0 /\ r \notin Playground
  <2> PICK t : t = [s EXCEPT !.pc = "rollback"]
    OBVIOUS
  <2>1. sess' = [sess EXCEPT ![r] = t]
    BY <1>4 DEF FundingFailed, Goto
  <2>2. t = Fields(t)
    BY <1>1 DEF Session, Fields
  <2>3. Typed(t)
    BY <1>1, SMTT(60) DEF Session, Typed, PCs
  <2>4. effectiveQuota(t) = effectiveQuota(s) /\ Source(t) = Source(s)
    BY <1>1 DEF effectiveQuota, Asked, Source, Session
  <2>5. Books(r, t, paid'[r], keyPaid'[r])
    BY <1>1, <1>2, <1>4, <2>4 DEF Session, Books, Opening, Reserving, Topping, Refunding, OpeningBooks,
           ReservingBooks, ServingBooks, SettlingBooks, RefundingBooks, EndBooks, Blank
  <2> QED
    BY <1>2, <2>1, <2>2, <2>3, <2>5, StepPreserves
<1>5. CASE ~(s.tokenConsumed > 0 /\ r \notin Playground)
  <2>1. s.lossy \/ (paid'[r] = 0 /\ keyPaid'[r] = 0)
    BY <1>1, <1>2, <1>3, <1>5 DEF Books, ReservingBooks, Reserving, Share
  <2>2. s.need \in Nat /\ s.keyRich \in BOOLEAN /\ s.lossy \in BOOLEAN
    BY <1>1 DEF Session
  <2> QED
    BY <1>1, <1>2, <1>5, <2>1, <2>2, TryPreserves DEF FundingFailed, NextSource
<1> QED
  BY <1>4, <1>5

(* funding.PreConsume took n: the session is open. *)
LEMMA FundingTakenPreserves ==
    ASSUME Inv, NEW r \in Requests, sess[r].pc \in {"fund", "fundCurr"}, NEW n \in Nat,
           Source(sess[r]) = "wallet" => n = effectiveQuota(sess[r]),
           Source(sess[r]) = "subscription" => n = Asked(sess[r]),
           Source(sess[r]) = "requests" => n = 1,
           FundingTaken(r, sess[r], n), NoFault, Kept(r),
           paid'[r] = paid[r] + n, keyPaid'[r] = keyPaid[r]
    PROVE  Inv'
<1> PICK s : s = sess[r]
  OBVIOUS
<1>1. /\ s.pc \in {"fund", "fundCurr"} /\ s \in Session /\ Source(s) \in Sources
      /\ Books(r, s, paid[r], keyPaid[r]) /\ paid[r] \in Int /\ keyPaid[r] \in Int
  BY SourceType DEF Inv, TypeOK
<1> PICK q : q = effectiveQuota(s)
  OBVIOUS
<1>2. q \in Nat /\ (Source(s) = "subscription" /\ ~s.trusted => q = n /\ n >= 1)
  BY <1>1 DEF effectiveQuota, Asked, Session
<1> PICK t : t = [[s EXCEPT !.consumed = n, !.pre = q, !.arg = 0] EXCEPT !.pc = "serve"]
  OBVIOUS
<1>3. sess' = [sess EXCEPT ![r] = t]
  BY DEF FundingTaken, Goto
<1>4. t = Fields(t)
  BY <1>1 DEF Session, Fields
<1>5. Typed(t)
  <2>1. q \in Int /\ n \in Int
    BY <1>2
  <2> QED
    BY <1>1, <2>1, SMTT(30) DEF Session, Typed, PCs
<1>6. Source(t) = Source(s) /\ t.rest # <<>>
  BY <1>1 DEF Source, Session, Books
<1>7. Books(r, t, paid'[r], keyPaid'[r])
  <2>1. CASE s.lossy
    BY <1>1, <1>6, <2>1 DEF Session, Books
  <2>2. CASE ~s.lossy
    <3>1. /\ paid[r] = 0 /\ keyPaid[r] = Share(r, q) /\ s.tokenConsumed = q
          /\ (Source(s) = "subscription" => ~s.trusted) /\ Blank(s)
      BY <1>1, <2>2 DEF Books, ReservingBooks, Reserving
    <3>2. /\ t.pc = "serve" /\ t.pre = q /\ t.consumed = n /\ t.extraReserved = 0 /\ t.tokenConsumed = q
          /\ ~t.fundingSettled /\ ~t.settled /\ ~t.refunded /\ ~t.failed
      BY <1>1, <3>1 DEF Session, Blank
    <3>3. Balanced(t) /\ Held(t) = n
      BY <1>1, <1>2, <1>6, <3>1, <3>2 DEF Balanced, Held, Topping
    <3> QED
      BY <1>1, <1>2, <1>6, <3>1, <3>2, <3>3 DEF Books, Opening, Reserving, Topping, Refunding, OpeningBooks,
           ReservingBooks, ServingBooks, SettlingBooks, RefundingBooks, EndBooks
  <2> QED
    BY <2>1, <2>2
<1> QED
  BY <1>3, <1>4, <1>5, <1>7, StepPreserves

(* preConsume, the funding source. *)
LEMMA preConsumeFundingPreserves ==
    ASSUME Inv, NEW r \in Requests, preConsumeFunding(r)
    PROVE  Inv'
<1> PICK s : s = sess[r]
  OBVIOUS
<1>1. s.pc = "fund" /\ s \in Session /\ Source(s) \in Sources /\ Books(r, s, paid[r], keyPaid[r])
  BY SourceType DEF preConsumeFunding
<1>2. effectiveQuota(s) \in Nat /\ Asked(s) \in Nat
  BY <1>1 DEF effectiveQuota, Asked, Session
<1> PICK n : n = Wanted(s)
  OBVIOUS
<1>3. /\ n \in Nat
      /\ Source(s) = "wallet" => n = effectiveQuota(s)
      /\ Source(s) = "subscription" => n = Asked(s)
      /\ Source(s) = "requests" => n = 1
  BY <1>1, <1>2, NumbersAssumption DEF Wanted, Max0, Sources, Pools
<1>4. CASE SourceCovers(s) /\ NoFault /\ Source(s) = "subscription" /\ TakeSub(r, n) /\ FundingTaken(r, s, n)
  <2>1. Kept(r) /\ paid'[r] = paid[r] + n /\ keyPaid'[r] = keyPaid[r]
    BY <1>3, <1>4, SubTaken
  <2> QED
    BY <1>1, <1>3, <1>4, <2>1, FundingTakenPreserves
<1>5. CASE /\ SourceCovers(s) /\ NoFault /\ Source(s) # "subscription" /\ TakePool(r, Source(s), n)
           /\ FundingTaken(r, s, n)
  <2>1. Source(s) \in Pools /\ (Source(s) = "requests" => bal[Source(s)] - n >= 0)
    BY <1>1, <1>3, <1>5 DEF SourceCovers, Sources, Inv, TypeOK, Pools
  <2>2. Kept(r) /\ paid'[r] = paid[r] + n /\ keyPaid'[r] = keyPaid[r]
    BY <1>3, <1>5, <2>1, PoolTaken
  <2> QED
    BY <1>1, <1>3, <1>5, <2>2, FundingTakenPreserves
<1>6. CASE FundingFailed(r, s) /\ (Fault \/ NoFault) /\ UNCHANGED money
  BY <1>1, <1>6, FundingFailedPreserves
<1>7. CASE Source(s) = "tokens" /\ Goto(r, s, "readCurr") /\ NoFault /\ UNCHANGED money
  <2> PICK t : t = [s EXCEPT !.pc = "readCurr"]
    OBVIOUS
  <2>1. sess' = [sess EXCEPT ![r] = t] /\ (Fault \/ NoFault)
    BY <1>7 DEF Goto
  <2>2. t = Fields(t)
    BY <1>1 DEF Session, Fields
  <2>3. Typed(t)
    BY <1>1, SMTT(60) DEF Session, Typed, PCs
  <2>4. Kept(r) /\ paid'[r] = paid[r] /\ keyPaid'[r] = keyPaid[r]
    BY <1>7, MoneyUnchanged
  <2>5. effectiveQuota(t) = effectiveQuota(s) /\ Source(t) = Source(s)
    BY <1>1 DEF effectiveQuota, Asked, Source, Session
  <2>6. Books(r, t, paid'[r], keyPaid'[r])
    BY <1>1, <1>7, <2>4, <2>5 DEF Session, Books, Opening, Reserving, Topping, Refunding, OpeningBooks,
           ReservingBooks, ServingBooks, SettlingBooks, RefundingBooks, EndBooks, Blank
  <2> QED
    BY <2>1, <2>2, <2>3, <2>4, <2>6, StepPreserves
<1> QED
  BY <1>4, <1>5, <1>6, <1>7 DEF preConsumeFunding
(* TokensFunding.PreConsume reads what is left ... *)
LEMMA readCurrPreserves ==
    ASSUME Inv, NEW r \in Requests, readCurr(r)
    PROVE  Inv'
<1> PICK s : s = sess[r]
  OBVIOUS
<1>1. s.pc = "readCurr" /\ s \in Session /\ Source(s) \in Sources /\ Books(r, s, paid[r], keyPaid[r])
  BY SourceType DEF readCurr
<1>2. CASE FundingFailed(r, s) /\ (Fault \/ NoFault) /\ UNCHANGED money
  BY <1>1, <1>2, FundingFailedPreserves
<1>3. CASE NoFault /\ bal["tokens"] > 0 /\ UNCHANGED money
           /\ Goto(r, [s EXCEPT !.arg = bal["tokens"]], "fundCurr")
  <2> PICK n : n = bal["tokens"]
    OBVIOUS
  <2>1. n \in Int /\ n > 0
    BY <1>3 DEF Inv, TypeOK, Pools
  <2> PICK t : t = [[s EXCEPT !.arg = n] EXCEPT !.pc = "fundCurr"]
    OBVIOUS
  <2>2. sess' = [sess EXCEPT ![r] = t] /\ (Fault \/ NoFault)
    BY <1>3 DEF Goto
  <2>3. t = Fields(t)
    BY <1>1 DEF Session, Fields
  <2>4. Typed(t)
    BY <1>1, <2>1 DEF Session, Typed, PCs
  <2>5. Kept(r) /\ paid'[r] = paid[r] /\ keyPaid'[r] = keyPaid[r]
    BY <1>3, MoneyUnchanged
  <2>6. effectiveQuota(t) = effectiveQuota(s) /\ Source(t) = Source(s)
    BY <1>1 DEF effectiveQuota, Asked, Source, Session
  <2>7. Books(r, t, paid'[r], keyPaid'[r])
    BY <1>1, <2>1, <2>5, <2>6 DEF Session, Books, Opening, Reserving, Topping, Refunding, OpeningBooks,
           ReservingBooks, ServingBooks, SettlingBooks, RefundingBooks, EndBooks, Blank
  <2> QED
    BY <2>2, <2>3, <2>4, <2>5, <2>7, StepPreserves
<1> QED
  BY <1>2, <1>3 DEF readCurr

(* ... and takes it, if it is still there. *)
LEMMA fundCurrPreserves ==
    ASSUME Inv, NEW r \in Requests, fundCurr(r)
    PROVE  Inv'
<1> PICK s : s = sess[r]
  OBVIOUS
<1>1. s.pc = "fundCurr" /\ s \in Session /\ Source(s) \in Sources /\ Books(r, s, paid[r], keyPaid[r])
  BY SourceType DEF fundCurr
<1>2. CASE FundingFailed(r, s) /\ (Fault \/ NoFault) /\ UNCHANGED money
  BY <1>1, <1>2, FundingFailedPreserves
<1>3. CASE NoFault /\ TakePool(r, "tokens", s.arg) /\ FundingTaken(r, s, s.arg)
  <2>1. s.arg \in Int /\ "tokens" \in Pools
    BY <1>1 DEF Session, Pools
  <2>2. Kept(r) /\ paid'[r] = paid[r] + s.arg /\ keyPaid'[r] = keyPaid[r]
    BY <1>3, <2>1, PoolTaken
  <2>3. CASE ~s.lossy
    <3>1. s.arg \in Nat /\ Source(s) = "tokens"
      BY <1>1, <2>1, <2>3 DEF Books, ReservingBooks, Reserving
    <3> QED
      BY <1>1, <1>3, <2>2, <3>1, FundingTakenPreserves
  <2>4. CASE s.lossy
    <3> PICK q : q = effectiveQuota(s)
      OBVIOUS
    <3>1. q \in Int
      BY <1>1 DEF effectiveQuota, Asked, Session
    <3> PICK n : n = s.arg
      OBVIOUS
    <3> PICK t : t = [[s EXCEPT !.consumed = n, !.pre = q, !.arg = 0] EXCEPT !.pc = "serve"]
      OBVIOUS
    <3>2. sess' = [sess EXCEPT ![r] = t]
      BY <1>3 DEF FundingTaken, Goto
    <3>3. t = Fields(t)
      BY <1>1 DEF Session, Fields
    <3>4. Typed(t)
      BY <1>1, <2>1, <3>1, SMTT(60) DEF Session, Typed, PCs
    <3>5. Books(r, t, paid'[r], keyPaid'[r])
      BY <1>1, <2>4 DEF Session, Books
    <3> QED
      BY <1>3, <2>2, <3>2, <3>3, <3>4, <3>5, StepPreserves
  <2> QED
    BY <2>3, <2>4
<1> QED
  BY <1>2, <1>3 DEF fundCurr

(* preConsume gives the key back after a refused source. *)
LEMMA rollbackTokenPreserves ==
    ASSUME Inv, NEW r \in Requests, rollbackToken(r)
    PROVE  Inv'
<1> PICK s : s = sess[r]
  OBVIOUS
<1>1. /\ s.pc = "rollback" /\ s \in Session /\ Source(s) \in Sources
      /\ Tail(s.rest) \in Seq(Sources) /\ Books(r, s, paid[r], keyPaid[r])
  BY SourceType DEF rollbackToken
<1>2. s.need \in Nat /\ s.keyRich \in BOOLEAN /\ s.lossy \in BOOLEAN /\ s.tokenConsumed \in Int
  BY <1>1 DEF Session
<1>3. CASE NoFault /\ TakeKey(r, -s.tokenConsumed) /\ NextSource(r, s)
  <2>1. Kept(r) /\ paid'[r] = paid[r] /\ keyPaid'[r] = keyPaid[r] + (-s.tokenConsumed)
    BY <1>2, <1>3, KeyTaken
  <2>2. s.lossy \/ (paid'[r] = 0 /\ keyPaid'[r] = 0)
    BY <1>1, <1>2, <2>1 DEF Books, ReservingBooks, Reserving, Share
  <2> QED
    BY <1>1, <1>2, <1>3, <2>1, <2>2, TryPreserves DEF NextSource
<1>4. CASE Fault /\ UNCHANGED money /\ NextSource(r, [s EXCEPT !.lossy = TRUE])
  <2> PICK u : u = [s EXCEPT !.lossy = TRUE]
    OBVIOUS
  <2>1. /\ u.need \in Nat /\ u.keyRich \in BOOLEAN /\ u.lossy \in BOOLEAN /\ u.lossy
        /\ u.rest = s.rest
    BY <1>1 DEF Session
  <2>2. Kept(r)
    BY <1>4, MoneyUnchanged
  <2> QED
    BY <1>1, <1>4, <2>1, <2>2, TryPreserves DEF NextSource
<1> QED
  BY <1>3, <1>4 DEF rollbackToken
(* The unconditional adjustment of the session's source. *)
LEMMA SourceTaken ==
    ASSUME Inv, NEW r \in Requests, NEW d \in Int, TakeSource(r, d), Source(sess[r]) \in Sources
    PROVE  /\ Kept(r) /\ keyPaid'[r] = keyPaid[r]
           /\ Source(sess[r]) = "requests" => paid'[r] = paid[r]
           /\ Source(sess[r]) # "requests" => paid'[r] = paid[r] + d
<1>1. CASE Source(sess[r]) = "requests"
  BY <1>1, MoneyUnchanged DEF TakeSource
<1>2. CASE Source(sess[r]) = "subscription"
  BY <1>2, SubTaken DEF TakeSource
<1>3. CASE Source(sess[r]) \notin {"requests", "subscription"}
  <2>1. Source(sess[r]) \in Pools /\ TakePool(r, Source(sess[r]), d)
    BY <1>3 DEF TakeSource, Sources
  <2> QED
    BY <1>3, <2>1, PoolTaken
<1> QED
  BY <1>1, <1>2, <1>3

(* AddConsumed changes the amount held by the source, and nothing else. *)
LEMMA AddConsumedFields ==
    ASSUME NEW s \in Session, NEW d \in Int
    PROVE  \E c \in Int :
              /\ AddConsumed(s, d) = [s EXCEPT !.consumed = c]
              /\ c = IF Source(s) \in {"wallet", "tokens"} THEN s.consumed + d ELSE s.consumed
<1> PICK c : c = IF Source(s) \in {"wallet", "tokens"} THEN s.consumed + d ELSE s.consumed
  OBVIOUS
<1>1. c \in Int
  BY DEF Session
<1>2. AddConsumed(s, d) = [s EXCEPT !.consumed = c]
  BY DEF AddConsumed, Session
<1> QED
  BY <1>1, <1>2

(* Reserve: the source part of a top-up. *)
LEMMA ReservePreserves ==
    ASSUME Inv, NEW r \in Requests, Reserve(r)
    PROVE  Inv'
<1> PICK s : s = sess[r]
  OBVIOUS
<1>1. /\ s.pc = "serve" /\ s \in Session /\ Source(s) \in Sources /\ Books(r, s, paid[r], keyPaid[r])
      /\ paid[r] \in Int /\ keyPaid[r] \in Int
  BY SourceType DEF Reserve, Inv, TypeOK
<1>2. CASE UNCHANGED <<money, sess>> /\ (Fault \/ NoFault)
  <2> PICK t : t = s
    OBVIOUS
  <2>1. sess' = [sess EXCEPT ![r] = t] /\ t = Fields(t) /\ Typed(t)
    BY <1>1, <1>2 DEF Session, Fields, Typed, Inv, TypeOK
  <2>2. Kept(r) /\ paid'[r] = paid[r] /\ keyPaid'[r] = keyPaid[r]
    BY <1>2, MoneyUnchanged
  <2> QED
    BY <1>1, <1>2, <2>1, <2>2, StepPreserves
<1>3. ASSUME NEW d \in Int, d > 0, NoFault, TakeSource(r, d),
             Goto(r, [AddConsumed(s, d) EXCEPT !.arg = d], "reserveToken")
      PROVE  Inv'
  <2> PICK c \in Int :
        /\ AddConsumed(s, d) = [s EXCEPT !.consumed = c]
        /\ c = IF Source(s) \in {"wallet", "tokens"} THEN s.consumed + d ELSE s.consumed
    BY <1>1, AddConsumedFields
  <2> PICK t : t = [[[s EXCEPT !.consumed = c] EXCEPT !.arg = d] EXCEPT !.pc = "reserveToken"]
    OBVIOUS
  <2>1. sess' = [sess EXCEPT ![r] = t]
    BY <1>3 DEF Goto
  <2>2. t = Fields(t)
    BY <1>1 DEF Session, Fields
  <2>3. Typed(t)
    BY <1>1, SMTT(60) DEF Session, Typed, PCs
  <2>4. /\ Kept(r) /\ keyPaid'[r] = keyPaid[r]
        /\ Source(s) = "requests" => paid'[r] = paid[r]
        /\ Source(s) # "requests" => paid'[r] = paid[r] + d
    BY <1>1, <1>3, SourceTaken
  <2>5. Source(t) = Source(s) /\ t.rest # <<>>
    BY <1>1 DEF Source, Session, Books
  <2>6. Books(r, t, paid'[r], keyPaid'[r])
    <3>1. CASE s.lossy
      BY <1>1, <2>5, <3>1 DEF Session, Books
    <3>2. CASE ~s.lossy
      <4>1. /\ paid[r] = Held(s) /\ keyPaid[r] = Share(r, s.pre) /\ Balanced(s)
            /\ ~s.fundingSettled /\ ~s.settled /\ ~s.refunded /\ ~s.failed
        BY <1>1, <3>2 DEF Books, ServingBooks, Topping
      <4>2. /\ t.pc = "reserveToken" /\ t.pre = s.pre /\ t.consumed = c /\ t.arg = d
            /\ t.extraReserved = s.extraReserved /\ t.tokenConsumed = s.tokenConsumed
            /\ ~t.fundingSettled /\ ~t.settled /\ ~t.refunded /\ ~t.failed
        BY <1>1, <4>1 DEF Session
      <4>3. Balanced(t)
        BY <1>1, <1>3, <2>5, <4>1, <4>2, SMTT(60) DEF Balanced, Topping, Session
      <4>4. paid'[r] = IF Source(t) = "subscription" THEN Held(t) + t.arg ELSE Held(t)
        <5>1. /\ s.consumed \in Int /\ s.extraReserved \in Int /\ d \in Int
              /\ Source(s) \in {"wallet", "tokens"} => c = s.consumed + d
              /\ Source(s) \notin {"wallet", "tokens"} => c = s.consumed
              /\ Source(s) \in {"wallet", "requests", "tokens", "subscription"}
          BY <1>1 DEF Session, Sources, Pools
        <5> QED
          BY ONLY <2>4, <2>5, <4>1, <4>2, <5>1 DEF Held
      <4>5. Source(t) = "tokens" => t.consumed >= t.arg
        BY <1>1, <2>5, <4>1, <4>2 DEF Balanced, Session
      <4> QED
        BY <1>3, <2>4, <2>5, <4>1, <4>2, <4>3, <4>4, <4>5 DEF Books, Opening, Reserving, Topping, Refunding,
             OpeningBooks, ReservingBooks, ServingBooks, SettlingBooks, RefundingBooks, EndBooks
    <3> QED
      BY <3>1, <3>2
  <2> QED
    BY <1>3, <2>1, <2>2, <2>3, <2>4, <2>6, StepPreserves
<1>4. \A target \in Quotas : target - s.pre \in Int
  BY <1>1, QuotasAssumption DEF Session
<1> QED
  BY <1>2, <1>3, <1>4 DEF Reserve

(* reserveToken: the key part of a top-up. *)
LEMMA reserveTokenPreserves ==
    ASSUME Inv, NEW r \in Requests, reserveToken(r)
    PROVE  Inv'
<1> PICK s : s = sess[r]
  OBVIOUS
<1>1. /\ s.pc = "reserveToken" /\ s \in Session /\ Source(s) \in Sources
      /\ Books(r, s, paid[r], keyPaid[r]) /\ paid[r] \in Int /\ keyPaid[r] \in Int /\ s.arg \in Int
  BY SourceType DEF reserveToken, Inv, TypeOK, Session
<1>2. CASE /\ Goto(r, [s EXCEPT !.pre = @ + s.arg, !.tokenConsumed = @ + s.arg,
                                !.extraReserved = @ + s.arg, !.arg = 0], "serve")
           /\ NoFault
           /\ \/ r \in Playground /\ UNCHANGED money
              \/ r \notin Playground /\ TakeKey(r, s.arg)
  <2> PICK a, b, c : a = s.pre + s.arg /\ b = s.tokenConsumed + s.arg /\ c = s.extraReserved + s.arg
    OBVIOUS
  <2> PICK t : t = [[s EXCEPT !.pre = a, !.tokenConsumed = b, !.extraReserved = c, !.arg = 0]
                      EXCEPT !.pc = "serve"]
    OBVIOUS
  <2>1. sess' = [sess EXCEPT ![r] = t]
    BY <1>1, <1>2 DEF Goto, Session
  <2>2. t = Fields(t)
    BY <1>1 DEF Session, Fields
  <2>3. Typed(t)
    <3>1. a \in Int /\ b \in Int /\ c \in Int
      BY <1>1, SMTT(60) DEF Session
    <3>2. s \in Session /\ t = [[s EXCEPT !.pre = a, !.tokenConsumed = b, !.extraReserved = c, !.arg = 0]
                                 EXCEPT !.pc = "serve"]
      BY <1>1
    <3> QED
      BY ONLY <3>1, <3>2, SMTT(60) DEF Session, Typed, PCs
  <2>4. Kept(r) /\ paid'[r] = paid[r] /\ keyPaid'[r] = keyPaid[r] + Share(r, s.arg)
    BY <1>1, <1>2, MoneyUnchanged, KeyTaken DEF Share
  <2>5. Source(t) = Source(s) /\ t.rest # <<>>
    BY <1>1 DEF Source, Session, Books
  <2>6. Books(r, t, paid'[r], keyPaid'[r])
    <3>1. CASE s.lossy
      BY <1>1, <2>5, <3>1 DEF Session, Books
    <3>2. CASE ~s.lossy
      <4>1. /\ paid[r] = IF Source(s) = "subscription" THEN Held(s) + s.arg ELSE Held(s)
            /\ keyPaid[r] = Share(r, s.pre) /\ Balanced(s) /\ s.arg > 0
            /\ Source(s) = "tokens" => s.consumed >= s.arg
            /\ ~s.fundingSettled /\ ~s.settled /\ ~s.refunded /\ ~s.failed
        BY <1>1, <3>2 DEF Books, ServingBooks, Topping
      <4>2. /\ t.pc = "serve" /\ t.pre = a /\ t.consumed = s.consumed
            /\ t.extraReserved = c /\ t.tokenConsumed = b
            /\ ~t.fundingSettled /\ ~t.settled /\ ~t.refunded /\ ~t.failed
        BY <1>1, <4>1 DEF Session
      <4>3. Balanced(t)
        BY <1>1, <2>5, <4>1, <4>2, SMTT(60) DEF Balanced, Topping, Session
      <4>4. paid'[r] = Held(t) /\ keyPaid'[r] = Share(r, t.pre)
        BY <1>1, <2>4, <2>5, <4>1, <4>2 DEF Held, Session, Share
      <4> QED
        BY <2>5, <4>2, <4>3, <4>4 DEF Books, Opening, Reserving, Topping, Refunding,
             OpeningBooks, ReservingBooks, ServingBooks, SettlingBooks, RefundingBooks, EndBooks
    <3> QED
      BY <3>1, <3>2
  <2> QED
    BY <1>2, <2>1, <2>2, <2>3, <2>4, <2>6, StepPreserves
<1>3. CASE Goto(r, s, "rollbackReserve") /\ UNCHANGED money /\ (Fault \/ NoFault)
  <2> PICK t : t = [s EXCEPT !.pc = "rollbackReserve"]
    OBVIOUS
  <2>1. sess' = [sess EXCEPT ![r] = t]
    BY <1>3 DEF Goto
  <2>2. t = Fields(t)
    BY <1>1 DEF Session, Fields
  <2>3. Typed(t)
    BY <1>1, SMTT(60) DEF Session, Typed, PCs
  <2>4. Kept(r) /\ paid'[r] = paid[r] /\ keyPaid'[r] = keyPaid[r]
    BY <1>3, MoneyUnchanged
  <2>5. Source(t) = Source(s)
    BY <1>1 DEF Source, Session
  <2>6. Books(r, t, paid'[r], keyPaid'[r])
    BY <1>1, <2>4, <2>5 DEF Session, Books, Opening, Reserving, Topping, Refunding, OpeningBooks,
           ReservingBooks, ServingBooks, SettlingBooks, RefundingBooks, EndBooks, Balanced, Held
  <2> QED
    BY <1>3, <2>1, <2>2, <2>3, <2>4, <2>6, StepPreserves
<1> QED
  BY <1>2, <1>3 DEF reserveToken

(* rollbackFundingReserve: the source part is given back. *)
LEMMA rollbackFundingReservePreserves ==
    ASSUME Inv, NEW r \in Requests, rollbackFundingReserve(r)
    PROVE  Inv'
<1> PICK s : s = sess[r]
  OBVIOUS
<1>1. /\ s.pc = "rollbackReserve" /\ s \in Session /\ Source(s) \in Sources
      /\ Books(r, s, paid[r], keyPaid[r]) /\ paid[r] \in Int /\ keyPaid[r] \in Int /\ s.arg \in Int
  BY SourceType DEF rollbackFundingReserve, Inv, TypeOK, Session
<1>2. CASE Fault /\ UNCHANGED money /\ Goto(r, [s EXCEPT !.lossy = TRUE, !.arg = 0], "serve")
  <2> PICK t : t = [[s EXCEPT !.lossy = TRUE, !.arg = 0] EXCEPT !.pc = "serve"]
    OBVIOUS
  <2>1. sess' = [sess EXCEPT ![r] = t]
    BY <1>2 DEF Goto
  <2>2. t = Fields(t)
    BY <1>1 DEF Session, Fields
  <2>3. Typed(t)
    BY <1>1, SMTT(60) DEF Session, Typed, PCs
  <2>4. Kept(r)
    BY <1>2, MoneyUnchanged
  <2>5. Books(r, t, paid'[r], keyPaid'[r])
    BY <1>1 DEF Session, Books
  <2> QED
    BY <1>2, <2>1, <2>2, <2>3, <2>4, <2>5, StepPreserves
<1>3. CASE NoFault /\ TakeSource(r, -s.arg) /\ Goto(r, [AddConsumed(s, -s.arg) EXCEPT !.arg = 0], "serve")
  <2> PICK d \in Int : d = -s.arg
    BY <1>1
  <2>1. d \in Int
    OBVIOUS
  <2> PICK c \in Int :
        /\ AddConsumed(s, d) = [s EXCEPT !.consumed = c]
        /\ c = IF Source(s) \in {"wallet", "tokens"} THEN s.consumed + d ELSE s.consumed
    <3>1. s \in Session
      BY <1>1
    <3> HIDE DEF Session
    <3> QED
      BY ONLY <2>1, <3>1, AddConsumedFields
  <2> PICK t : t = [[[s EXCEPT !.consumed = c] EXCEPT !.arg = 0] EXCEPT !.pc = "serve"]
    OBVIOUS
  <2>2. sess' = [sess EXCEPT ![r] = t]
    BY <1>3 DEF Goto
  <2>3. t = Fields(t)
    BY <1>1 DEF Session, Fields
  <2>4. Typed(t)
    <3>1. c \in Int /\ s \in Session /\ t = [[[s EXCEPT !.consumed = c] EXCEPT !.arg = 0] EXCEPT !.pc = "serve"]
      BY <1>1
    <3> QED
      BY ONLY <3>1 DEF Session, Typed, PCs
  <2>5. /\ Kept(r) /\ keyPaid'[r] = keyPaid[r]
        /\ Source(s) = "requests" => paid'[r] = paid[r]
        /\ Source(s) # "requests" => paid'[r] = paid[r] + d
    BY <1>1, <1>3, <2>1, SourceTaken
  <2>6. Source(t) = Source(s) /\ t.rest # <<>>
    BY <1>1 DEF Source, Session, Books
  <2>7. Books(r, t, paid'[r], keyPaid'[r])
    <3>1. CASE s.lossy
      BY <1>1, <2>6, <3>1 DEF Session, Books
    <3>2. CASE ~s.lossy
      <4>1. /\ paid[r] = IF Source(s) = "subscription" THEN Held(s) + s.arg ELSE Held(s)
            /\ keyPaid[r] = Share(r, s.pre) /\ Balanced(s) /\ s.arg > 0
            /\ Source(s) = "tokens" => s.consumed >= s.arg
            /\ ~s.fundingSettled /\ ~s.settled /\ ~s.refunded /\ ~s.failed
        BY <1>1, <3>2 DEF Books, ServingBooks, Topping
      <4>2. /\ t.pc = "serve" /\ t.pre = s.pre /\ t.consumed = c
            /\ t.extraReserved = s.extraReserved /\ t.tokenConsumed = s.tokenConsumed
            /\ ~t.fundingSettled /\ ~t.settled /\ ~t.refunded /\ ~t.failed
        BY <1>1, <4>1 DEF Session
      <4>3. /\ s.consumed \in Int /\ s.pre \in Int /\ s.extraReserved \in Int /\ s.tokenConsumed \in Int
            /\ d = -s.arg
            /\ Source(s) \in {"wallet", "tokens"} => c = s.consumed + d
            /\ Source(s) \notin {"wallet", "tokens"} => c = s.consumed
            /\ Source(s) \in {"wallet", "requests", "tokens", "subscription"}
        BY <1>1 DEF Session, Sources, Pools
      <4>4. Balanced(t)
        <5>1. s.pc \in Topping /\ t.pc \notin Topping /\ s.arg \in Int
          BY ONLY <1>1, <4>2 DEF Topping
        <5>2. c >= 0
          BY ONLY <4>1, <4>3, <5>1 DEF Balanced
        <5>3. Source(t) = "wallet" => t.consumed = t.pre
          BY ONLY <2>6, <4>1, <4>2, <4>3, <5>1 DEF Balanced
        <5> QED
          BY ONLY <2>6, <4>1, <4>2, <4>3, <5>1, <5>2, <5>3 DEF Balanced
      <4>5. paid'[r] = Held(t) /\ keyPaid'[r] = Share(r, t.pre)
        <5>1. s.arg \in Int
          BY <1>1
        <5>2. paid'[r] = IF Source(s) = "subscription" THEN s.consumed + s.extraReserved ELSE c
          BY ONLY <2>5, <4>1, <4>3, <5>1 DEF Held
        <5>3. keyPaid'[r] = Share(r, t.pre)
          BY <2>5, <4>1, <4>2, Zenon
        <5>4. Held(t) = IF Source(s) = "subscription" THEN c + s.extraReserved ELSE c
          BY ONLY <2>6, <4>2, SMTT(30) DEF Held
        <5> QED
          BY ONLY <4>3, <5>2, <5>3, <5>4
      <4> QED
        BY <2>6, <4>2, <4>4, <4>5 DEF Books, Opening, Reserving, Topping, Refunding,
             OpeningBooks, ReservingBooks, ServingBooks, SettlingBooks, RefundingBooks, EndBooks
    <3> QED
      BY <3>1, <3>2
  <2> QED
    BY <1>3, <2>2, <2>3, <2>4, <2>5, <2>7, StepPreserves
<1> QED
  BY <1>2, <1>3 DEF rollbackFundingReserve
(* Settle: refused, failed, or the settlement delta taken from the source. *)
LEMMA SettlePreserves ==
    ASSUME Inv, NEW r \in Requests, Settle(r)
    PROVE  Inv'
<1> PICK s : s = sess[r]
  OBVIOUS
<1>1. /\ s.pc = "serve" /\ s \in Session /\ Source(s) \in Sources /\ Books(r, s, paid[r], keyPaid[r])
      /\ paid[r] \in Int /\ keyPaid[r] \in Int
  BY SourceType DEF Settle, Inv, TypeOK
<1>2. /\ s.consumed \in Int /\ s.pre \in Int /\ s.extraReserved \in Int
      /\ Source(s) \in {"wallet", "requests", "tokens", "subscription"}
  BY <1>1 DEF Session, Sources, Pools
<1>3. ~s.lossy => /\ paid[r] = Held(s) /\ keyPaid[r] = Share(r, s.pre) /\ Balanced(s)
                  /\ ~s.fundingSettled /\ ~s.settled /\ ~s.refunded /\ ~s.failed
  BY <1>1 DEF Books, ServingBooks, Topping
<1>4. ASSUME NEW a \in Nat, NEW pc \in {"finish", "settleToken"}, pc = "settleToken" => a = s.pre \/ s.fundingSettled,
             Goto(r, [s EXCEPT !.arg = a], pc), Fault \/ NoFault, UNCHANGED money
      PROVE  Inv'
  <2> PICK t : t = [[s EXCEPT !.arg = a] EXCEPT !.pc = pc]
    OBVIOUS
  <2>1. sess' = [sess EXCEPT ![r] = t]
    BY <1>4 DEF Goto
  <2>2. t = Fields(t)
    BY <1>1 DEF Session, Fields
  <2>3. Typed(t)
    BY <1>1, SMTT(60) DEF Session, Typed, PCs
  <2>4. Kept(r) /\ paid'[r] = paid[r] /\ keyPaid'[r] = keyPaid[r]
    BY <1>4, MoneyUnchanged
  <2>5. Source(t) = Source(s) /\ t.rest # <<>>
    BY <1>1 DEF Source, Session, Books
  <2>6. Books(r, t, paid'[r], keyPaid'[r])
    <3>1. CASE s.lossy
      BY <1>1, <2>5, <3>1 DEF Session, Books
    <3>2. CASE ~s.lossy
      <4>1. /\ t.pc = pc /\ t.pre = s.pre /\ t.consumed = s.consumed /\ t.arg = a
            /\ t.extraReserved = s.extraReserved /\ t.tokenConsumed = s.tokenConsumed
            /\ ~t.fundingSettled /\ ~t.settled /\ ~t.refunded /\ ~t.failed
        BY <1>1, <1>3, <3>2 DEF Session
      <4>2. Balanced(t) /\ Held(t) = Held(s)
        BY <1>1, <1>3, <2>5, <3>2, <4>1 DEF Balanced, Topping, Held
      <4>3. pc = "settleToken" => paid'[r] = SettledAmount(t)
        BY ONLY <1>2, <1>3, <1>4, <2>4, <2>5, <3>2, <4>1 DEF SettledAmount, Held, Balanced
      <4> QED
        BY <1>3, <2>4, <2>5, <3>2, <4>1, <4>2, <4>3 DEF Books, Opening, Reserving, Topping, Refunding,
             OpeningBooks, ReservingBooks, ServingBooks, SettlingBooks, RefundingBooks, EndBooks
    <3> QED
      BY <3>1, <3>2
  <2> QED
    BY <1>4, <2>1, <2>2, <2>3, <2>4, <2>6, StepPreserves
<1>5. ASSUME NEW a \in Nat, NoFault, TakeSource(r, a - s.pre),
             Goto(r, [[s EXCEPT !.arg = a] EXCEPT !.fundingSettled = TRUE], "settleToken")
      PROVE  Inv'
  <2> PICK t : t = [[[s EXCEPT !.arg = a] EXCEPT !.fundingSettled = TRUE] EXCEPT !.pc = "settleToken"]
    OBVIOUS
  <2>1. sess' = [sess EXCEPT ![r] = t]
    BY <1>5 DEF Goto
  <2>2. t = Fields(t)
    BY <1>1 DEF Session, Fields
  <2>3. Typed(t)
    BY <1>1, SMTT(60) DEF Session, Typed, PCs
  <2>4. /\ Kept(r) /\ keyPaid'[r] = keyPaid[r]
        /\ Source(s) = "requests" => paid'[r] = paid[r]
        /\ Source(s) # "requests" => paid'[r] = paid[r] + (a - s.pre)
    <3>1. a - s.pre \in Int
      BY <1>2
    <3> QED
      BY <1>1, <1>5, <3>1, SourceTaken
  <2>5. Source(t) = Source(s) /\ t.rest # <<>>
    BY <1>1 DEF Source, Session, Books
  <2>6. Books(r, t, paid'[r], keyPaid'[r])
    <3>1. CASE s.lossy
      BY <1>1, <2>5, <3>1 DEF Session, Books
    <3>2. CASE ~s.lossy
      <4>1. /\ t.pc = "settleToken" /\ t.pre = s.pre /\ t.consumed = s.consumed /\ t.arg = a
            /\ t.extraReserved = s.extraReserved /\ t.tokenConsumed = s.tokenConsumed
            /\ ~t.settled /\ ~t.refunded /\ ~t.failed
        BY <1>1, <1>3, <3>2 DEF Session
      <4>2. Balanced(t) /\ Held(t) = Held(s)
        BY <1>1, <1>3, <2>5, <3>2, <4>1 DEF Balanced, Topping, Held
      <4>3. paid'[r] = SettledAmount(t)
        BY ONLY <1>2, <1>3, <1>5, <2>4, <2>5, <3>2, <4>1 DEF SettledAmount, Held, Balanced
      <4> QED
        BY <1>3, <2>4, <2>5, <3>2, <4>1, <4>2, <4>3 DEF Books, Opening, Reserving, Topping, Refunding,
             OpeningBooks, ReservingBooks, ServingBooks, SettlingBooks, RefundingBooks, EndBooks
    <3> QED
      BY <3>1, <3>2
  <2> QED
    BY <1>5, <2>1, <2>2, <2>3, <2>4, <2>6, StepPreserves
<1>6. PICK a \in Quotas :
        \/ /\ Goto(r, [s EXCEPT !.arg = a], "finish") /\ (Fault \/ NoFault) /\ UNCHANGED money
        \/ /\ a - s.pre = 0 \/ s.fundingSettled
           /\ Goto(r, [s EXCEPT !.arg = a], "settleToken") /\ NoFault /\ UNCHANGED money
        \/ /\ NoFault /\ TakeSource(r, a - s.pre)
           /\ Goto(r, [[s EXCEPT !.arg = a] EXCEPT !.fundingSettled = TRUE], "settleToken")
  BY DEF Settle
<1>7. a \in Nat /\ (a - s.pre = 0 => a = s.pre)
  BY <1>2, QuotasAssumption
<1> QED
  BY <1>4, <1>5, <1>6, <1>7

(* The key part of Settle. *)
LEMMA settleTokenPreserves ==
    ASSUME Inv, NEW r \in Requests, settleToken(r)
    PROVE  Inv'
<1> PICK s : s = sess[r]
  OBVIOUS
<1>1. /\ s.pc = "settleToken" /\ s \in Session /\ Source(s) \in Sources
      /\ Books(r, s, paid[r], keyPaid[r]) /\ paid[r] \in Int /\ keyPaid[r] \in Int
      /\ s.arg \in Int /\ s.pre \in Int
  BY SourceType DEF settleToken, Inv, TypeOK, Session
<1>2. CASE /\ Goto(r, s, "settlePackage") /\ NoFault
           /\ \/ (s.arg - s.pre = 0 \/ r \in Playground) /\ UNCHANGED money
              \/ r \notin Playground /\ TakeKey(r, s.arg - s.pre)
  <2> PICK t : t = [s EXCEPT !.pc = "settlePackage"]
    OBVIOUS
  <2>1. sess' = [sess EXCEPT ![r] = t]
    BY <1>2 DEF Goto
  <2>2. t = Fields(t)
    BY <1>1 DEF Session, Fields
  <2>3. Typed(t)
    BY <1>1, SMTT(60) DEF Session, Typed, PCs
  <2>4. Kept(r) /\ paid'[r] = paid[r] /\ keyPaid'[r] = keyPaid[r] + Share(r, s.arg - s.pre)
    <3>1. s.arg - s.pre \in Int
      BY <1>1
    <3> QED
      BY <1>1, <1>2, <3>1, MoneyUnchanged, KeyTaken DEF Share
  <2>5. Source(t) = Source(s) /\ t.rest # <<>>
    BY <1>1 DEF Source, Session, Books
  <2>6. Books(r, t, paid'[r], keyPaid'[r])
    <3>1. CASE s.lossy
      BY <1>1, <2>5, <3>1 DEF Session, Books
    <3>2. CASE ~s.lossy
      <4>1. /\ Balanced(s) /\ ~s.settled /\ ~s.refunded /\ ~s.failed /\ s.arg >= 0
            /\ paid[r] = SettledAmount(s) /\ keyPaid[r] = Share(r, s.pre)
        BY <1>1, <3>2 DEF Books, SettlingBooks
      <4>2. /\ t.pc = "settlePackage" /\ t.pre = s.pre /\ t.consumed = s.consumed /\ t.arg = s.arg
            /\ t.extraReserved = s.extraReserved /\ t.tokenConsumed = s.tokenConsumed
            /\ ~t.settled /\ ~t.refunded /\ ~t.failed
        BY <1>1, <4>1 DEF Session
      <4>3. Balanced(t) /\ SettledAmount(t) = SettledAmount(s)
        BY <1>1, <2>5, <4>1, <4>2 DEF Balanced, Topping, Held, SettledAmount
      <4>4. keyPaid'[r] = Share(r, t.arg)
        BY ONLY <1>1, <2>4, <4>1, <4>2 DEF Share
      <4> QED
        BY <2>4, <2>5, <4>1, <4>2, <4>3, <4>4 DEF Books, Opening, Reserving, Topping, Refunding,
             OpeningBooks, ReservingBooks, ServingBooks, SettlingBooks, RefundingBooks, EndBooks
    <3> QED
      BY <3>1, <3>2
  <2> QED
    BY <1>2, <2>1, <2>2, <2>3, <2>4, <2>6, StepPreserves
<1>3. CASE Fault /\ UNCHANGED money /\ Goto(r, [s EXCEPT !.lossy = TRUE], "settlePackage")
  <2> PICK t : t = [[s EXCEPT !.lossy = TRUE] EXCEPT !.pc = "settlePackage"]
    OBVIOUS
  <2>1. sess' = [sess EXCEPT ![r] = t]
    BY <1>3 DEF Goto
  <2>2. t = Fields(t)
    BY <1>1 DEF Session, Fields
  <2>3. Typed(t)
    BY <1>1, SMTT(60) DEF Session, Typed, PCs
  <2>4. Kept(r)
    BY <1>3, MoneyUnchanged
  <2>5. Books(r, t, paid'[r], keyPaid'[r])
    BY <1>1 DEF Session, Books
  <2> QED
    BY <1>3, <2>1, <2>2, <2>3, <2>4, <2>5, StepPreserves
<1> QED
  BY <1>2, <1>3 DEF settleToken

(* DeductUserBalancePackage and the end of Settle. *)
LEMMA settlePackagePreserves ==
    ASSUME Inv, NEW r \in Requests, settlePackage(r)
    PROVE  Inv'
<1> PICK s : s = sess[r]
  OBVIOUS
<1>1. /\ s.pc = "settlePackage" /\ s \in Session /\ Source(s) \in Sources
      /\ Books(r, s, paid[r], keyPaid[r]) /\ s.arg \in Int
  BY SourceType DEF settlePackage, Session
<1>2. pkg' \in [Pools -> Nat]
  <2>1. pkg \in [Pools -> Nat] /\ Source(s) \in Pools \union {"subscription"}
    BY <1>1 DEF Inv, TypeOK, Sources
  <2>2. Source(s) \in Pools => pkg[Source(s)] - Deduction(s) \in Nat
    BY <1>1, <2>1 DEF Deduction, Min2, Max0, Pools
  <2> QED
    BY <2>1, <2>2 DEF settlePackage
<1>3. /\ Kept(r) /\ paid'[r] = paid[r] /\ keyPaid'[r] = keyPaid[r] /\ (Fault \/ NoFault)
  BY <1>2 DEF settlePackage, Kept, Inv, TypeOK, NeverOverdrawn
<1> PICK t : t = [[s EXCEPT !.settled = TRUE] EXCEPT !.pc = "finish"]
  OBVIOUS
<1>4. sess' = [sess EXCEPT ![r] = t]
  BY DEF settlePackage, Goto
<1>5. t = Fields(t)
  BY <1>1 DEF Session, Fields
<1>6. Typed(t)
  BY <1>1, SMTT(60) DEF Session, Typed, PCs
<1>7. Source(t) = Source(s) /\ t.rest # <<>>
  BY <1>1 DEF Source, Session, Books
<1>8. Books(r, t, paid'[r], keyPaid'[r])
  <2>1. CASE s.lossy
    BY <1>1, <1>7, <2>1 DEF Session, Books
  <2>2. CASE ~s.lossy
    <3>1. /\ Balanced(s) /\ ~s.settled /\ ~s.refunded /\ ~s.failed /\ s.arg >= 0
          /\ paid[r] = SettledAmount(s) /\ keyPaid[r] = Share(r, s.arg)
      BY <1>1, <2>2 DEF Books, SettlingBooks
    <3>2. /\ t.pc = "finish" /\ t.pre = s.pre /\ t.consumed = s.consumed /\ t.arg = s.arg
          /\ t.extraReserved = s.extraReserved /\ t.tokenConsumed = s.tokenConsumed
          /\ t.settled /\ ~t.refunded /\ ~t.failed
      BY <1>1, <3>1 DEF Session
    <3>3. Balanced(t) /\ SettledAmount(t) = SettledAmount(s)
      BY <1>1, <1>7, <3>1, <3>2 DEF Balanced, Topping, Held, SettledAmount
    <3> QED
      BY <1>3, <1>7, <3>1, <3>2, <3>3 DEF Books, Opening, Reserving, Topping, Refunding,
           OpeningBooks, ReservingBooks, ServingBooks, SettlingBooks, RefundingBooks, EndBooks
  <2> QED
    BY <2>1, <2>2
<1> QED
  BY <1>3, <1>4, <1>5, <1>6, <1>8, StepPreserves

(* The request succeeded, settled or not. *)
LEMMA SucceedPreserves ==
    ASSUME Inv, NEW r \in Requests, Succeed(r)
    PROVE  Inv'
<1> PICK s : s = sess[r]
  OBVIOUS
<1>1. s.pc = "finish" /\ s \in Session /\ Source(s) \in Sources /\ Books(r, s, paid[r], keyPaid[r])
  BY SourceType DEF Succeed
<1> PICK t : t = [s EXCEPT !.pc = "done"]
  OBVIOUS
<1>2. sess' = [sess EXCEPT ![r] = t] /\ NoFault
  BY DEF Succeed, Goto
<1>3. t = Fields(t)
  BY <1>1 DEF Session, Fields
<1>4. Typed(t)
  BY <1>1, SMTT(60) DEF Session, Typed, PCs
<1>5. Kept(r) /\ paid'[r] = paid[r] /\ keyPaid'[r] = keyPaid[r]
  BY MoneyUnchanged DEF Succeed
<1>6. Source(t) = Source(s) /\ t.rest # <<>>
  BY <1>1 DEF Source, Session, Books
<1>7. Books(r, t, paid'[r], keyPaid'[r])
  <2>1. CASE s.lossy
    BY <1>1, <1>6, <2>1 DEF Session, Books
  <2>2. CASE ~s.lossy
    <3>1. EndBooks(r, s, paid[r], keyPaid[r])
      BY <1>1, <2>2 DEF Books
    <3>2. /\ t.pc = "done" /\ t.pre = s.pre /\ t.consumed = s.consumed /\ t.arg = s.arg
          /\ t.extraReserved = s.extraReserved /\ t.tokenConsumed = s.tokenConsumed
          /\ t.settled = s.settled /\ t.refunded = s.refunded /\ t.failed = s.failed
      BY <1>1 DEF Session
    <3>3. Balanced(s) => Balanced(t) /\ SettledAmount(t) = SettledAmount(s) /\ Held(t) = Held(s)
      BY <1>1, <1>6, <3>2 DEF Balanced, Topping, Held, SettledAmount
    <3>4. EndBooks(r, t, paid'[r], keyPaid'[r])
      BY <1>1, <1>5, <1>6, <3>1, <3>2, <3>3 DEF EndBooks
    <3> QED
      BY <1>6, <3>2, <3>4 DEF Books, Opening, Reserving, Topping, Refunding,
           OpeningBooks, ReservingBooks, ServingBooks, SettlingBooks, RefundingBooks
  <2> QED
    BY <2>1, <2>2
<1> QED
  BY <1>2, <1>3, <1>4, <1>5, <1>7, StepPreserves
(* Refund: what an API error does with an open or finished session. *)
LEMMA RefundPreserves ==
    ASSUME Inv, NEW r \in Requests, Refund(r)
    PROVE  Inv'
<1> PICK s : s = sess[r]
  OBVIOUS
<1>1. /\ s.pc \in {"serve", "finish"} /\ s \in Session /\ Source(s) \in Sources
      /\ Books(r, s, paid[r], keyPaid[r])
  <2>1. s.pc \in {"serve", "finish"}
    <3>1. [s EXCEPT !.failed = TRUE].pc = s.pc
      BY DEF Inv, TypeOK, Session
    <3> QED
      BY <3>1 DEF Refund
  <2> QED
    BY <2>1, SourceType
<1>2. Kept(r) /\ paid'[r] = paid[r] /\ keyPaid'[r] = keyPaid[r] /\ (Fault \/ NoFault)
  BY MoneyUnchanged DEF Refund
<1>3. ~s.lossy => /\ Balanced(s) /\ ~s.refunded /\ ~s.failed
                  /\ s.settled => s.arg >= 0 /\ paid[r] = SettledAmount(s) /\ keyPaid[r] = Share(r, s.arg)
                  /\ ~s.settled => ~s.fundingSettled /\ paid[r] = Held(s) /\ keyPaid[r] = Share(r, s.pre)
  BY <1>1 DEF Books, ServingBooks, EndBooks, Topping
<1> PICK f : f = [s EXCEPT !.failed = TRUE]
  OBVIOUS
<1>4. /\ f \in Session /\ Source(f) = Source(s) /\ f.rest = s.rest /\ s.rest # <<>>
      /\ f.pre = s.pre /\ f.consumed = s.consumed /\ f.arg = s.arg
      /\ f.extraReserved = s.extraReserved /\ f.tokenConsumed = s.tokenConsumed
      /\ f.settled = s.settled /\ f.refunded = s.refunded /\ f.fundingSettled = s.fundingSettled
      /\ f.failed /\ f.lossy = s.lossy
  BY <1>1 DEF Session, Source, Books
<1>5. CASE ~f.settled /\ Goto(r, [f EXCEPT !.refunded = TRUE], "refundFunding")
  <2> PICK t : t = [[f EXCEPT !.refunded = TRUE] EXCEPT !.pc = "refundFunding"]
    OBVIOUS
  <2>1. sess' = [sess EXCEPT ![r] = t]
    BY <1>5 DEF Goto
  <2>2. t = Fields(t)
    BY <1>4 DEF Session, Fields
  <2>3. Typed(t)
    BY <1>4 DEF Session, Typed, PCs
  <2>4. /\ t.pc = "refundFunding" /\ t.pre = s.pre /\ t.consumed = s.consumed /\ t.lossy = s.lossy
        /\ t.extraReserved = s.extraReserved /\ t.tokenConsumed = s.tokenConsumed
        /\ ~t.settled /\ t.refunded /\ t.failed /\ Source(t) = Source(s) /\ t.rest = s.rest
    BY <1>4, <1>5 DEF Session, Source
  <2>5. Books(r, t, paid'[r], keyPaid'[r])
    <3>1. CASE s.lossy
      BY <1>4, <2>4, <3>1 DEF Books
    <3>2. CASE ~s.lossy
      <4>1. Balanced(t) /\ Held(t) = Held(s)
        BY <1>1, <1>3, <2>4, <3>2 DEF Balanced, Topping, Held
      <4> QED
        BY <1>2, <1>3, <1>4, <1>5, <2>4, <3>2, <4>1 DEF Books, Opening, Reserving, Topping, Refunding,
             OpeningBooks, ReservingBooks, ServingBooks, SettlingBooks, RefundingBooks, EndBooks
    <3> QED
      BY <3>1, <3>2
  <2> QED
    BY <1>2, <2>1, <2>2, <2>3, <2>5, StepPreserves
<1>6. CASE ~(~f.settled /\ ~f.refunded /\ needsRefundLocked(f)) /\ Goto(r, f, "done")
  <2> PICK t : t = [f EXCEPT !.pc = "done"]
    OBVIOUS
  <2>1. sess' = [sess EXCEPT ![r] = t]
    BY <1>6 DEF Goto
  <2>2. t = Fields(t)
    BY <1>4 DEF Session, Fields
  <2>3. Typed(t)
    BY <1>4 DEF Session, Typed, PCs
  <2>4. /\ t.pc = "done" /\ t.pre = s.pre /\ t.consumed = s.consumed /\ t.lossy = s.lossy
        /\ t.extraReserved = s.extraReserved /\ t.tokenConsumed = s.tokenConsumed /\ t.arg = s.arg
        /\ t.settled = s.settled /\ t.refunded = s.refunded /\ t.failed
        /\ Source(t) = Source(s) /\ t.rest = s.rest
    BY <1>4 DEF Session, Source
  <2>5. Books(r, t, paid'[r], keyPaid'[r])
    <3>1. CASE s.lossy
      BY <1>4, <2>4, <3>1 DEF Books
    <3>2. CASE ~s.lossy
      <4>1. Balanced(t) /\ Held(t) = Held(s) /\ SettledAmount(t) = SettledAmount(s)
        BY <1>1, <1>3, <2>4, <3>2 DEF Balanced, Topping, Held, SettledAmount
      <4>2. ~s.settled => s.pre = 0 /\ Source(s) # "subscription"
        <5>1. s.pre \in Int /\ s.consumed \in Int
          BY <1>1 DEF Session
        <5> QED
          BY <1>3, <1>4, <1>6, <3>2, <5>1 DEF needsRefundLocked, Balanced
      <4>3. EndBooks(r, t, paid'[r], keyPaid'[r])
        BY <1>2, <1>3, <2>4, <3>2, <4>1, <4>2 DEF EndBooks
      <4> QED
        BY <1>4, <2>4, <4>3 DEF Books, Opening, Reserving, Topping, Refunding,
             OpeningBooks, ReservingBooks, ServingBooks, SettlingBooks, RefundingBooks
    <3> QED
      BY <3>1, <3>2
  <2> QED
    BY <1>2, <2>1, <2>2, <2>3, <2>5, StepPreserves
<1> QED
  BY <1>5, <1>6 DEF Refund

(* A step of Refund's goroutine moves on to pc, or to a session for which an *)
(* error was only logged, when its books stand as they must at pc.           *)
LEMMA RefundStep ==
    ASSUME Inv, NEW r \in Requests, sess[r].pc \in Refunding,
           NEW pc \in Refunding \union {"done"}, NEW lossy \in BOOLEAN, NEW n \in Nat,
           NEW t, t = [[sess[r] EXCEPT !.attempts = n, !.lossy = lossy] EXCEPT !.pc = pc],
           sess' = [sess EXCEPT ![r] = t], Fault \/ NoFault, Kept(r),
           lossy \/ ( /\ ~sess[r].lossy /\ keyPaid'[r] \in Int /\ paid'[r] \in Int
                      /\ pc = "refundFunding" => paid'[r] = Held(sess[r])
                      /\ pc \in {"refundToken", "done"} => paid'[r] = 0
                      /\ pc = "refundRecord" => Source(sess[r]) = "subscription"
                      /\ pc \in {"refundRecord", "refundExtra"} =>
                            paid'[r] = IF Source(sess[r]) = "subscription" THEN sess[r].extraReserved ELSE 0
                      /\ keyPaid'[r] = IF pc = "done" THEN 0 ELSE Share(r, sess[r].pre))
    PROVE  Inv'
<1> PICK s : s = sess[r]
  OBVIOUS
<1>1. /\ s.pc \in Refunding /\ s \in Session /\ Source(s) \in Sources
      /\ Books(r, s, paid[r], keyPaid[r])
  BY SourceType DEF Refunding
<1>2. t = Fields(t)
  BY <1>1 DEF Session, Fields
<1>3. Typed(t)
  BY <1>1, SMTT(60) DEF Session, Typed, PCs, Refunding
<1>4. /\ t.pc = pc /\ t.pre = s.pre /\ t.consumed = s.consumed /\ t.lossy = lossy
      /\ t.extraReserved = s.extraReserved /\ t.tokenConsumed = s.tokenConsumed /\ t.arg = s.arg
      /\ t.settled = s.settled /\ t.refunded = s.refunded /\ t.failed = s.failed
      /\ Source(t) = Source(s) /\ t.rest = s.rest /\ s.rest # <<>>
  BY <1>1 DEF Session, Source, Books, Refunding
<1>5. Books(r, t, paid'[r], keyPaid'[r])
  <2>1. CASE lossy
    BY <1>4, <2>1 DEF Books, Refunding
  <2>2. CASE ~lossy
    <3>1. Balanced(s) /\ ~s.settled /\ s.refunded /\ s.failed
      BY <1>1, <2>2 DEF Books, RefundingBooks
    <3>2. Balanced(t) /\ Held(t) = Held(s)
      BY <1>1, <1>4, <3>1 DEF Balanced, Held, Topping, Refunding
    <3>3. CASE pc = "done"
      BY <1>4, <2>2, <3>1, <3>2, <3>3 DEF Books, Opening, Reserving, Topping, Refunding,
         OpeningBooks, ReservingBooks, ServingBooks, SettlingBooks, RefundingBooks, EndBooks
    <3>4. CASE pc \in Refunding
      <4>1. RefundingBooks(r, t, paid'[r], keyPaid'[r])
        BY <1>4, <2>2, <3>1, <3>2, <3>4 DEF RefundingBooks, Refunding
      <4> QED
        BY <1>4, <3>4, <4>1 DEF Books, Opening, Reserving, Topping, Refunding,
           OpeningBooks, ReservingBooks, ServingBooks, SettlingBooks, EndBooks
    <3> QED
      BY <3>3, <3>4
  <2> QED
    BY <2>1, <2>2
<1> QED
  BY <1>2, <1>3, <1>5, StepPreserves
(* The records the steps of Refund's goroutine write. *)
LEMMA RefundRecords ==
    ASSUME NEW s \in Session, NEW pc
    PROVE  /\ s.attempts \in Nat /\ s.lossy \in BOOLEAN
           /\ [s EXCEPT !.pc = pc]
                = [[s EXCEPT !.attempts = s.attempts, !.lossy = s.lossy] EXCEPT !.pc = pc]
           /\ [[s EXCEPT !.lossy = TRUE] EXCEPT !.pc = pc]
                = [[s EXCEPT !.attempts = s.attempts, !.lossy = TRUE] EXCEPT !.pc = pc]
           /\ [[s EXCEPT !.attempts = @ + 1] EXCEPT !.pc = pc]
                = [[s EXCEPT !.attempts = s.attempts + 1, !.lossy = s.lossy] EXCEPT !.pc = pc]
           /\ [[s EXCEPT !.attempts = @ + 1, !.lossy = TRUE] EXCEPT !.pc = pc]
                = [[s EXCEPT !.attempts = s.attempts + 1, !.lossy = TRUE] EXCEPT !.pc = pc]
BY DEF Session

(* A step of the goroutine that only moves on, or that logs an error. *)
LEMMA GotoRefund ==
    ASSUME Inv, NEW r \in Requests, sess[r].pc \in Refunding,
           NEW pc \in Refunding \union {"done"}, NEW s, s \in {sess[r], [sess[r] EXCEPT !.lossy = TRUE]},
           Goto(r, s, pc), Fault \/ NoFault, Kept(r),
           s.lossy \/ ( /\ keyPaid'[r] \in Int /\ paid'[r] \in Int
                        /\ pc = "refundFunding" => paid'[r] = Held(sess[r])
                        /\ pc \in {"refundToken", "done"} => paid'[r] = 0
                        /\ pc = "refundRecord" => Source(sess[r]) = "subscription"
                        /\ pc \in {"refundRecord", "refundExtra"} =>
                              paid'[r] = IF Source(sess[r]) = "subscription" THEN sess[r].extraReserved ELSE 0
                        /\ keyPaid'[r] = IF pc = "done" THEN 0 ELSE Share(r, sess[r].pre))
    PROVE  Inv'
<1>1. sess[r] \in Session
  BY DEF Inv, TypeOK
<1> PICK n, l : n = sess[r].attempts /\ l = s.lossy
  OBVIOUS
<1>2. n \in Nat /\ l \in BOOLEAN /\ (~l => ~sess[r].lossy)
  BY <1>1 DEF Session
<1> PICK t : t = [s EXCEPT !.pc = pc]
  OBVIOUS
<1>3. t = [[sess[r] EXCEPT !.attempts = n, !.lossy = l] EXCEPT !.pc = pc]
  <2>1. CASE s = sess[r]
    BY <1>1, <2>1, RefundRecords
  <2>2. CASE s = [sess[r] EXCEPT !.lossy = TRUE]
    <3>1. l = TRUE
      BY <1>1, <2>2 DEF Session
    <3> QED
      BY <1>1, <2>2, <3>1, RefundRecords
  <2> QED
    BY <2>1, <2>2
<1>4. sess' = [sess EXCEPT ![r] = t]
  BY DEF Goto
<1> QED
  BY <1>2, <1>3, <1>4, RefundStep

(* An attempt of refundWithRetry failed and left the source as it was. *)
LEMMA RefundAttemptPreserves ==
    ASSUME Inv, NEW r \in Requests, sess[r].pc \in {"refundFunding", "refundRecord"},
           NEW s, s \in {sess[r], [sess[r] EXCEPT !.lossy = TRUE]},
           s.lossy \/ sess[r].pc = "refundFunding",
           RefundAttemptFailed(r, s), Fault, UNCHANGED money
    PROVE  Inv'
<1>1. /\ sess[r] \in Session /\ Books(r, sess[r], paid[r], keyPaid[r]) /\ sess[r].pc \in Refunding
      /\ paid[r] \in Int /\ keyPaid[r] \in Int
  BY SourceType DEF Inv, TypeOK, Refunding
<1>2. Kept(r) /\ paid'[r] = paid[r] /\ keyPaid'[r] = keyPaid[r]
  BY MoneyUnchanged
<1> PICK n : n = sess[r].attempts + 1
  OBVIOUS
<1>3. n \in Nat /\ sess[r].lossy \in BOOLEAN
  BY <1>1 DEF Session
<1>4. CASE sess' = [sess EXCEPT ![r] = [[sess[r] EXCEPT !.attempts = n, !.lossy = TRUE] EXCEPT !.pc = "refundFunding"]]
  BY <1>1, <1>2, <1>3, <1>4, RefundStep DEF Refunding
<1>5. CASE sess' = [sess EXCEPT ![r] = [[sess[r] EXCEPT !.attempts = n, !.lossy = TRUE] EXCEPT !.pc = "refundExtra"]]
  BY <1>1, <1>2, <1>3, <1>5, RefundStep DEF Refunding
<1>6. CASE /\ sess[r].lossy \/ sess[r].pc = "refundFunding"
           /\ sess' = [sess EXCEPT ![r] = [[sess[r] EXCEPT !.attempts = n, !.lossy = sess[r].lossy]
                                             EXCEPT !.pc = "refundFunding"]]
  <2>1. sess[r].lossy \/ (paid[r] = Held(sess[r]) /\ keyPaid[r] = Share(r, sess[r].pre))
    BY <1>1, <1>6 DEF Books, RefundingBooks, Refunding
  <2> QED
    BY <1>1, <1>2, <1>3, <1>6, <2>1, RefundStep DEF Refunding
<1>7. CASE s = sess[r]
  <2>1. \/ sess' = [sess EXCEPT ![r] = [s EXCEPT !.attempts = @ + 1, !.pc = "refundFunding"]]
        \/ sess' = [sess EXCEPT ![r] = [s EXCEPT !.attempts = @ + 1, !.lossy = TRUE, !.pc = "refundExtra"]]
    BY DEF RefundAttemptFailed, Goto
  <2>2. \A pc : /\ [s EXCEPT !.attempts = @ + 1, !.pc = pc]
                     = [[sess[r] EXCEPT !.attempts = n, !.lossy = sess[r].lossy] EXCEPT !.pc = pc]
                /\ [s EXCEPT !.attempts = @ + 1, !.lossy = TRUE, !.pc = pc]
                     = [[sess[r] EXCEPT !.attempts = n, !.lossy = TRUE] EXCEPT !.pc = pc]
    BY <1>1, <1>7 DEF Session
  <2> QED
    BY <1>5, <1>6, <1>7, <2>1, <2>2
<1>8. CASE s = [sess[r] EXCEPT !.lossy = TRUE]
  <2>1. \/ sess' = [sess EXCEPT ![r] = [s EXCEPT !.attempts = @ + 1, !.pc = "refundFunding"]]
        \/ sess' = [sess EXCEPT ![r] = [s EXCEPT !.attempts = @ + 1, !.lossy = TRUE, !.pc = "refundExtra"]]
    BY DEF RefundAttemptFailed, Goto
  <2>2. \A pc : /\ [s EXCEPT !.attempts = @ + 1, !.pc = pc]
                     = [[sess[r] EXCEPT !.attempts = n, !.lossy = TRUE] EXCEPT !.pc = pc]
                /\ [s EXCEPT !.attempts = @ + 1, !.lossy = TRUE, !.pc = pc]
                     = [[sess[r] EXCEPT !.attempts = n, !.lossy = TRUE] EXCEPT !.pc = pc]
    BY <1>1, <1>8 DEF Session
  <2> QED
    BY <1>4, <1>5, <2>1, <2>2
<1> QED
  BY <1>7, <1>8

(* funding.Refund(). *)
LEMMA refundFundingPreserves ==
    ASSUME Inv, NEW r \in Requests, refundFunding(r)
    PROVE  Inv'
<1> PICK s : s = sess[r]
  OBVIOUS
<1>1. /\ s.pc = "refundFunding" /\ s \in Session /\ Source(s) \in Sources /\ s.pc \in Refunding
      /\ Books(r, s, paid[r], keyPaid[r]) /\ paid[r] \in Int /\ keyPaid[r] \in Int
      /\ s.consumed \in Int /\ s.extraReserved \in Int
  BY SourceType DEF refundFunding, Inv, TypeOK, Session, Refunding
<1>2. s.lossy \/ (Balanced(s) /\ paid[r] = Held(s) /\ keyPaid[r] = Share(r, s.pre))
  BY <1>1 DEF Books, RefundingBooks
<1>3. CASE s.consumed <= 0 /\ Goto(r, s, "refundExtra") /\ NoFault /\ UNCHANGED money
  <2>1. Kept(r) /\ paid'[r] = paid[r] /\ keyPaid'[r] = keyPaid[r]
    BY <1>3, MoneyUnchanged
  <2>2. s.lossy \/ paid[r] = IF Source(s) = "subscription" THEN s.extraReserved ELSE 0
    BY <1>1, <1>2, <1>3 DEF Held, Balanced
  <2> QED
    BY <1>1, <1>2, <1>3, <2>1, <2>2, GotoRefund DEF Refunding
<1>4. CASE NoFault /\ Source(s) # "subscription" /\ TakePool(r, Source(s), -s.consumed)
           /\ s.consumed > 0 /\ Goto(r, s, "refundExtra")
  <2>1. Source(s) \in Pools /\ -s.consumed \in Int /\ (Source(s) = "requests" => bal[Source(s)] - (-s.consumed) >= 0)
    BY <1>1, <1>4 DEF Sources, Inv, TypeOK, NeverOverdrawn, Pools
  <2>2. Kept(r) /\ paid'[r] = paid[r] + (-s.consumed) /\ keyPaid'[r] = keyPaid[r]
    BY <1>4, <2>1, PoolTaken
  <2>3. s.lossy \/ paid'[r] = 0
    BY <1>1, <1>2, <1>4, <2>2 DEF Held
  <2> QED
    BY <1>1, <1>2, <1>4, <2>2, <2>3, GotoRefund DEF Refunding
<1>5. CASE Fault /\ UNCHANGED money /\ Goto(r, [s EXCEPT !.lossy = TRUE], "refundExtra")
  <2>1. Kept(r)
    BY <1>5, MoneyUnchanged
  <2>2. [s EXCEPT !.lossy = TRUE].lossy
    BY <1>1 DEF Session
  <2> QED
    BY <1>1, <1>5, <2>1, <2>2, GotoRefund DEF Refunding
<1>6. CASE Source(s) = "subscription" /\ NoFault /\ TakeSub(r, -s.consumed) /\ Goto(r, s, "refundRecord")
  <2>1. -s.consumed \in Int
    BY <1>1
  <2>2. Kept(r) /\ paid'[r] = paid[r] + (-s.consumed) /\ keyPaid'[r] = keyPaid[r]
    BY <1>6, <2>1, SubTaken
  <2>3. s.lossy \/ paid'[r] = s.extraReserved
    BY <1>1, <1>2, <1>6, <2>2 DEF Held
  <2> QED
    BY <1>1, <1>2, <1>6, <2>2, <2>3, GotoRefund DEF Refunding
<1>7. CASE Fault /\ UNCHANGED money /\ RefundAttemptFailed(r, s)
  BY <1>1, <1>7, RefundAttemptPreserves
<1> QED
  BY <1>3, <1>4, <1>5, <1>6, <1>7 DEF refundFunding

(* The record of the subscription reservation. *)
LEMMA refundRecordPreserves ==
    ASSUME Inv, NEW r \in Requests, refundRecord(r)
    PROVE  Inv'
<1> PICK s : s = sess[r]
  OBVIOUS
<1>1. /\ s.pc = "refundRecord" /\ s \in Session /\ s.pc \in Refunding
      /\ Books(r, s, paid[r], keyPaid[r]) /\ paid[r] \in Int /\ keyPaid[r] \in Int
  BY SourceType DEF refundRecord, Inv, TypeOK, Refunding
<1>2. Kept(r) /\ paid'[r] = paid[r] /\ keyPaid'[r] = keyPaid[r]
  BY MoneyUnchanged DEF refundRecord
<1>3. CASE NoFault /\ Goto(r, s, "refundExtra")
  <2>1. s.lossy \/ ( /\ paid[r] = IF Source(s) = "subscription" THEN s.extraReserved ELSE 0
                     /\ keyPaid[r] = Share(r, s.pre))
    BY <1>1 DEF Books, RefundingBooks
  <2> QED
    BY <1>1, <1>2, <1>3, <2>1, GotoRefund DEF Refunding
<1>4. CASE Fault /\ RefundAttemptFailed(r, [s EXCEPT !.lossy = TRUE])
  <2> PICK u : u = [s EXCEPT !.lossy = TRUE]
    OBVIOUS
  <2>1. u.lossy
    BY <1>1 DEF Session
  <2> QED
    BY <1>1, <1>4, <2>1, RefundAttemptPreserves DEF refundRecord
<1> QED
  BY <1>3, <1>4 DEF refundRecord

(* The top-ups of a subscription. *)
LEMMA refundExtraPreserves ==
    ASSUME Inv, NEW r \in Requests, refundExtra(r)
    PROVE  Inv'
<1> PICK s : s = sess[r]
  OBVIOUS
<1>1. /\ s.pc = "refundExtra" /\ s \in Session /\ s.pc \in Refunding
      /\ Books(r, s, paid[r], keyPaid[r]) /\ paid[r] \in Int /\ keyPaid[r] \in Int
      /\ s.extraReserved \in Int
  BY SourceType DEF refundExtra, Inv, TypeOK, Refunding, Session
<1>2. s.lossy \/ ( /\ paid[r] = IF Source(s) = "subscription" THEN s.extraReserved ELSE 0
                   /\ keyPaid[r] = Share(r, s.pre) /\ Balanced(s))
  BY <1>1 DEF Books, RefundingBooks
<1>3. CASE /\ s.extraReserved <= 0 \/ Source(s) # "subscription"
           /\ Goto(r, s, "refundToken") /\ NoFault /\ UNCHANGED money
  <2>1. Kept(r) /\ paid'[r] = paid[r] /\ keyPaid'[r] = keyPaid[r]
    BY <1>3, MoneyUnchanged
  <2>2. s.lossy \/ paid[r] = 0
    BY <1>1, <1>2, <1>3 DEF Balanced
  <2> QED
    BY <1>1, <1>2, <1>3, <2>1, <2>2, GotoRefund DEF Refunding
<1>4. CASE /\ Source(s) = "subscription" /\ NoFault /\ TakeSub(r, -s.extraReserved)
           /\ Goto(r, s, "refundToken")
  <2>1. -s.extraReserved \in Int
    BY <1>1
  <2>2. Kept(r) /\ paid'[r] = paid[r] + (-s.extraReserved) /\ keyPaid'[r] = keyPaid[r]
    BY <1>4, <2>1, SubTaken
  <2>3. s.lossy \/ paid'[r] = 0
    BY <1>1, <1>2, <1>4, <2>2
  <2> QED
    BY <1>1, <1>2, <1>4, <2>2, <2>3, GotoRefund DEF Refunding
<1>5. CASE Fault /\ UNCHANGED money /\ Goto(r, [s EXCEPT !.lossy = TRUE], "refundToken")
  <2>1. Kept(r)
    BY <1>5, MoneyUnchanged
  <2>2. [s EXCEPT !.lossy = TRUE].lossy
    BY <1>1 DEF Session
  <2> QED
    BY <1>1, <1>5, <2>1, <2>2, GotoRefund DEF Refunding
<1> QED
  BY <1>3, <1>4, <1>5 DEF refundExtra

(* The key. *)
LEMMA refundTokenPreserves ==
    ASSUME Inv, NEW r \in Requests, refundToken(r)
    PROVE  Inv'
<1> PICK s : s = sess[r]
  OBVIOUS
<1>1. /\ s.pc = "refundToken" /\ s \in Session /\ s.pc \in Refunding
      /\ Books(r, s, paid[r], keyPaid[r]) /\ paid[r] \in Int /\ keyPaid[r] \in Int
      /\ s.tokenConsumed \in Int /\ s.pre \in Int
  BY SourceType DEF refundToken, Inv, TypeOK, Refunding, Session
<1>2. s.lossy \/ (paid[r] = 0 /\ keyPaid[r] = Share(r, s.pre) /\ s.tokenConsumed = s.pre /\ s.pre >= 0)
  BY <1>1 DEF Books, RefundingBooks, Balanced
<1>3. CASE /\ s.tokenConsumed <= 0 \/ r \in Playground
           /\ Goto(r, s, "done") /\ NoFault /\ UNCHANGED money
  <2>1. Kept(r) /\ paid'[r] = paid[r] /\ keyPaid'[r] = keyPaid[r]
    BY <1>3, MoneyUnchanged
  <2>2. s.lossy \/ keyPaid[r] = 0
    BY <1>1, <1>2, <1>3 DEF Share
  <2> QED
    BY <1>1, <1>2, <1>3, <2>1, <2>2, GotoRefund DEF Refunding
<1>4. CASE r \notin Playground /\ NoFault /\ TakeKey(r, -s.tokenConsumed) /\ Goto(r, s, "done")
  <2>1. -s.tokenConsumed \in Int
    BY <1>1
  <2>2. Kept(r) /\ paid'[r] = paid[r] /\ keyPaid'[r] = keyPaid[r] + (-s.tokenConsumed)
    BY <1>4, <2>1, KeyTaken
  <2>3. s.lossy \/ keyPaid'[r] = 0
    BY <1>1, <1>2, <1>4, <2>2 DEF Share
  <2> QED
    BY <1>1, <1>2, <1>4, <2>2, <2>3, GotoRefund DEF Refunding
<1>5. CASE Fault /\ UNCHANGED money /\ Goto(r, [s EXCEPT !.lossy = TRUE], "done")
  <2>1. Kept(r)
    BY <1>5, MoneyUnchanged
  <2>2. [s EXCEPT !.lossy = TRUE].lossy
    BY <1>1 DEF Session
  <2> QED
    BY <1>1, <1>5, <2>1, <2>2, GotoRefund DEF Refunding
<1> QED
  BY <1>3, <1>4, <1>5 DEF refundToken-----------------------------------------------------------------------------
(***************************************************************************)
(* The theorems.                                                           *)
(***************************************************************************)
(* Before any request the books are empty. *)
LEMMA InitInv == Init => Inv
<1> SUFFICES ASSUME Init
             PROVE  Inv
  OBVIOUS
<1>1. TypeOK /\ NeverOverdrawn
  <2>1. sess \in [Requests -> Session]
    BY IdleType DEF Init
  <2>2. InitBalance["requests"] >= 0
    BY PoolsAssumption DEF Pools
  <2> QED
    BY <2>1, <2>2, PoolsAssumption, NumbersAssumption DEF Init, TypeOK, NeverOverdrawn
<1>2. BooksBalance
  <2> SUFFICES ASSUME NEW r \in Requests
               PROVE  Books(r, Idle, 0, 0)
    BY DEF Init, BooksBalance
  <2> QED
    BY DEF Idle, Books, Opening, Reserving, Topping, Refunding, OpeningBooks, ReservingBooks,
           ServingBooks, SettlingBooks, RefundingBooks, EndBooks, Blank
<1> QED
  BY <1>1, <1>2 DEF Inv

(* Every step of every request keeps the books balanced. *)
LEMMA NextInv == Inv /\ [Next]_vars => Inv'
<1> SUFFICES ASSUME Inv, [Next]_vars
             PROVE  Inv'
  OBVIOUS
<1>1. CASE UNCHANGED vars
  BY <1>1 DEF vars, Inv, TypeOK, NeverOverdrawn, BooksBalance
<1>2. ASSUME NEW r \in Requests, Step(r) \/ Reserve(r) \/ Settle(r) \/ Refund(r)
      PROVE  Inv'
  <2>1. CASE preConsume(r)
    BY <2>1, checkTrustPreserves, preConsumeTokenPreserves, preConsumeFundingPreserves, readCurrPreserves, fundCurrPreserves,
       rollbackTokenPreserves DEF preConsume
  <2>2. CASE Begin(r) \/ Probe(r)
    BY <2>2, BeginPreserves, ProbePreserves
  <2>3. CASE Reserve(r) \/ reserveToken(r) \/ rollbackFundingReserve(r)
    BY <2>3, ReservePreserves, reserveTokenPreserves, rollbackFundingReservePreserves
  <2>4. CASE Settle(r) \/ settleToken(r) \/ settlePackage(r) \/ Succeed(r)
    BY <2>4, SettlePreserves, settleTokenPreserves, settlePackagePreserves, SucceedPreserves
  <2>5. CASE Refund(r) \/ refundFunding(r) \/ refundRecord(r) \/ refundExtra(r) \/ refundToken(r)
    BY <2>5, RefundPreserves, refundFundingPreserves, refundRecordPreserves, refundExtraPreserves,
       refundTokenPreserves
  <2> QED
    BY <1>2, <2>1, <2>2, <2>3, <2>4, <2>5 DEF Step
<1> QED
  BY <1>1, <1>2 DEF Next

(* The books balance at every point of every execution. *)
THEOREM BooksAlwaysBalance == Spec => []Inv
BY InitInv, NextInv, PTL DEF Spec

(* Every variable keeps its type: no package and no subscription counter   *)
(* goes below zero, and database errors stay within their bound.           *)
THEOREM TypeCorrect == Spec => []TypeOK
<1>1. Inv => TypeOK
  BY DEF Inv
<1> QED
  BY <1>1, BooksAlwaysBalance, PTL

(* No interleaving of reservations, top-ups, settlements and refunds drives *)
(* the request count below zero or the subscription over its total.         *)
THEOREM RequestsAndSubscriptionNeverOverdrawn == Spec => []NeverOverdrawn
<1>1. Inv => NeverOverdrawn
  BY DEF Inv
<1> QED
  BY <1>1, BooksAlwaysBalance, PTL

(* A settled request has paid its real price once, to its source and to its *)
(* key (Settle, after any number of Reserves).                              *)
THEOREM SettledRequestsPayExactly == Spec => []SettledExactly
<1>1. Inv => SettledExactly
  <2> SUFFICES ASSUME Inv, NEW r \in Requests, sess[r].pc = "done", sess[r].settled, Accountable(sess[r])
               PROVE  /\ paid[r] = IF Source(sess[r]) = "requests" THEN 1 ELSE sess[r].arg
                      /\ keyPaid[r] = IF r \in Playground THEN 0 ELSE sess[r].arg
    BY DEF SettledExactly
  <2> PICK s : s = sess[r]
    OBVIOUS
  <2>1. s \in Session /\ Source(s) \in Sources /\ Books(r, s, paid[r], keyPaid[r]) /\ s.rest # <<>>
    BY SourceType DEF Books
  <2>2. /\ Balanced(s) /\ paid[r] = SettledAmount(s) /\ keyPaid[r] = Share(r, s.arg)
    BY <2>1 DEF Accountable, Books, EndBooks
  <2>3. /\ s.consumed \in Int /\ s.pre \in Int /\ s.extraReserved \in Int /\ s.arg \in Int
        /\ Source(s) \in {"wallet", "requests", "tokens", "subscription"}
        /\ s.pc \notin Topping /\ (Source(s) = "tokens" => s.consumed = s.pre)
    BY <2>1 DEF Session, Sources, Pools, Accountable, Topping
  <2>4. paid[r] = IF Source(s) = "requests" THEN 1 ELSE s.arg
    BY ONLY <2>2, <2>3 DEF SettledAmount, Held, Balanced
  <2> QED
    BY <2>2, <2>4 DEF Share
<1> QED
  BY <1>1, BooksAlwaysBalance, PTL

(* A request that was refused by every source, or failed and was refunded,  *)
(* has paid nothing (preConsume's rollback, Refund).                        *)
THEOREM FailedRequestsPayNothing == Spec => []FailedPaysNothing
<1>1. Inv => FailedPaysNothing
  <2> SUFFICES ASSUME Inv, NEW r \in Requests, ~sess[r].lossy,
                      \/ sess[r].pc = "rejected"
                      \/ sess[r].pc = "done" /\ sess[r].refunded
                      \/ /\ sess[r].pc = "done" /\ sess[r].failed /\ ~sess[r].settled
                         /\ Source(sess[r]) \in {"wallet", "subscription"}
               PROVE  paid[r] = 0 /\ keyPaid[r] = 0
    BY DEF FailedPaysNothing
  <2> PICK s : s = sess[r]
    OBVIOUS
  <2>1. s \in Session /\ Books(r, s, paid[r], keyPaid[r])
    BY DEF Inv, TypeOK, BooksBalance
  <2>2. CASE s.pc = "rejected"
    BY <2>1, <2>2 DEF Books, OpeningBooks, Opening
  <2>3. CASE s.pc = "done" /\ s.refunded
    BY <2>1, <2>3 DEF Books, EndBooks
  <2>4. CASE s.pc = "done" /\ s.failed /\ ~s.settled /\ ~s.refunded /\ Source(s) \in {"wallet", "subscription"}
    <3>1. paid[r] = Held(s) /\ keyPaid[r] = Share(r, s.pre) /\ s.pre = 0 /\ Source(s) = "wallet" /\ Balanced(s)
      BY <2>1, <2>4 DEF Books, EndBooks
    <3> QED
      BY <2>4, <3>1 DEF Held, Share, Balanced, Topping
  <2> QED
    BY <2>1, <2>2, <2>3, <2>4 DEF Session
<1> QED
  BY <1>1, BooksAlwaysBalance, PTL
(* No request ever gets back more than it took, at any point of any method. *)
THEOREM RequestsNeverOverRefunded == Spec => []NeverOverRefunded
<1>1. Inv => NeverOverRefunded
  <2> SUFFICES ASSUME Inv, NEW r \in Requests, Accountable(sess[r])
               PROVE  paid[r] >= 0 /\ keyPaid[r] >= 0
    BY DEF NeverOverRefunded
  <2> PICK s : s = sess[r]
    OBVIOUS
  <2>1. s \in Session /\ Books(r, s, paid[r], keyPaid[r]) /\ ~s.lossy
    BY DEF Inv, TypeOK, BooksBalance, Accountable
  <2>2. CASE s.pc \in Opening
    BY <2>1, <2>2 DEF Books, OpeningBooks
  <2>3. CASE s.pc \in Reserving
    <3>1. paid[r] = 0 /\ keyPaid[r] = Share(r, effectiveQuota(s))
      BY <2>1, <2>3 DEF Books, ReservingBooks
    <3>2. effectiveQuota(s) \in Nat
      BY <2>1 DEF effectiveQuota, Asked, Session
    <3> QED
      BY <3>1, <3>2 DEF Share
  <2>4. CASE s.pc \notin Opening \union Reserving
    <3>1. /\ Source(s) \in {"wallet", "requests", "tokens", "subscription"}
          /\ Source(s) = "tokens" => s.consumed = s.pre
          /\ s.consumed \in Int /\ s.pre \in Int /\ s.extraReserved \in Int /\ s.arg \in Int
      BY <2>1, <2>4, SourceType DEF Opening, Accountable, Books, Sources, Pools, Session
    <3>2. CASE s.pc \in {"serve"} \union Topping
      <4>1. /\ Balanced(s) /\ keyPaid[r] = Share(r, s.pre)
            /\ s.pc \in Topping => s.arg > 0
            /\ paid[r] = IF s.pc \in Topping /\ Source(s) = "subscription" THEN Held(s) + s.arg ELSE Held(s)
        BY <2>1, <3>2 DEF Books, ServingBooks
      <4> QED
        BY ONLY <3>1, <4>1 DEF Balanced, Held, Share
    <3>3. CASE s.pc \in {"settleToken", "settlePackage"}
      <4>1. /\ Balanced(s) /\ s.arg >= 0 /\ paid[r] = SettledAmount(s) /\ s.pc \notin Topping
            /\ keyPaid[r] = Share(r, s.pre) \/ keyPaid[r] = Share(r, s.arg)
        BY <2>1, <3>3 DEF Books, SettlingBooks, Topping
      <4> QED
        BY ONLY <3>1, <4>1 DEF Balanced, Held, Share, SettledAmount
    <3>4. CASE s.pc \in Refunding
      <4>1. /\ Balanced(s) /\ paid[r] \in {Held(s), 0, s.extraReserved} /\ keyPaid[r] = Share(r, s.pre)
        BY <2>1, <3>4 DEF Books, RefundingBooks
      <4> QED
        BY ONLY <3>1, <4>1 DEF Balanced, Held, Share
    <3>5. CASE s.pc \in {"finish", "done"}
      <4>1. /\ Balanced(s) /\ s.pc \notin Topping
            /\ \/ s.arg >= 0 /\ paid[r] = SettledAmount(s) /\ keyPaid[r] = Share(r, s.arg)
               \/ paid[r] = 0 /\ keyPaid[r] = 0
               \/ paid[r] = Held(s) /\ keyPaid[r] = Share(r, s.pre)
        BY <2>1, <3>5 DEF Books, EndBooks, Topping
      <4> QED
        BY ONLY <3>1, <4>1 DEF Balanced, Held, Share, SettledAmount
    <3> QED
      BY <2>1, <2>4, <3>2, <3>3, <3>4, <3>5 DEF Session, PCs, Opening, Reserving, Topping, Refunding
  <2> QED
    BY <2>2, <2>3, <2>4
<1> QED
  BY <1>1, BooksAlwaysBalance, PTL

(* What preConsume takes, the pool and the key held at that moment. *)
LEMMA PreConsumeCovered ==
    ASSUME Inv, NEW r \in Requests, preConsume(r)
    PROVE  /\ \A p \in Pools : bal'[p] < bal[p] => bal'[p] >= 0
           /\ key' < key /\ ~Unlimited => key' >= 0
<1> PICK s : s = sess[r]
  OBVIOUS
<1>1. bal \in [Pools -> Int] /\ key \in Int
  BY DEF Inv, TypeOK
<1>2. CASE UNCHANGED money
  BY <1>1, <1>2 DEF money
<1>3. ASSUME NEW p \in Pools, NEW n \in Int, TakePool(r, p, n), n = 0 \/ bal[p] >= n
      PROVE  /\ \A o \in Pools : bal'[o] < bal[o] => bal'[o] >= 0
             /\ key' = key
  BY <1>1, <1>3 DEF TakePool
<1>4. ASSUME NEW n \in Int, TakeKey(r, n), n < 0 \/ Unlimited \/ key >= n
      PROVE  /\ bal' = bal
             /\ key' < key /\ ~Unlimited => key' >= 0
  BY <1>1, <1>4 DEF TakeKey
<1>5. CASE preConsumeToken(r)
  <2>1. s \in Session /\ s.pc = "token"
    BY <1>5, SourceType DEF preConsumeToken
  <2>2. effectiveQuota(s) \in Int
    BY <2>1, SourceType, <1>5 DEF effectiveQuota, Asked, Session, preConsumeToken
  <2> QED
    BY <1>1, <1>2, <1>4, <1>5, <2>2 DEF preConsumeToken, KeyCovers
<1>6. CASE preConsumeFunding(r)
  <2>1. s \in Session /\ Source(s) \in Sources
    BY <1>6, SourceType DEF preConsumeFunding
  <2>2. Wanted(s) \in Int
    <3>1. s.need \in Int /\ DefaultEstimate \in Int
      BY <2>1, NumbersAssumption DEF Session
    <3>2. Asked(s) \in Int
      BY <3>1 DEF Asked
    <3>3. effectiveQuota(s) \in Int
      BY <3>2 DEF effectiveQuota
    <3>4. Source(s) \in {"wallet", "requests", "tokens", "subscription"}
      BY <2>1 DEF Sources, Pools
    <3> QED
      BY ONLY <3>1, <3>2, <3>3, <3>4 DEF Wanted, Max0
  <2>3. CASE TakeSub(r, Wanted(s))
    BY <1>1, <2>3 DEF TakeSub
  <2>4. CASE Source(s) \in Pools /\ TakePool(r, Source(s), Wanted(s)) /\ SourceCovers(s)
    BY <1>1, <1>3, <2>2, <2>4 DEF SourceCovers, Pools
  <2> QED
    BY <1>2, <1>6, <2>1, <2>3, <2>4 DEF preConsumeFunding, Sources
<1>7. CASE fundCurr(r)
  <2>1. s.arg \in Int
    BY <1>7, SourceType DEF fundCurr, Session
  <2> QED
    BY <1>1, <1>2, <1>3, <1>7, <2>1 DEF fundCurr, Pools
<1>8. CASE rollbackToken(r)
  <2>1. s.tokenConsumed \in Int /\ s.tokenConsumed > 0
    BY <1>8, SourceType DEF rollbackToken, Session, Books
  <2> QED
    BY <1>1, <1>2, <1>4, <1>8, <2>1 DEF rollbackToken
<1>9. CASE checkTrust(r) \/ readCurr(r)
  BY <1>2, <1>9 DEF checkTrust, readCurr
<1> QED
  BY <1>5, <1>6, <1>7, <1>8, <1>9 DEF preConsume

(* A reservation never drives a balance or a limited key below zero,        *)
(* whatever has been spent since its session was created.                   *)
THEOREM ReservationsNeverOverdraw == Spec => PreConsumeNeverOverdraws
<1>1. Inv => [\A r \in Requests : preConsume(r) =>
                 /\ \A p \in Pools : bal'[p] < bal[p] => bal'[p] >= 0
                 /\ key' < key /\ ~Unlimited => key' >= 0]_vars
  BY PreConsumeCovered
<1> QED
  BY BooksAlwaysBalance, <1>1, PTL DEF PreConsumeNeverOverdraws
=============================================================================
