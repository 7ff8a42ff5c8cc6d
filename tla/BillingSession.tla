--------------------------- MODULE BillingSession ---------------------------
(***************************************************************************)
(* The billing session of a relay request: service/billing_session.go and  *)
(* service/funding_source.go.                                              *)
(*                                                                         *)
(* Several requests of one user, all made with the same API token (the     *)
(* "key"), run concurrently.  Each one walks the user's funding sources in *)
(* priority order, reserves an estimate from the key and from the first    *)
(* source that accepts it, may top the reservation up, and ends by a       *)
(* Settle (the real price is known) or by an asynchronous Refund.  The     *)
(* session's mutex serialises the methods of one session only: every       *)
(* database operation below is a step, so steps of different requests      *)
(* interleave between any two of them, and any of them may fail.           *)
(*                                                                         *)
(* Quotas are small numbers; prices, messages and logging are left out.    *)
(***************************************************************************)
EXTENDS Integers, Sequences

CONSTANTS
    Requests,         \* the relay requests
    Quotas,           \* amounts a request may estimate, reserve or really use
    Preferences,      \* the billing preferences a request may carry
    BillingPriorities,\* the explicit priority lists it may carry instead
    Enabled,          \* sources enabled on the site, allowed for the model and
                      \* (subscription) held by the user
    Playground,       \* requests with relayInfo.IsPlayground
    Forced,           \* requests with relayInfo.ForcePreConsume
    Unlimited,        \* relayInfo.TokenUnlimited: the key has no limit
    TrustQuota,       \* common.GetTrustQuota()
    RequestsTrust,    \* 10 in shouldTrust
    DefaultEstimate,  \* 100 in TokensFunding.PreConsume
    MaxAttempts,      \* maxAttempts of refundWithRetry
    SubTotal,         \* AmountTotal of the user's subscription
    Blocked,          \* per pool: restricted packages that refuse this model
    InitBalance,      \* per pool: the user's balance at the start
    InitPackage,      \* per pool: restricted packages that allow this model
    InitKey,          \* the key's remain_quota at the start
    MaxFaults         \* bound: database errors in one behaviour

Pools   == {"wallet", "requests", "tokens"}
Sources == Pools \union {"subscription"}

ASSUME QuotasAssumption == Quotas \subseteq Nat
ASSUME SourcesAssumption ==
    /\ Preferences \subseteq {"subscription_only", "wallet_only", "wallet_first", "subscription_first"}
    /\ BillingPriorities \subseteq Seq(Sources)
    /\ Enabled \subseteq Sources
ASSUME NumbersAssumption ==
    /\ TrustQuota \in Nat /\ RequestsTrust \in Nat
    /\ DefaultEstimate \in Nat \ {0} /\ MaxAttempts \in Nat \ {0}
    /\ SubTotal \in Nat \ {0} /\ MaxFaults \in Nat /\ InitKey \in Nat
ASSUME PoolsAssumption ==
    /\ Blocked \in [Pools -> Nat]
    /\ InitBalance \in [Pools -> Nat]
    /\ InitPackage \in [Pools -> Nat]
ASSUME FlagsAssumption ==
    /\ Playground \subseteq Requests /\ Forced \subseteq Requests
    /\ Unlimited \in BOOLEAN

VARIABLES
    bal,      \* users.quota, users.requests_balance, users.tokens_balance
    pkg,      \* per pool: remaining amount of the packages that allow the model
    key,      \* tokens.remain_quota of the key
    subUsed,  \* user_subscriptions.amount_used
    sess,     \* per request: the session and the method it is executing
    paid,     \* history: what each request has booked against its source so far
    keyPaid,  \* history: what each request has booked against the key so far
    faults    \* database errors so far

vars  == <<bal, pkg, key, subUsed, sess, paid, keyPaid, faults>>
money == <<bal, pkg, key, subUsed, paid, keyPaid>>

PCs == {"idle", "probe", "trust", "token", "fund", "readCurr", "fundCurr", "rollback",
        "serve", "reserveToken", "rollbackReserve", "settleToken", "settlePackage",
        "finish", "refundFunding", "refundRecord", "refundExtra", "refundToken",
        "done", "rejected"}

Session ==
    [pc             : PCs,
     rest           : Seq(Sources), \* activePriority from the source being tried on
     need           : Nat,          \* the preConsumedQuota argument of NewBillingSession
     keyRich        : BOOLEAN,      \* the "token_quota" the auth middleware read is over TrustQuota
     walletRich     : BOOLEAN,      \* relayInfo.UserQuota, read by tryWallet, is over TrustQuota
     available      : Int,          \* modelBalanceAvailable
     limited        : BOOLEAN,      \* hasModelBalanceLimit
     trusted        : BOOLEAN,
     pre            : Int,          \* preConsumedQuota of the session
     tokenConsumed  : Int,
     extraReserved  : Int,
     consumed       : Int,          \* consumed (preConsumed) of the FundingSource
     arg            : Int,          \* local of the running method: target, actual or curr
     fundingSettled : BOOLEAN,
     settled        : BOOLEAN,
     refunded       : BOOLEAN,
     failed         : BOOLEAN,      \* the request ended in an API error
     attempts       : Nat,          \* refundWithRetry
     lossy          : BOOLEAN]      \* a database error was only logged

Idle == [pc |-> "idle", rest |-> <<>>, need |-> 0, keyRich |-> FALSE,
         walletRich |-> FALSE,
         available |-> 0, limited |-> FALSE, trusted |-> FALSE, pre |-> 0,
         tokenConsumed |-> 0, extraReserved |-> 0, consumed |-> 0, arg |-> 0,
         fundingSettled |-> FALSE, settled |-> FALSE, refunded |-> FALSE,
         failed |-> FALSE, attempts |-> 0, lossy |-> FALSE]

Init ==
    /\ bal = InitBalance
    /\ pkg = InitPackage
    /\ key = InitKey
    /\ subUsed = 0
    /\ sess = [r \in Requests |-> Idle]
    /\ paid = [r \in Requests |-> 0]
    /\ keyPaid = [r \in Requests |-> 0]
    /\ faults = 0
-----------------------------------------------------------------------------
(***************************************************************************)
(* Helpers.                                                                *)
(***************************************************************************)
Max0(n) == IF n < 0 THEN 0 ELSE n
Min2(m, n) == IF m < n THEN m ELSE n

Source(s) == Head(s.rest)

Goto(r, s, pc) == sess' = [sess EXCEPT ![r] = [s EXCEPT !.pc = pc]]

(* A database operation fails, within the bound, or does not. *)
Fault   == faults < MaxFaults /\ faults' = faults + 1
NoFault == UNCHANGED faults

(* UPDATE users SET <pool> = <pool> - d, on behalf of request r. *)
TakePool(r, p, d) ==
    /\ bal' = [bal EXCEPT ![p] = @ - d]
    /\ paid' = [paid EXCEPT ![r] = @ + d]
    /\ UNCHANGED <<pkg, key, subUsed, keyPaid>>

(* UPDATE tokens SET remain_quota = remain_quota - d. *)
TakeKey(r, d) ==
    /\ key' = key - d
    /\ keyPaid' = [keyPaid EXCEPT ![r] = @ + d]
    /\ UNCHANGED <<bal, pkg, subUsed, paid>>

(* PostConsumeUserSubscriptionDelta refuses to go over the total and floors at 0. *)
SubFits(d) == Max0(subUsed + d) <= SubTotal
TakeSub(r, d) ==
    /\ SubFits(d)
    /\ subUsed' = Max0(subUsed + d)
    /\ paid' = [paid EXCEPT ![r] = @ + d]
    /\ UNCHANGED <<bal, pkg, key, keyPaid>>

(* The funding source's unconditional adjustment (WalletFunding.Settle, *)
(* SubscriptionFunding.Settle, RequestsFunding.Settle, TokensFunding.Settle; *)
(* reserveFunding and rollbackFundingReserve use the same updates). *)
TakeSource(r, d) ==
    CASE Source(sess[r]) = "requests"     -> UNCHANGED money
      [] Source(sess[r]) = "subscription" -> TakeSub(r, d)
      [] OTHER                            -> TakePool(r, Source(sess[r]), d)

SourceRefuses(r, d) == Source(sess[r]) = "subscription" /\ ~SubFits(d)
-----------------------------------------------------------------------------
(***************************************************************************)
(* NewBillingSession: the priority list and the cascade through it.        *)
(***************************************************************************)
Preferred(pref) ==
    CASE pref = "subscription_only" -> <<"subscription">>
      [] pref = "wallet_only"       -> <<"wallet">>
      [] pref = "wallet_first"      -> <<"wallet", "subscription">>
      [] OTHER                      -> <<"requests", "subscription", "tokens", "wallet">>

(* The first source of a request, or the next one after a refusal: the      *)
(* refused session object is dropped, and the request is rejected when no   *)
(* source is left.                                                          *)
Try(r, s, rest) ==
    Goto(r, [Idle EXCEPT !.rest = rest, !.need = s.need, !.keyRich = s.keyRich,
                         !.lossy = s.lossy],
         IF rest = <<>> THEN "rejected" ELSE "probe")

(* Mutant: a refused source is tried again for ever. *)
MutSameSource(r, s) == Try(r, s, s.rest)

NextSource(r, s) == Try(r, s, Tail(s.rest))

(* The request reaches PreConsumeBilling with an estimate and a preference. *)
Begin(r) ==
    /\ sess[r].pc = "idle"
    /\ \E need \in Quotas, priority \in BillingPriorities \union {Preferred(pref) : pref \in Preferences} :
           Try(r, [Idle EXCEPT !.need = need, !.keyRich = key > TrustQuota], priority)
    /\ NoFault /\ UNCHANGED money

(* UserBalancePackageAvailable: the part of a pool this model may spend. *)
Restricted(p) == pkg[p] + Blocked[p] > 0
UserBalancePackageAvailable(p) ==
    IF bal[p] <= 0 THEN 0 ELSE Max0(bal[p] - pkg[p] - Blocked[p]) + pkg[p]

(* The checks of tryRequests, tryTokens, trySubscription and tryWallet; a    *)
(* source that is not enabled is dropped from activePriority.               *)
Accepts(s) ==
    /\ Source(s) \in Enabled
    /\ CASE Source(s) = "requests"     -> bal["requests"] > 0 /\ UserBalancePackageAvailable("requests") >= 1
         [] Source(s) = "tokens"       -> bal["tokens"] > 0 /\ UserBalancePackageAvailable("tokens") > 0
         [] Source(s) = "wallet"       -> /\ bal["wallet"] > 0
                                          /\ bal["wallet"] - s.need >= 0
                                          /\ s.need <= UserBalancePackageAvailable("wallet")
         [] Source(s) = "subscription" -> TRUE

Probe(r) ==
    LET s == sess[r] IN
    /\ s.pc = "probe"
    /\ UNCHANGED money
    /\ \/ /\ Accepts(s) /\ NoFault
          /\ LET p == Source(s) IN
             Goto(r, IF p = "subscription" THEN s
                     ELSE [s EXCEPT !.available = UserBalancePackageAvailable(p),
                                    !.limited = Restricted(p),
                                    !.walletRich = p = "wallet" /\ bal["wallet"] > TrustQuota],
                  "trust")
       \/ ~Accepts(s) /\ NoFault /\ NextSource(r, s)
       \/ Fault /\ NextSource(r, s)
-----------------------------------------------------------------------------
(***************************************************************************)
(* preConsume: trust, then the key, then the source, with a rollback.      *)
(***************************************************************************)
(* The quota argument of preConsume. *)
Asked(s) ==
    CASE Source(s) = "requests"     -> 1
      [] Source(s) = "subscription" -> IF s.need <= 0 THEN 1 ELSE s.need
      [] OTHER                      -> s.need

effectiveQuota(s) == IF s.trusted THEN 0 ELSE Asked(s)

tokenTrusted(r) == r \notin Forced /\ TrustQuota > 0 /\ (Unlimited \/ sess[r].keyRich)

shouldTrust(r) ==
    LET s == sess[r] IN
    /\ tokenTrusted(r)
    /\ CASE Source(s) = "wallet"   -> s.walletRich
         [] Source(s) = "requests" -> bal["requests"] > RequestsTrust
         [] Source(s) = "tokens"   -> bal["tokens"] > TrustQuota
         [] OTHER                  -> FALSE

(* A balance that shouldTrust cannot read is not trusted. *)
checkTrust(r) ==
    LET s == sess[r] IN
    /\ s.pc = "trust" /\ UNCHANGED money
    /\ \/ NoFault /\ Goto(r, [s EXCEPT !.trusted = shouldTrust(r)], "token")
       \/ /\ tokenTrusted(r) /\ Source(s) \in {"requests", "tokens"}
          /\ Fault /\ Goto(r, [s EXCEPT !.trusted = FALSE], "token")

(* TryReserveTokenQuota: check and deduction are one operation. *)
KeyCovers(q) == Unlimited \/ key >= q

preConsumeToken(r) ==
    /\ sess[r].pc = "token"
    /\ LET s == sess[r]
           q == effectiveQuota(s)
       IN
       \/ /\ q <= 0
          /\ Goto(r, s, "fund") /\ NoFault /\ UNCHANGED money
       \/ /\ q > 0 /\ r \in Playground
          /\ Goto(r, [s EXCEPT !.tokenConsumed = q], "fund") /\ NoFault /\ UNCHANGED money
       \/ /\ q > 0 /\ r \notin Playground /\ KeyCovers(q)
          /\ TakeKey(r, q)
          /\ Goto(r, [s EXCEPT !.tokenConsumed = q], "fund") /\ NoFault
       \/ /\ q > 0 /\ r \notin Playground /\ ~KeyCovers(q)
          /\ NextSource(r, s) /\ NoFault /\ UNCHANGED money
       \/ /\ q > 0 /\ r \notin Playground
          /\ Fault /\ NextSource(r, s) /\ UNCHANGED money

(* Mutant: the key is not given back when the source refuses. *)
MutNoRollback(r, s) == NextSource(r, s)

(* funding.PreConsume returned an error. *)
FundingFailed(r, s) ==
    IF s.tokenConsumed > 0 /\ r \notin Playground
    THEN Goto(r, s, "rollback")
    ELSE NextSource(r, s)

(* Mutant: a trusted session remembers the estimate it did not take. *)
MutTrustedKeepsQuota(r, s, n) ==
    Goto(r, [s EXCEPT !.consumed = n, !.pre = Asked(s), !.arg = 0], "serve")

(* funding.PreConsume took n from the source. *)
FundingTaken(r, s, n) ==
    Goto(r, [s EXCEPT !.consumed = n, !.pre = effectiveQuota(s), !.arg = 0], "serve")

(* What PreConsume of each source tries to take. *)
Wanted(s) ==
    CASE Source(s) = "requests"     -> 1
      [] Source(s) = "subscription" -> Asked(s)
      [] Source(s) = "tokens"       -> IF effectiveQuota(s) <= 0 THEN DefaultEstimate ELSE effectiveQuota(s)
      [] Source(s) = "wallet"       -> Max0(effectiveQuota(s))

(* Mutant: the deduction relies on the check made by tryRequests. *)
MutPoolUnchecked(s) ==
    Source(s) = "subscription" => SubTotal - subUsed >= Wanted(s)

SourceCovers(s) ==
    IF Source(s) = "subscription"
    THEN SubTotal - subUsed >= Wanted(s)
    ELSE Wanted(s) = 0 \/ bal[Source(s)] >= Wanted(s)

preConsumeFunding(r) ==
    LET s == sess[r] IN
    /\ s.pc = "fund"
    /\ \/ /\ SourceCovers(s) /\ NoFault
          /\ IF Source(s) = "subscription" THEN TakeSub(r, Wanted(s))
                                           ELSE TakePool(r, Source(s), Wanted(s))
          /\ FundingTaken(r, s, Wanted(s))
       \/ /\ ~SourceCovers(s) /\ NoFault /\ UNCHANGED money
          /\ IF Source(s) = "tokens" THEN Goto(r, s, "readCurr") ELSE FundingFailed(r, s)
       \/ /\ Fault /\ Wanted(s) > 0 /\ UNCHANGED money
          /\ FundingFailed(r, s)

(* TokensFunding.PreConsume, insufficient: read the balance ... *)
readCurr(r) ==
    LET s == sess[r] IN
    /\ s.pc = "readCurr" /\ UNCHANGED money
    /\ \/ /\ NoFault /\ bal["tokens"] > 0
          /\ Goto(r, [s EXCEPT !.arg = bal["tokens"]], "fundCurr")
       \/ NoFault /\ bal["tokens"] <= 0 /\ FundingFailed(r, s)
       \/ Fault /\ FundingFailed(r, s)

(* ... and try to take all of it, though it may have changed since. *)
fundCurr(r) ==
    LET s == sess[r] IN
    /\ s.pc = "fundCurr"
    /\ \/ /\ bal["tokens"] >= s.arg /\ NoFault
          /\ TakePool(r, "tokens", s.arg)
          /\ FundingTaken(r, s, s.arg)
       \/ /\ bal["tokens"] < s.arg /\ NoFault /\ UNCHANGED money
          /\ FundingFailed(r, s)
       \/ Fault /\ UNCHANGED money /\ FundingFailed(r, s)

(* IncreaseTokenQuota(tokenConsumed) after a refused source. *)
rollbackToken(r) ==
    LET s == sess[r] IN
    /\ s.pc = "rollback"
    /\ \/ NoFault /\ TakeKey(r, -s.tokenConsumed) /\ NextSource(r, s)
       \/ Fault /\ UNCHANGED money /\ NextSource(r, [s EXCEPT !.lossy = TRUE])
-----------------------------------------------------------------------------
(***************************************************************************)
(* Reserve: a larger estimate before the request is sent (tiered billing). *)
(* Its early returns, and the refusal of a target above the restricted     *)
(* balance, change nothing and are left out.                               *)
(***************************************************************************)
(* Mutant: a rolled back top-up stays in funding.consumed. *)
MutConsumedKept(s, d) ==
    IF Source(s) \in {"wallet", "tokens"} /\ d > 0 THEN [s EXCEPT !.consumed = @ + d] ELSE s

(* funding.consumed is kept by WalletFunding and TokensFunding only. *)
AddConsumed(s, d) ==
    IF Source(s) \in {"wallet", "tokens"} THEN [s EXCEPT !.consumed = @ + d] ELSE s

Reserve(r) ==
    LET s == sess[r] IN
    /\ s.pc = "serve" /\ ~s.trusted
    /\ \E target \in Quotas :
         LET d == target - s.pre IN
         /\ d > 0
         /\ ~(s.limited /\ target > s.available)
         /\ \/ /\ NoFault /\ TakeSource(r, d)
               /\ Goto(r, [AddConsumed(s, d) EXCEPT !.arg = d], "reserveToken")
            \/ /\ Source(s) # "requests"
               /\ (SourceRefuses(r, d) /\ NoFault) \/ Fault
               /\ UNCHANGED <<money, sess>>

reserveToken(r) ==
    LET s == sess[r]
        reserved == [s EXCEPT !.pre = @ + s.arg, !.tokenConsumed = @ + s.arg,
                              !.extraReserved = @ + s.arg, !.arg = 0]
    IN
    /\ s.pc = "reserveToken"
    /\ \/ /\ r \in Playground
          /\ Goto(r, reserved, "serve") /\ NoFault /\ UNCHANGED money
       \/ /\ r \notin Playground /\ KeyCovers(s.arg)
          /\ TakeKey(r, s.arg) /\ Goto(r, reserved, "serve") /\ NoFault
       \/ /\ r \notin Playground
          /\ (~KeyCovers(s.arg) /\ NoFault) \/ Fault
          /\ Goto(r, s, "rollbackReserve") /\ UNCHANGED money

rollbackFundingReserve(r) ==
    LET s == sess[r] IN
    /\ s.pc = "rollbackReserve"
    /\ \/ /\ NoFault /\ TakeSource(r, -s.arg)
          /\ Goto(r, [AddConsumed(s, -s.arg) EXCEPT !.arg = 0], "serve")
       \/ /\ Fault /\ Source(s) # "requests" /\ UNCHANGED money
          /\ Goto(r, [s EXCEPT !.lossy = TRUE, !.arg = 0], "serve")
-----------------------------------------------------------------------------
(***************************************************************************)
(* Settle: the source, then the key, then the restricted packages.         *)
(***************************************************************************)
SettleRefused(s, actual) ==
    s.limited /\ Source(s) \in {"wallet", "tokens"} /\ actual > s.available

Settle(r) ==
    LET s == sess[r] IN
    /\ s.pc = "serve"
    /\ \E actual \in Quotas :
         LET d == actual - s.pre
             t == [s EXCEPT !.arg = actual]
         IN
         \/ /\ SettleRefused(s, actual)
            /\ Goto(r, t, "finish") /\ NoFault /\ UNCHANGED money
         \/ /\ ~SettleRefused(s, actual) /\ (d = 0 \/ s.fundingSettled)
            /\ Goto(r, t, "settleToken") /\ NoFault /\ UNCHANGED money
         \/ /\ ~SettleRefused(s, actual) /\ d # 0 /\ ~s.fundingSettled
            /\ NoFault /\ TakeSource(r, d)
            /\ Goto(r, [t EXCEPT !.fundingSettled = TRUE], "settleToken")
         \/ /\ ~SettleRefused(s, actual) /\ d # 0 /\ ~s.fundingSettled
            /\ Source(s) # "requests"
            /\ (SourceRefuses(r, d) /\ NoFault) \/ Fault
            /\ Goto(r, t, "finish") /\ UNCHANGED money

settleToken(r) ==
    LET s == sess[r]
        d == s.arg - s.pre
    IN
    /\ s.pc = "settleToken"
    /\ \/ /\ d = 0 \/ r \in Playground
          /\ Goto(r, s, "settlePackage") /\ NoFault /\ UNCHANGED money
       \/ /\ d # 0 /\ r \notin Playground
          /\ TakeKey(r, d) /\ Goto(r, s, "settlePackage") /\ NoFault
       \/ /\ d # 0 /\ r \notin Playground
          /\ Fault /\ UNCHANGED money
          /\ Goto(r, [s EXCEPT !.lossy = TRUE], "settlePackage")

(* DeductUserBalancePackage; its errors are ignored. *)
Deduction(s) ==
    CASE Source(s) = "subscription" -> 0
      [] Source(s) = "requests"     -> Min2(1, pkg["requests"])
      [] OTHER                      -> Min2(Max0(s.arg), pkg[Source(s)])

settlePackage(r) ==
    LET s == sess[r] IN
    /\ s.pc = "settlePackage"
    /\ Goto(r, [s EXCEPT !.settled = TRUE], "finish")
    /\ UNCHANGED <<bal, key, subUsed, paid, keyPaid>>
    /\ \/ /\ NoFault
          /\ pkg' = [p \in Pools |-> IF p = Source(s) THEN pkg[p] - Deduction(s) ELSE pkg[p]]
       \/ Deduction(s) > 0 /\ Fault /\ UNCHANGED pkg
-----------------------------------------------------------------------------
(***************************************************************************)
(* The end of the request: success, or an API error and Refund, whose body *)
(* runs in a goroutine of its own.                                         *)
(***************************************************************************)
Succeed(r) ==
    /\ sess[r].pc = "finish"
    /\ Goto(r, sess[r], "done") /\ NoFault /\ UNCHANGED money

needsRefundLocked(s) ==
    /\ ~s.settled /\ ~s.refunded /\ ~s.fundingSettled
    /\ s.tokenConsumed > 0 \/ (Source(s) = "subscription" /\ s.consumed > 0)

Refund(r) ==
    LET s == [sess[r] EXCEPT !.failed = TRUE] IN
    /\ s.pc \in {"serve", "finish"}
    /\ IF ~s.settled /\ ~s.refunded /\ needsRefundLocked(s)
       THEN Goto(r, [s EXCEPT !.refunded = TRUE], "refundFunding")
       ELSE Goto(r, s, "done")
    /\ NoFault /\ UNCHANGED money

(* One attempt of refundWithRetry failed. *)
RefundAttemptFailed(r, s) ==
    IF s.attempts + 1 < MaxAttempts
    THEN Goto(r, [s EXCEPT !.attempts = @ + 1], "refundFunding")
    ELSE Goto(r, [s EXCEPT !.attempts = @ + 1, !.lossy = TRUE], "refundExtra")

(* funding.Refund().  RefundSubscriptionPreConsume gives the quota back in a *)
(* transaction of its own, before it saves the record of its request.        *)
refundFunding(r) ==
    LET s == sess[r] IN
    /\ s.pc = "refundFunding"
    /\ \/ /\ s.consumed <= 0
          /\ Goto(r, s, "refundExtra") /\ NoFault /\ UNCHANGED money
       \/ /\ s.consumed > 0 /\ Source(s) # "subscription"
          /\ \/ /\ NoFault /\ TakePool(r, Source(s), -s.consumed)
                /\ Goto(r, s, "refundExtra")
             \/ /\ Fault /\ UNCHANGED money
                /\ Goto(r, [s EXCEPT !.lossy = TRUE], "refundExtra")
       \/ /\ s.consumed > 0 /\ Source(s) = "subscription"
          /\ \/ NoFault /\ TakeSub(r, -s.consumed) /\ Goto(r, s, "refundRecord")
             \/ Fault /\ UNCHANGED money /\ RefundAttemptFailed(r, s)

(* tx.Save(&record) and the commit of the outer transaction. *)
refundRecord(r) ==
    LET s == sess[r] IN
    /\ s.pc = "refundRecord" /\ UNCHANGED money
    /\ \/ NoFault /\ Goto(r, s, "refundExtra")
       \/ Fault /\ RefundAttemptFailed(r, [s EXCEPT !.lossy = TRUE])

refundExtra(r) ==
    LET s == sess[r] IN
    /\ s.pc = "refundExtra"
    /\ \/ /\ s.extraReserved <= 0 \/ Source(s) # "subscription"
          /\ Goto(r, s, "refundToken") /\ NoFault /\ UNCHANGED money
       \/ /\ s.extraReserved > 0 /\ Source(s) = "subscription"
          /\ \/ /\ NoFault /\ TakeSub(r, -s.extraReserved)
                /\ Goto(r, s, "refundToken")
             \/ /\ Fault /\ UNCHANGED money
                /\ Goto(r, [s EXCEPT !.lossy = TRUE], "refundToken")

refundToken(r) ==
    LET s == sess[r] IN
    /\ s.pc = "refundToken"
    /\ \/ /\ s.tokenConsumed <= 0 \/ r \in Playground
          /\ Goto(r, s, "done") /\ NoFault /\ UNCHANGED money
       \/ /\ s.tokenConsumed > 0 /\ r \notin Playground
          /\ \/ NoFault /\ TakeKey(r, -s.tokenConsumed) /\ Goto(r, s, "done")
             \/ Fault /\ UNCHANGED money /\ Goto(r, [s EXCEPT !.lossy = TRUE], "done")
-----------------------------------------------------------------------------
preConsume(r) == \/ checkTrust(r) \/ preConsumeToken(r) \/ preConsumeFunding(r)
                 \/ readCurr(r) \/ fundCurr(r) \/ rollbackToken(r)

Step(r) == \/ Begin(r) \/ Probe(r) \/ preConsume(r)
           \/ reserveToken(r) \/ rollbackFundingReserve(r)
           \/ settleToken(r) \/ settlePackage(r) \/ Succeed(r)
           \/ refundFunding(r) \/ refundRecord(r) \/ refundExtra(r) \/ refundToken(r)

Next == \E r \in Requests : Step(r) \/ Reserve(r) \/ Settle(r) \/ Refund(r)

(* A running method always takes its next step, and the relay loop, which     *)
(* tries each channel and each fallback model once, leaves "serve" in the end.*)
Fairness == \A r \in Requests : WF_vars(Step(r)) /\ SF_vars(Settle(r) \/ Refund(r))

Spec == Init /\ [][Next]_vars /\ Fairness
-----------------------------------------------------------------------------
(***************************************************************************)
(* Properties.                                                             *)
(***************************************************************************)
(* The variables keep their types: balances and the key may go negative    *)
(* (post-paid top-ups), the subscription and the packages may not.         *)
TypeOK ==
    /\ bal \in [Pools -> Int]
    /\ pkg \in [Pools -> Nat]
    /\ key \in Int
    /\ subUsed \in Nat
    /\ sess \in [Requests -> Session]
    /\ paid \in [Requests -> Int]
    /\ keyPaid \in [Requests -> Int]
    /\ faults \in 0..MaxFaults

(* The tokens source may hold another amount than the session believes (see *)
(* PreConsumedIsActual): the exact accounting below leaves such sessions    *)
(* out, as it does the ones a database error was only logged for.           *)
Accountable(s) ==
    /\ ~s.lossy
    /\ s.rest # <<>> /\ Source(s) = "tokens" => s.consumed = s.pre

(* A request that was settled has paid its real price, exactly once, to its *)
(* source and to its key, whatever the other requests did in between: the   *)
(* estimate, the top-ups and the settlement delta of Settle add up.         *)
SettledExactly ==
    \A r \in Requests : LET s == sess[r] IN
        s.pc = "done" /\ s.settled /\ Accountable(s) =>
            /\ paid[r] = IF Source(s) = "requests" THEN 1 ELSE s.arg
            /\ keyPaid[r] = IF r \in Playground THEN 0 ELSE s.arg

(* A request that ended without being served pays nothing: every source was *)
(* refused and each key reservation rolled back (preConsume), or Refund has *)
(* returned the estimate and the top-ups to source and key.                 *)
FailedPaysNothing ==
    \A r \in Requests : LET s == sess[r] IN
        /\ ~s.lossy
        /\ \/ s.pc = "rejected"
           \/ s.pc = "done" /\ s.refunded
           \/ s.pc = "done" /\ s.failed /\ ~s.settled /\ Source(s) \in {"wallet", "subscription"}
        => paid[r] = 0 /\ keyPaid[r] = 0

(* No path of retries, rollbacks, refunds and settlements gives a request   *)
(* back more than it took.                                                  *)
NeverOverRefunded ==
    \A r \in Requests : Accountable(sess[r]) => paid[r] >= 0 /\ keyPaid[r] >= 0

(* The request count and the subscription are never overdrawn: their check  *)
(* and their deduction are one operation (TryReserveUserRequests,           *)
(* PreConsumeUserSubscription, PostConsumeUserSubscriptionDelta).           *)
NeverOverdrawn ==
    /\ bal["requests"] >= 0
    /\ subUsed <= SubTotal

(* A reservation, unlike a settlement or a top-up, never drives a balance   *)
(* or a limited key below zero, although the balances its session was       *)
(* created from may have been spent by another request since.               *)
PreConsumeNeverOverdraws ==
    [][\A r \in Requests : preConsume(r) =>
          /\ \A p \in Pools : bal'[p] < bal[p] => bal'[p] >= 0
          /\ key' < key /\ ~Unlimited => key' >= 0]_vars

(* billing_session.go says of preConsumedQuota that it is the quota really  *)
(* reserved: what a serving session believes is what its source holds.      *)
(* False for the tokens source.                                             *)
PreConsumedIsActual ==
    \A r \in Requests : LET s == sess[r] IN
        s.pc = "serve" /\ ~s.lossy /\ Source(s) \in {"wallet", "tokens", "subscription"}
            => paid[r] = s.pre

(* billing_session.go says that Refund returns every reservation: a request *)
(* that failed and was not settled pays nothing.  False for a trusted       *)
(* session on the requests source.                                          *)
RefundReturnsEverything ==
    \A r \in Requests : LET s == sess[r] IN
        s.pc = "done" /\ s.failed /\ ~s.settled /\ ~s.lossy => paid[r] = 0

(* model/subscription.go says that RefundSubscriptionPreConsume is          *)
(* idempotent: however often it is retried, a request gets back what it     *)
(* took and no more.  False when saving the record fails.                   *)
SubscriptionRefundIdempotent ==
    \A r \in Requests :
        sess[r].rest # <<>> /\ Source(sess[r]) = "subscription" => paid[r] >= 0

(* Every request that entered billing leaves it: it is rejected, settled or *)
(* refunded, and its refund goroutine ends.                                 *)
EveryRequestEnds ==
    \A r \in Requests : sess[r].pc # "idle" ~> sess[r].pc \in {"done", "rejected"}
-----------------------------------------------------------------------------
(***************************************************************************)
(* The inductive invariant: at every point of every method, what a request *)
(* has booked against its source (p) and its key (k) is what the fields of *)
(* its session account for.                                                *)
(***************************************************************************)
(* What the funding source and the session together remember as taken. *)
Held(s) == IF Source(s) = "subscription" THEN s.consumed + s.extraReserved ELSE s.consumed

Share(r, n) == IF r \in Playground THEN 0 ELSE n

Opening   == {"idle", "probe", "trust", "token", "rejected"}
Reserving == {"fund", "readCurr", "fundCurr", "rollback"}
Topping   == {"reserveToken", "rollbackReserve"}
Refunding == {"refundFunding", "refundRecord", "refundExtra", "refundToken"}

(* Nothing is remembered before funding.PreConsume has succeeded. *)
Blank(s) ==
    /\ s.pre = 0 /\ s.consumed = 0 /\ s.extraReserved = 0
    /\ ~s.fundingSettled /\ ~s.settled /\ ~s.refunded /\ ~s.failed

(* How the amounts of an open session relate. *)
Balanced(s) ==
    /\ s.pre >= 0 /\ s.consumed >= 0 /\ s.extraReserved >= 0
    /\ s.tokenConsumed = s.pre
    /\ Source(s) = "wallet" => s.consumed = IF s.pc \in Topping THEN s.pre + s.arg ELSE s.pre
    /\ Source(s) = "subscription" => s.consumed >= 1 /\ s.consumed + s.extraReserved = s.pre
    /\ Source(s) = "requests" => s.consumed = 1

OpeningBooks(s, p, k) ==
    s.pc \in Opening =>
        /\ p = 0 /\ k = 0 /\ Blank(s) /\ s.tokenConsumed = 0
        /\ s.pc = "token" /\ Source(s) = "subscription" => ~s.trusted

ReservingBooks(r, s, p, k) ==
    s.pc \in Reserving =>
        /\ p = 0 /\ k = Share(r, s.tokenConsumed) /\ Blank(s)
        /\ s.tokenConsumed = effectiveQuota(s)
        /\ Source(s) = "subscription" => ~s.trusted
        /\ s.pc = "rollback" => r \notin Playground
        /\ s.pc \in {"readCurr", "fundCurr"} => Source(s) = "tokens"
        /\ s.pc = "fundCurr" => s.arg > 0

ServingBooks(r, s, p, k) ==
    s.pc \in {"serve"} \union Topping =>
        /\ Balanced(s) /\ ~s.fundingSettled /\ ~s.settled /\ ~s.refunded /\ ~s.failed
        /\ s.pc \in Topping => s.arg > 0 /\ (Source(s) = "tokens" => s.consumed >= s.arg)
        /\ p = IF s.pc \in Topping /\ Source(s) = "subscription" THEN Held(s) + s.arg ELSE Held(s)
        /\ k = Share(r, s.pre)

(* What a settled request has booked against its source. *)
SettledAmount(s) == IF Source(s) = "requests" THEN 1 ELSE Held(s) + s.arg - s.pre

SettlingBooks(r, s, p, k) ==
    s.pc \in {"settleToken", "settlePackage"} =>
        /\ Balanced(s) /\ ~s.settled /\ ~s.refunded /\ ~s.failed /\ s.arg >= 0
        /\ p = SettledAmount(s)
        /\ k = Share(r, IF s.pc = "settleToken" THEN s.pre ELSE s.arg)

RefundingBooks(r, s, p, k) ==
    s.pc \in Refunding =>
        /\ Balanced(s) /\ ~s.settled /\ s.refunded /\ s.failed
        /\ s.pc = "refundRecord" => Source(s) = "subscription"
        /\ p = CASE s.pc = "refundFunding" -> Held(s)
                 [] s.pc = "refundToken"   -> 0
                 [] OTHER -> IF Source(s) = "subscription" THEN s.extraReserved ELSE 0
        /\ k = Share(r, s.pre)

EndBooks(r, s, p, k) ==
    s.pc \in {"finish", "done"} =>
        /\ Balanced(s)
        /\ s.settled => ~s.refunded
        /\ s.pc = "finish" => ~s.refunded /\ ~s.failed
        /\ s.settled => s.arg >= 0 /\ p = SettledAmount(s) /\ k = Share(r, s.arg)
        /\ s.refunded => p = 0 /\ k = 0
        /\ ~s.settled /\ ~s.refunded => p = Held(s) /\ k = Share(r, s.pre)
        /\ ~s.settled /\ ~s.refunded /\ s.pc = "finish" => ~s.fundingSettled
        /\ ~s.settled /\ ~s.refunded /\ s.failed => s.pre = 0 /\ Source(s) # "subscription"

Books(r, s, p, k) ==
    /\ s.pc = "idle" => ~s.lossy
    /\ s.pc \notin {"idle", "rejected"} => s.rest # <<>>
    /\ s.pc = "rollback" => s.tokenConsumed > 0
    /\ ~s.lossy => /\ OpeningBooks(s, p, k) /\ ReservingBooks(r, s, p, k)
                   /\ ServingBooks(r, s, p, k) /\ SettlingBooks(r, s, p, k)
                   /\ RefundingBooks(r, s, p, k) /\ EndBooks(r, s, p, k)

BooksBalance == \A r \in Requests : Books(r, sess[r], paid[r], keyPaid[r])
=============================================================================
