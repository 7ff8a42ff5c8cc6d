-------------------------- MODULE MCBillingSession --------------------------
(* Instances of BillingSession for TLC. *)
EXTENDS BillingSession

CONSTANTS r1, r2, Wallet, RequestCount, Tokens, WalletBlocked, WalletPackage

Pool(w, n, t) == [p \in Pools |-> CASE p = "wallet" -> w [] p = "requests" -> n [] p = "tokens" -> t]

MCInitBalance == Pool(Wallet, RequestCount, Tokens)
MCInitPackage == Pool(WalletPackage, 0, 0)
MCPriorities  == {<<"wallet", "subscription">>}
MCBlocked     == Pool(WalletBlocked, 0, 0)
=============================================================================
