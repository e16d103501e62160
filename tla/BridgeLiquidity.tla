--------------------------- MODULE BridgeLiquidity ---------------------------
(***************************************************************************)
(* bridge: one liquidity pool of two wrapped assets (liquidity.rs) behind  *)
(* the entry points of lib.rs: deposits for shares, withdrawals to         *)
(* approved recipients, swaps, the pause of trading by the operator.       *)
(***************************************************************************)
EXTENDS Integers, FiniteSets, FiniteSetsExt, TLC

CONSTANTS Providers, Others,       \* Others: recipients without a position
          Amounts, PoolTypes, FeeBps, RewardBps,
          MaxReserve               \* bound on each reserve

LiquidityTyped ==
    /\ Amounts \subseteq Nat \ {0} /\ PoolTypes \subseteq {"ConstantProduct", "StableSwap"}
    /\ {FeeBps, RewardBps} \subseteq 0..10000 /\ MaxReserve \in Nat

VARIABLES
    kind,                \* pool_type
    reserve,             \* of asset "a" and of asset "b"
    totalLp,             \* total_lp_tokens
    lp, rewards,         \* LiquidityPosition of each provider
    paused,              \* trading_paused
    approved,            \* WithdrawalApproval: <<provider, recipient>>
    operator             \* PoolOperator: "admin" until one is set

position == <<lp, rewards>>
vars == <<kind, reserve, totalLp, position, paused, approved, operator>>

Assets == {"a", "b"}
Other(x) == IF x = "a" THEN "b" ELSE "a"
Callers == Providers \cup Others \cup {"admin"}

TypeOK ==
    /\ kind \in PoolTypes /\ reserve \in [Assets -> Nat] /\ totalLp \in Nat
    /\ lp \in [Providers -> Nat] /\ rewards \in [Providers -> Nat] /\ paused \in BOOLEAN
    /\ approved \subseteq Providers \X (Providers \cup Others) /\ operator \in Callers

create_pool == kind \in PoolTypes /\ reserve = [x \in Assets |-> 0] /\ totalLp = 0 /\ paused = FALSE
Init ==
    /\ create_pool
    /\ lp = [p \in Providers |-> 0] /\ rewards = [p \in Providers |-> 0]
    /\ approved = {} /\ operator = "admin"

(* The first value of Newton's iteration that does not decrease. *)
integer_sqrt(n) ==
    LET newton[x \in Nat] == LET next == (x + n \div x) \div 2
                             IN IF next < x THEN newton[next] ELSE x
    IN IF n <= 0 THEN 0 ELSE newton[n + 1]

BestSide(r, total, da, db) ==
    IF total = 0 THEN integer_sqrt(da * db)
    ELSE Max({(da * total) \div r["a"], (db * total) \div r["b"]})
(* The shares for a deposit, as the scarcer side of it is worth; a deposit *)
(* worth none, or into a pool with one empty side, is refused.             *)
compute_mint_shares(r, total, da, db) ==
    IF total = 0 THEN integer_sqrt(da * db)
    ELSE Min({(da * total) \div r["a"], (db * total) \div r["b"]})
Depositable(r, total) == total > 0 => r["a"] > 0 /\ r["b"] > 0
validate_pool_invariants(r, total) ==
    /\ r["a"] >= 0 /\ r["b"] >= 0 /\ total >= 0
    /\ (r["a"] = 0 /\ r["b"] = 0) = (total = 0)
add_liquidity(p, da, db) ==
    /\ Depositable(reserve, totalLp)
    /\ LET minted == compute_mint_shares(reserve, totalLp, da, db)
       IN /\ minted > 0
          /\ reserve' = ("a" :> reserve["a"] + da @@ "b" :> reserve["b"] + db)
          /\ totalLp' = totalLp + minted
          /\ lp' = [lp EXCEPT ![p] = @ + minted]
          /\ rewards' = [rewards EXCEPT ![p] = @ + ((da + db) * RewardBps) \div 10000]
    /\ \A x \in Assets : reserve'[x] <= MaxReserve
    /\ validate_pool_invariants(reserve', totalLp')
    /\ UNCHANGED <<kind, paused, approved, operator>>

Share(r, total, n, x) == (r[x] * n) \div total
is_approved_recipient(p, to) == to = p \/ <<p, to>> \in approved
BurnAfterwards(p, to, n) ==
    /\ is_approved_recipient(p, to)
    /\ lp[p] >= n
    /\ totalLp' = totalLp - n
    /\ lp' = [lp EXCEPT ![p] = @ - n]
    /\ rewards' = [rewards EXCEPT ![p] = @ - (rewards[p] * n) \div lp[p]]
    /\ reserve' = [x \in Assets |-> Max({reserve[x] - (reserve[x] * n) \div Max({totalLp - n, 1}), 0})]
    /\ UNCHANGED <<kind, paused, approved, operator>>
remove_liquidity(p, to, n) ==
    /\ is_approved_recipient(p, to)
    /\ lp[p] >= n
    /\ totalLp' = totalLp - n
    /\ lp' = [lp EXCEPT ![p] = @ - n]
    /\ rewards' = [rewards EXCEPT ![p] = @ - (rewards[p] * n) \div lp[p]]
    /\ reserve' = [x \in Assets |-> reserve[x] - Share(reserve, totalLp, n, x)]
    /\ validate_pool_invariants(reserve', totalLp')
    /\ UNCHANGED <<kind, paused, approved, operator>>

quote_swap(type, in, r, x) ==
    IF type = "ConstantProduct" THEN (in * r[Other(x)]) \div (r[x] + in)
    ELSE Min({in, r[Other(x)]})
QuotedBeforeFee(x, in, min) ==
    LET kept == in - (in * FeeBps) \div 10000
        out == quote_swap(kind, in, reserve, x)
    IN /\ ~paused
       /\ reserve["a"] > 0 /\ reserve["b"] > 0
       /\ out >= min /\ out > 0
       /\ reserve' = (x :> reserve[x] + kept @@ Other(x) :> reserve[Other(x)] - out)
       /\ reserve'[x] <= MaxReserve
       /\ validate_pool_invariants(reserve', totalLp)
       /\ UNCHANGED <<kind, totalLp, position, paused, approved, operator>>
(* The fee stays out of the reserves. *)
swap(x, in, min) ==
    LET kept == in - (in * FeeBps) \div 10000
        out == quote_swap(kind, kept, reserve, x)
    IN /\ ~paused
       /\ reserve["a"] > 0 /\ reserve["b"] > 0
       /\ out >= min /\ out > 0
       /\ reserve' = (x :> reserve[x] + kept @@ Other(x) :> reserve[Other(x)] - out)
       /\ reserve'[x] <= MaxReserve
       /\ validate_pool_invariants(reserve', totalLp)
       /\ UNCHANGED <<kind, totalLp, position, paused, approved, operator>>

require_pool_operator(caller) == caller = operator
pause_pool_trading(caller) ==
    /\ require_pool_operator(caller)
    /\ paused' = TRUE /\ UNCHANGED <<kind, reserve, totalLp, position, approved, operator>>
resume_pool_trading(caller) ==
    /\ require_pool_operator(caller)
    /\ paused' = FALSE /\ UNCHANGED <<kind, reserve, totalLp, position, approved, operator>>
set_pool_operator(o) ==
    /\ operator' = o /\ UNCHANGED <<kind, reserve, totalLp, position, approved, paused>>
approve_withdrawal_recipient(p, to) ==
    /\ approved' = approved \cup {<<p, to>>}
    /\ UNCHANGED <<kind, reserve, totalLp, position, paused, operator>>
revoke_withdrawal_recipient(p, to) ==
    /\ approved' = approved \ {<<p, to>>}
    /\ UNCHANGED <<kind, reserve, totalLp, position, paused, operator>>

RecipientCalls(p) == \E to \in Others : approve_withdrawal_recipient(p, to) \/ revoke_withdrawal_recipient(p, to)
TradingCalls == \E c \in Callers : pause_pool_trading(c) \/ resume_pool_trading(c)

PoolCalls ==
    \/ \E p \in Providers :
         \/ \E da, db \in Amounts : add_liquidity(p, da, db)
         \/ \E to \in {p} \cup Others : \E n \in 1..lp[p] : remove_liquidity(p, to, n)
         \/ RecipientCalls(p)
    \/ \E x \in Assets, in \in Amounts : swap(x, in, 1)
OperatorCalls ==
    \/ TradingCalls
    \/ \E o \in Others : set_pool_operator(o)
Next == PoolCalls \/ OperatorCalls
Spec == Init /\ [][Next]_vars
Perms == Permutations(Providers)

-----------------------------------------------------------------------------
(* The shares of the providers are the pool's supply; a pool with shares   *)
(* of a constant-product pool has both assets behind them.                 *)
SharesBacked ==
    /\ totalLp = MapThenSumSet(LAMBDA p : lp[p], Providers)
    /\ kind = "ConstantProduct" /\ totalLp > 0 => reserve["a"] > 0 /\ reserve["b"] > 0

(* No call of anyone takes value from the shares others hold: per share,   *)
(* the product of the reserves of a constant-product pool and the sum of   *)
(* those of a stable pool never decrease, whatever is rounded on the way.  *)
ShareValueKept ==
    totalLp > 0 /\ totalLp' > 0 =>
       IF kind = "ConstantProduct"
       THEN reserve'["a"] * reserve'["b"] * totalLp * totalLp
              >= reserve["a"] * reserve["b"] * totalLp' * totalLp'
       ELSE (reserve'["a"] + reserve'["b"]) * totalLp
              >= (reserve["a"] + reserve["b"]) * totalLp'

(* Depositing and withdrawing at once returns no more of either asset than *)
(* was put in, in every state the pool can reach.                          *)
RoundTripNoGain ==
    totalLp > 0 /\ Depositable(reserve, totalLp) =>
        \A da, db \in Amounts :
            LET minted == compute_mint_shares(reserve, totalLp, da, db)
                after == "a" :> reserve["a"] + da @@ "b" :> reserve["b"] + db
            IN minted > 0 => /\ Share(after, totalLp + minted, minted, "a") <= da
                             /\ Share(after, totalLp + minted, minted, "b") <= db
=============================================================================
