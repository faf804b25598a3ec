------------------------------- MODULE Vesting -------------------------------
(***************************************************************************)
(* Vesting shares: powering up, powering down in weekly parts along routes,*)
(* and delegation (create_vesting, withdraw_vesting,                       *)
(* set_withdraw_vesting_route, process_vesting_withdrawals,                *)
(* delegate_vesting_shares and clear_expired_delegations, under the rules  *)
(* since hardfork 20).                                                     *)
(*                                                                         *)
(* Time is left out: a power-down or a returned delegation may fall due    *)
(* with any block, returned delegations in the order they were returned.   *)
(* An iteration of the loops over what is due is a step of its own; that   *)
(* other operations come in between only adds behaviours.  Voting mana     *)
(* may forbid a delegation that the shares allow: an operation that fails  *)
(* is no step.  Rewards and inflation are left out; the witness votes that *)
(* go with the shares are module WitnessVotes'.                            *)
(***************************************************************************)
EXTENDS Integers, Sequences, FiniteSets, FiniteSetsExt

CONSTANTS Accounts,        \* account names, in their order
          Intervals,       \* DELTA_VESTING_WITHDRAW_INTERVALS
          Full,            \* DELTA_100_PERCENT
          MaxRoutes,       \* DELTA_MAX_WITHDRAW_ROUTES
          SharesPerToken,  \* the price of shares before there are any
          MinDelegation,   \* the least delegation
          MinUpdate,       \* and the least change of one
          InitialShares,   \* vesting shares at the start
          InitialFund,     \* and the tokens they stand for
          InitialBalance,  \* liquid tokens
          Percents,        \* percents a route is given
          MaxReturns       \* bound on delegations on their way back

ASSUME VestingAssumption ==
    /\ Accounts \subseteq Nat /\ IsFiniteSet(Accounts)
    /\ {Intervals, Full, SharesPerToken} \subseteq Nat \ {0}
    /\ {MaxRoutes, MinDelegation, MinUpdate, MaxReturns} \subseteq Nat
    /\ InitialShares \in [Accounts -> Nat]
    /\ InitialBalance \in [Accounts -> Nat]
    /\ InitialFund \in Nat
    /\ InitialFund = 0 <=> SumFunction(InitialShares) = 0
    /\ Percents \subseteq 0 .. Full

VARIABLES
    balance,      \* liquid tokens of an account
    shares,       \* vesting_shares
    delegated,    \* delegated_vesting_shares
    received,     \* received_vesting_shares
    down,         \* the power-down: rate, total (to_withdraw), withdrawn, on
    routes,       \* withdraw_vesting_route: percent and auto_vest by origin and target
    delegations,  \* vesting_delegation: shares by delegator and delegatee, None without one
    returns,      \* vesting_delegation_expiration, oldest first
    total,        \* total_vesting_shares
    fund          \* total_vesting_fund_delta

vars == <<balance, shares, delegated, received, down, routes, delegations, returns, total, fund>>

None    == -1
NoRoute == [percent |-> 0, auto |-> FALSE]
NoDown  == [rate |-> 0, total |-> 0, withdrawn |-> 0, on |-> FALSE]

Init ==
    /\ balance = InitialBalance
    /\ shares = InitialShares
    /\ delegated = [a \in Accounts |-> 0]
    /\ received = [a \in Accounts |-> 0]
    /\ down = [a \in Accounts |-> NoDown]
    /\ routes = [a \in Accounts |-> [b \in Accounts |-> NoRoute]]
    /\ delegations = [a \in Accounts |-> [b \in Accounts |-> None]]
    /\ returns = <<>>
    /\ total = SumFunction(InitialShares)
    /\ fund = InitialFund

-----------------------------------------------------------------------------
(* The price of shares: asset times price, rounded down.                   *)

ToShares(tokens, t, f) ==
    IF f = 0 \/ t = 0 THEN tokens * SharesPerToken ELSE (tokens * t) \div f

ToTokens(v, t, f) ==
    IF f = 0 \/ t = 0 THEN v \div SharesPerToken ELSE (v * f) \div t

\* transfer_to_vesting and create_vesting.
TransferToVesting(a, b, tokens) ==
    LET new == ToShares(tokens, total, fund)
    IN  /\ balance[a] >= tokens
        /\ balance' = [balance EXCEPT ![a] = @ - tokens]
        /\ shares' = [shares EXCEPT ![b] = @ + new]
        /\ fund' = fund + tokens
        /\ total' = total + new
        /\ UNCHANGED <<delegated, received, down, routes, delegations, returns>>

-----------------------------------------------------------------------------
(* Powering down.                                                          *)

Rate(v) == IF v \div Intervals = 0 THEN 1 ELSE v \div Intervals

\* withdraw_vesting: zero shares end the power-down, more begin a new one.
WithdrawVesting(a, v) ==
    /\ shares[a] - delegated[a] >= v
    /\ IF v = 0
       THEN down[a].rate # 0 /\ down' = [down EXCEPT ![a] = NoDown]
       ELSE /\ down[a].rate # Rate(v)
            /\ down' = [down EXCEPT ![a] =
                          [rate |-> Rate(v), total |-> v, withdrawn |-> 0, on |-> TRUE]]
    /\ UNCHANGED <<balance, shares, delegated, received, routes, delegations, returns, total, fund>>

Targets(a) == {b \in Accounts : routes[a][b].percent # 0}

\* set_withdraw_vesting_route.  (Setting a route to what it is is no step.)
SetWithdrawVestingRoute(a, b, percent, auto) ==
    LET new == [routes EXCEPT ![a][b] =
                  IF percent = 0 THEN NoRoute ELSE [percent |-> percent, auto |-> auto]]
    IN  /\ new # routes
        /\ b \notin Targets(a) => Cardinality(Targets(a)) < MaxRoutes
        /\ SumFunction([c \in Accounts |-> new[a][c].percent]) <= Full
        /\ routes' = new
        /\ UNCHANGED <<balance, shares, delegated, received, down, delegations, returns, total, fund>>

Remaining(a) == down[a].total - down[a].withdrawn

Lesser(m, n) == IF m < n THEN m ELSE n

\* Slip: the last part is a whole one.
Part_Whole(a) == Lesser(shares[a], down[a].rate)

\* This week's part: the last one is what division by the rate leaves.
Part(a) ==
    IF Remaining(a) < down[a].rate
    THEN Lesser(shares[a], down[a].total % down[a].rate)
    ELSE Lesser(shares[a], down[a].rate)

\* What a target gets of a part.
Deposit(a, b, part) == (part * routes[a][b].percent) \div Full

AutoDeposit(a, b, part) == IF routes[a][b].auto THEN Deposit(a, b, part) ELSE 0

\* A payment in tokens: target b gets v shares' worth of them.  The price is
\* looked up anew for every payment.
Paid(s, b, v) ==
    LET tokens == ToTokens(v, s.total, s.fund)
    IN  [balance |-> [s.balance EXCEPT ![b] = @ + tokens],
         total   |-> s.total - v,
         fund    |-> s.fund - tokens]

\* Slip: shares deposited as shares are forgotten.
Kept_LiquidOnly(a, part) ==
    part - SumFunction([b \in {c \in Accounts : ~routes[a][c].auto} |-> Deposit(a, b, part)])

\* What the routes leave of a part to the account itself.
Kept(a, part) == part - SumFunction([b \in Accounts |-> Deposit(a, b, part)])

\* The routes that pay out in tokens.
Liquid(a) == {b \in Targets(a) : ~routes[a][b].auto}

\* They are paid in the order of names (the last one on top of all others),
\* then the account itself.
Payout(a, part) ==
    LET routed == MapThenFoldSet(LAMBDA b, s : Paid(s, b, Deposit(a, b, part)),
                                 [balance |-> balance, total |-> total, fund |-> fund],
                                 LAMBDA b : b, LAMBDA S : Max(S), Liquid(a))
    IN  Paid(routed, a, Kept(a, part))

\* An iteration of process_vesting_withdrawals.
ProcessVestingWithdrawal(a) ==
    LET part == Part(a)
        paid == Payout(a, part)
        left == shares[a] + AutoDeposit(a, a, part) - part
        done == down[a].withdrawn + part
    IN  /\ down[a].on
        /\ Kept(a, part) >= 0
        /\ shares' = [b \in Accounts |->
               IF b = a THEN left ELSE shares[b] + AutoDeposit(a, b, part)]
        /\ balance' = paid.balance
        /\ total' = paid.total
        /\ fund' = paid.fund
        /\ down' = [down EXCEPT ![a] =
               IF done >= @.total \/ left = 0
               THEN [@ EXCEPT !.withdrawn = done, !.rate = 0, !.on = FALSE]
               ELSE [@ EXCEPT !.withdrawn = done]]
        /\ UNCHANGED <<delegated, received, routes, delegations, returns>>

-----------------------------------------------------------------------------
(* Delegation.                                                             *)

\* Slip: only this week's part of a power-down is kept back.
Available_OneWeek(a) ==
    shares[a] - delegated[a] - (IF down[a].on THEN Lesser(down[a].rate, Remaining(a)) ELSE 0)

\* The shares an account may delegate: not the ones it is powering down.
Available(a) == shares[a] - delegated[a] - (IF down[a].on THEN Remaining(a) ELSE 0)

\* A new delegation, or one that grows.
Delegate(a, b, v) ==
    LET old  == delegations[a][b]
        more == IF old = None THEN v ELSE v - old
    IN  /\ a # b
        /\ IF old = None THEN v >= MinDelegation ELSE v >= old /\ more >= MinUpdate
        /\ Available(a) >= more
        /\ delegations' = [delegations EXCEPT ![a][b] = v]
        /\ delegated' = [delegated EXCEPT ![a] = @ + more]
        /\ received' = [received EXCEPT ![b] = @ + more]
        /\ UNCHANGED <<balance, shares, down, routes, returns, total, fund>>

\* One that shrinks or ends: the shares are on their way back for a time.
Undelegate(a, b, v) ==
    LET old  == delegations[a][b]
        less == old - v
    IN  /\ a # b
        /\ old # None /\ v < old
        /\ Len(returns) < MaxReturns
        /\ v > 0 => less >= MinUpdate /\ v >= MinDelegation
        /\ returns' = Append(returns, [delegator |-> a, shares |-> less])
        /\ received' = [received EXCEPT ![b] = @ - less]
        /\ delegations' = [delegations EXCEPT ![a][b] = IF v > 0 THEN v ELSE None]
        /\ UNCHANGED <<balance, shares, delegated, down, routes, total, fund>>

\* An iteration of clear_expired_delegations.
ClearExpiredDelegation ==
    /\ returns # <<>>
    /\ delegated' = [delegated EXCEPT ![Head(returns).delegator] = @ - Head(returns).shares]
    /\ returns' = Tail(returns)
    /\ UNCHANGED <<balance, shares, received, down, routes, delegations, total, fund>>

Next ==
    \/ \E a, b \in Accounts : \E tokens \in 1 .. balance[a] : TransferToVesting(a, b, tokens)
    \/ \E a \in Accounts : \E v \in 0 .. shares[a] : WithdrawVesting(a, v)
    \/ \E a, b \in Accounts, percent \in Percents, auto \in BOOLEAN :
           SetWithdrawVestingRoute(a, b, percent, auto)
    \/ \E a \in Accounts : ProcessVestingWithdrawal(a)
    \/ \E a, b \in Accounts : \E v \in 0 .. shares[a] : Delegate(a, b, v)
    \/ \E a, b \in Accounts : \E v \in 0 .. shares[a] : Undelegate(a, b, v)
    \/ ClearExpiredDelegation

Spec == Init /\ [][Next]_vars

-----------------------------------------------------------------------------
\* Shares and tokens are conserved (validate_invariants, whose call in
\* apply_block is commented out): the accounts' shares add up to the total and
\* the fund and the balances to the supply, whatever the roundings, and there
\* are shares exactly as long as there are tokens they stand for.
SharesConserved ==
    /\ total = SumFunction(shares)
    /\ fund + SumFunction(balance) = InitialFund + SumFunction(InitialBalance)
    /\ fund = 0 <=> total = 0

\* get_effective_vesting_shares.
Effective(a) ==
    shares[a] + received[a] - delegated[a]
       - (IF down[a].on THEN Lesser(down[a].rate, Remaining(a)) ELSE 0)

Loan(a, b) == IF delegations[a][b] = None THEN 0 ELSE delegations[a][b]

Lent(a) == SumFunction([b \in Accounts |-> Loan(a, b)])

Borrowed(b) == SumFunction([a \in Accounts |-> Loan(a, b)])

OnTheirWay(a) ==
    SumFunction([i \in DOMAIN returns |-> IF returns[i].delegator = a THEN returns[i].shares ELSE 0])

\* A delegator's own shares cover what it has delegated, what is on its way
\* back and what it is still to withdraw, so that a power-down never takes
\* shares that another account votes with and regenerate_mana's assertion
\* max_mana >= 0 never stops a block.
DelegationsBacked ==
    \A a \in Accounts :
        /\ delegated[a] = Lent(a) + OnTheirWay(a)
        /\ received[a] = Borrowed(a)
        /\ shares[a] - delegated[a] >= IF down[a].on THEN Remaining(a) ELSE 0
        /\ Effective(a) >= 0

\* Every weekly part of a power-down brings it further, and together they are
\* what was asked for: none is zero, and the last one is not too much.
PowerDownAdvances ==
    [][\A a \in Accounts : ProcessVestingWithdrawal(a) =>
           /\ down'[a].withdrawn > down[a].withdrawn
           /\ down'[a].withdrawn <= down[a].total
           /\ ~down'[a].on => down'[a].withdrawn = down[a].total]_vars
=============================================================================
