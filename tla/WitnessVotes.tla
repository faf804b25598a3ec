----------------------------- MODULE WitnessVotes -----------------------------
(***************************************************************************)
(* Votes for witnesses and proxies: account_witness_vote,                  *)
(* account_witness_proxy, decline_voting_rights and what every change of   *)
(* vesting shares does to the votes (adjust_proxied_witness_votes).        *)
(*                                                                         *)
(* An account's shares count for the witnesses it votes for, or else for   *)
(* those of its proxy, its proxy's proxy and so on, over MaxDepth proxies  *)
(* and no further.  Every account on the way keeps a tally by distance, so *)
(* that a change need not look at the accounts below it: the tallies are   *)
(* what may go wrong.                                                      *)
(*                                                                         *)
(* Shares change here by any amount; how they do is module Vesting's.  The *)
(* virtual schedule that adjust_witness_vote keeps is module               *)
(* WitnessSchedule's.  When a request to decline falls due is left open.   *)
(* The walk along the proxies in account_witness_proxy reads a copy of an  *)
(* account after its scope has ended; what it reads is a fixed-size name   *)
(* that nothing has overwritten, so it is modelled as a read of the account.*)
(***************************************************************************)
EXTENDS Integers, FiniteSets, FiniteSetsExt

CONSTANTS Accounts,   \* account names
          Witnesses,  \* witnesses
          Self,       \* DELTA_PROXY_TO_SELF_ACCOUNT: no proxy
          MaxDepth,   \* DELTA_MAX_PROXY_RECURSION_DEPTH
          MaxVotes,   \* DELTA_MAX_ACCOUNT_WITNESS_VOTES
          MaxShares,  \* bound on the shares of all accounts
          MaxChange,  \* bound on the shares gained or lost at once
          MaxDecline  \* bound on the accounts that decline at a time

ASSUME VotesAssumption ==
    /\ IsFiniteSet(Accounts) /\ IsFiniteSet(Witnesses)
    /\ Self \notin Accounts
    /\ MaxDepth \in Nat \ {0} /\ {MaxVotes, MaxShares, MaxChange, MaxDecline} \subseteq Nat

VARIABLES
    shares,    \* vesting_shares
    proxy,     \* proxy
    proxied,   \* proxied_vsf_votes: shares that reach an account over i + 1 proxies
    canVote,   \* can_vote
    ballots,   \* witness_vote: the witnesses an account votes for
    requests,  \* decline_voting_rights_request
    votes,     \* votes of a witness
    total      \* total_vesting_shares

vars == <<shares, proxy, proxied, canVote, ballots, requests, votes, total>>

Depths == 0 .. MaxDepth - 1

SumOver(S, f(_)) == FoldSet(LAMBDA x, n : f(x) + n, 0, S)

\* The accounts begin without shares.
Init ==
    /\ shares = [a \in Accounts |-> 0]
    /\ proxy = [a \in Accounts |-> Self]
    /\ proxied = [a \in Accounts |-> [i \in Depths |-> 0]]
    /\ canVote = [a \in Accounts |-> TRUE]
    /\ ballots = [a \in Accounts |-> {}]
    /\ requests = {}
    /\ votes = [w \in Witnesses |-> 0]
    /\ total = 0

-----------------------------------------------------------------------------
(* Following the proxies.                                                  *)

\* Who is reached over i proxies, Self beyond the last one.
Reached(px, a) ==
    LET at[i \in 0 .. MaxDepth] ==
            IF i = 0 THEN a
            ELSE IF at[i - 1] = Self THEN Self ELSE px[at[i - 1]]
    IN  at

\* The tallies and votes that a change touches.
Counts == [proxied |-> proxied, votes |-> votes]

\* adjust_proxied_witness_votes and adjust_witness_votes: delta[0] is a change
\* of a's shares, delta[i + 1] of a's tally i.
AdjustProxiedWitnessVotes(c, px, a, delta) ==
    LET at     == Reached(px, a)
        roots  == {d \in 0 .. MaxDepth : at[d] # Self /\ px[at[d]] = Self}
        sum(d) == SumOver(0 .. MaxDepth - d, LAMBDA i : delta[i])
    IN  [proxied |-> [b \in Accounts |-> [j \in Depths |->
             c.proxied[b][j] + SumOver({d \in 0 .. j : at[d + 1] = b}, LAMBDA d : delta[j - d])]],
         votes   |-> [w \in Witnesses |->
             c.votes[w] + SumOver({d \in roots : w \in ballots[at[d]]}, sum)]]

\* The assertion of adjust_witness_vote.
WithinTotal(c, t) == \A w \in Witnesses : c.votes[w] <= t

OwnShares(n) == [i \in 0 .. MaxDepth |-> IF i = 0 THEN n ELSE 0]

\* All that an account stands for.
Everything(a) == [i \in 0 .. MaxDepth |-> IF i = 0 THEN shares[a] ELSE proxied[a][i - 1]]

Negative(delta) == [i \in 0 .. MaxDepth |-> -delta[i]]

\* witness_vote_weight.
Weight(a) == SumOver(0 .. MaxDepth, LAMBDA i : Everything(a)[i])

SetCounts(c) == proxied' = c.proxied /\ votes' = c.votes

-----------------------------------------------------------------------------
(* Operations.                                                             *)

\* account_witness_vote.
Approve(a, w) ==
    /\ proxy[a] = Self /\ canVote[a]
    /\ w \notin ballots[a]
    /\ Cardinality(ballots[a]) < MaxVotes
    /\ votes[w] + Weight(a) <= total
    /\ ballots' = [ballots EXCEPT ![a] = @ \cup {w}]
    /\ votes' = [votes EXCEPT ![w] = @ + Weight(a)]
    /\ UNCHANGED <<shares, proxy, proxied, canVote, requests, total>>

Unapprove(a, w) ==
    /\ proxy[a] = Self
    /\ w \in ballots[a]
    /\ ballots' = [ballots EXCEPT ![a] = @ \ {w}]
    /\ votes' = [votes EXCEPT ![w] = @ - Weight(a)]
    /\ UNCHANGED <<shares, proxy, proxied, canVote, requests, total>>

\* Slip: the walk counts the accounts it meets and not whether they differ.
ChainFits_AnyLoop(a, b) ==
    LET at == Reached(proxy, b)
        n  == Cardinality({i \in 0 .. MaxDepth : at[i] # Self})
    IN  n = 1 \/ n + 1 <= MaxDepth

\* account_witness_proxy's walk from the new proxy: no account twice, and not
\* too far.  It does not look at the accounts that have a as their proxy.
ChainFits(a, b) ==
    LET at == Reached(proxy, b)
        n  == Cardinality({i \in 0 .. MaxDepth : at[i] # Self})
    IN  \/ n = 1
        \/ /\ n + 1 <= MaxDepth
           /\ Cardinality({a} \cup {at[i] : i \in 0 .. n - 1}) = n + 1

\* account_witness_proxy: the votes are taken from where they are, the ballots
\* dropped, and the votes put where the new proxy takes them.
SetProxy(a, b) ==
    LET px    == [proxy EXCEPT ![a] = b]
        taken == AdjustProxiedWitnessVotes(Counts, proxy, a, Negative(Everything(a)))
        given == AdjustProxiedWitnessVotes(taken, px, a, Everything(a))
    IN  /\ a # b /\ proxy[a] # b
        /\ canVote[a]
        /\ ChainFits(a, b)
        /\ WithinTotal(given, total)
        /\ ballots' = [ballots EXCEPT ![a] = {}]
        /\ proxy' = px
        /\ SetCounts(given)
        /\ UNCHANGED <<shares, canVote, requests, total>>

ClearProxy(a) ==
    /\ proxy[a] # Self
    /\ canVote[a]
    /\ SetCounts(AdjustProxiedWitnessVotes(Counts, proxy, a, Negative(Everything(a))))
    /\ proxy' = [proxy EXCEPT ![a] = Self]
    /\ UNCHANGED <<shares, canVote, ballots, requests, total>>

\* decline_voting_rights: a request, or the end of one.
RequestDecline(a) ==
    /\ a \notin requests
    /\ Cardinality(requests \cup {b \in Accounts : ~canVote[b]}) < MaxDecline
    /\ requests' = requests \cup {a}
    /\ UNCHANGED <<shares, proxy, proxied, canVote, ballots, votes, total>>

CancelDecline(a) ==
    /\ a \in requests
    /\ requests' = requests \ {a}
    /\ UNCHANGED <<shares, proxy, proxied, canVote, ballots, votes, total>>

\* An iteration of process_decline_voting_rights.
Decline(a) ==
    /\ a \in requests
    /\ SetCounts(AdjustProxiedWitnessVotes(Counts, proxy, a, Negative(Everything(a))))
    /\ ballots' = [ballots EXCEPT ![a] = {}]
    /\ canVote' = [canVote EXCEPT ![a] = FALSE]
    /\ proxy' = [proxy EXCEPT ![a] = Self]
    /\ requests' = requests \ {a}
    /\ UNCHANGED <<shares, total>>

\* What create_vesting and claim_reward_balance do: a gains n shares.
GainShares(a, n) ==
    LET c == AdjustProxiedWitnessVotes(Counts, proxy, a, OwnShares(n))
    IN  /\ total + n <= MaxShares
        /\ WithinTotal(c, total + n)
        /\ shares' = [shares EXCEPT ![a] = @ + n]
        /\ total' = total + n
        /\ SetCounts(c)
        /\ UNCHANGED <<proxy, canVote, ballots, requests>>

\* Within process_vesting_withdrawals: the votes after b has gained its part,
\* and after a has lost what it withdraws.
Deposited(b, n)     == AdjustProxiedWitnessVotes(Counts, proxy, b, OwnShares(n))
Withdrawn(a, c, n)  == AdjustProxiedWitnessVotes(c, proxy, a, OwnShares(-n))

\* What process_vesting_withdrawals does: n of a's shares go, of which b gets m
\* as shares before a loses them.
WithdrawShares(a, b, n, m) ==
    LET first == Deposited(b, m)
        last  == Withdrawn(a, first, n)
    IN  /\ m > 0 => WithinTotal(first, total)
        /\ WithinTotal(last, total - (n - m))
        /\ shares' = [[shares EXCEPT ![b] = @ + m] EXCEPT ![a] = @ - n]
        /\ total' = total - (n - m)
        /\ SetCounts(last)
        /\ UNCHANGED <<proxy, canVote, ballots, requests>>

Next ==
    \/ \E a \in Accounts, w \in Witnesses : Approve(a, w)
    \/ \E a \in Accounts, w \in Witnesses : Unapprove(a, w)
    \/ \E a, b \in Accounts : SetProxy(a, b)
    \/ \E a \in Accounts : ClearProxy(a)
    \/ \E a \in Accounts : RequestDecline(a)
    \/ \E a \in Accounts : CancelDecline(a)
    \/ \E a \in Accounts : Decline(a)
    \/ \E a \in Accounts : \E n \in 1 .. MaxChange : GainShares(a, n)
    \/ \E a, b \in Accounts : \E n \in 1 .. Min({shares[a], MaxChange}) : \E m \in 0 .. n :
           WithdrawShares(a, b, n, m)

Spec == Init /\ [][Next]_vars

-----------------------------------------------------------------------------
\* Over how many proxies the shares of a pass b, without any limit.
Distance(a, b) ==
    {i \in 1 .. Cardinality(Accounts) :
        LET at[k \in 0 .. i] == IF k = 0 THEN a
                                ELSE IF at[k - 1] = Self THEN Self ELSE proxy[at[k - 1]]
        IN  at[i] = b}

\* A witness has the shares of exactly the accounts that vote for it, directly
\* or over at most MaxDepth proxies, whatever the order in which proxies were
\* set, cleared and declined and shares were gained and lost.  Shares are
\* counted once, where they vote or where they are lost beyond MaxDepth
\* proxies (validate_invariants compares that sum with the total), and no
\* proxies go round in a circle, which adjust_proxied_witness_votes would
\* follow.
VotesTallied ==
    /\ \A w \in Witnesses : votes[w] =
           SumOver({a \in Accounts :
                       \E b \in Accounts : /\ w \in ballots[b]
                                           /\ a = b \/ Distance(a, b) \cap 1 .. MaxDepth # {}},
                   LAMBDA a : shares[a])
    /\ total = SumOver(Accounts, LAMBDA a :
                   IF proxy[a] = Self THEN Weight(a) ELSE proxied[a][MaxDepth - 1])
    /\ \A a \in Accounts : Distance(a, a) = {}
=============================================================================
