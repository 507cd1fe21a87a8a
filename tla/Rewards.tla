------------------------------- MODULE Rewards -------------------------------
(***************************************************************************)
(* BattlePassService (src/modules/battle-pass/battle-pass.service.ts) and  *)
(* CosmeticsService.buy (src/modules/cosmetics/cosmetics.service.ts): what *)
(* one operator earns with a season's levels and buys with its wallet,     *)
(* during one season.  Checks are made on rows read before the transaction *)
(* that acts on them, and a purchase is paid in one transaction and        *)
(* granted in the next.                                                    *)
(***************************************************************************)
EXTENDS Integers, SequencesExt, FiniteSetsExt

CONSTANTS
    Calls,          \* identities of calls; each is made at most once
    Levels,         \* levels a client may ask the reward of, any integer
    RewardsOf,      \* RewardsOf[l]: the battle_pass_rewards rows of level l
    Cosmetics,
    Available,      \* cosmetics whose available column lets them be bought
    Price,          \* Price[c]: price_cents of a cosmetic
    PremiumPrice,   \* premium_cents of the season
    XpGrants,       \* amounts addXp is called with
    MaxXp,          \* bound on the experience collected
    InitialBalance,
    NoCosmetic      \* a reward without a cosmetic

Rewards == [premiumOnly : BOOLEAN, cosmetic : Cosmetics \cup {NoCosmetic}, bonus : Nat]

ASSUME RewardsConstants ==
    /\ IsFiniteSet(Calls)
    /\ Levels \subseteq Int
    /\ \A l \in Levels : RewardsOf[l] \subseteq Rewards /\ IsFiniteSet(RewardsOf[l])
    /\ Available \subseteq Cosmetics
    /\ Price \in [Cosmetics -> Nat]
    /\ PremiumPrice \in Nat
    /\ XpGrants \subseteq Nat \ {0}
    /\ MaxXp \in Nat
    /\ InitialBalance \in Nat
    /\ NoCosmetic \notin Cosmetics

VARIABLES
    balance,    \* the operator's wallet
    progress,   \* whether the user_battle_passes row exists
    premium,    \* is_premium
    xp,         \* current_xp
    claimed,    \* claimed_levels, in the order pushed
    owned,      \* cosmetics with a user_cosmetics row
    phase,      \* progress of each call
    call,       \* what it asks for
    saw,        \* saw[c]: is_premium as claim read it
    charged,    \* history: calls whose debit was committed
    overlapped  \* history: goods two calls were past their check for at once

passVars == <<progress, premium, xp, claimed>>
vars == <<balance, passVars, owned, phase, call, saw, charged, overlapped>>

\* A call names its goods: a level, a cosmetic or the premium pass.
Goods == [kind : {"claim"}, level : Levels]
            \cup [kind : {"buy"}, cosmetic : Cosmetics]
            \cup [kind : {"premium"}]
NoGoods == [kind |-> "none"]

Phases == {"new", "reading", "applying", "checking", "spending", "granting",
           "done", "rejected", "failed", "crashed"}

Init ==
    /\ balance = InitialBalance
    /\ progress = FALSE
    /\ premium = FALSE
    /\ xp = 0
    /\ claimed = <<>>
    /\ owned = {}
    /\ phase = [c \in Calls |-> "new"]
    /\ call = [c \in Calls |-> NoGoods]
    /\ saw = [c \in Calls |-> FALSE]
    /\ charged = {}
    /\ overlapped = {}

XpToLevel(n) == n \div 1000 + 1

-----------------------------------------------------------------------------

\* Upserts of the progress row, by getMyProgress and addXp.
GetMyProgress ==
    /\ progress' = TRUE
    /\ UNCHANGED <<balance, premium, xp, claimed, owned, phase, call, saw, charged, overlapped>>

AddXp(n) ==
    /\ xp + n <= MaxXp
    /\ xp' = xp + n
    /\ progress' = TRUE
    /\ UNCHANGED <<balance, premium, claimed, owned, phase, call, saw, charged, overlapped>>

Arrive(c) ==
    /\ phase[c] = "new"
    /\ phase' = [phase EXCEPT ![c] = "reading"]
    /\ \E g \in Goods : call' = [call EXCEPT ![c] = g]
    /\ UNCHANGED <<balance, passVars, owned, saw, charged, overlapped>>

\* Calls between their check and their last write.
Decided == {c \in Calls : phase[c] \in {"applying", "checking", "spending", "granting"}}

\* A check that was passed, or not.
Decide(c, ok, p) ==
    /\ phase' = [phase EXCEPT ![c] = IF ok THEN p ELSE "rejected"]
    /\ overlapped' = IF ok /\ \E d \in Decided \ {c} : call[d] = call[c]
                     THEN overlapped \cup {call[c]} ELSE overlapped
    /\ UNCHANGED <<balance, passVars, owned, call, charged>>

\* Mutant of ReadProgress: claimed levels are not looked at.
ReadProgressOnly(c) ==
    /\ phase[c] = "reading"
    /\ call[c].kind = "claim"
    /\ Decide(c, progress /\ XpToLevel(xp) >= call[c].level, "applying")
    /\ saw' = [saw EXCEPT ![c] = premium]

\* claim: the row must exist, the level be reached and not claimed.
ReadProgress(c) ==
    /\ phase[c] = "reading"
    /\ call[c].kind = "claim"
    /\ Decide(c, /\ progress
                 /\ XpToLevel(xp) >= call[c].level
                 /\ call[c].level \notin ToSet(claimed), "applying")
    /\ saw' = [saw EXCEPT ![c] = premium]

\* The rewards of the level that the operator gets.
Due(c) == {r \in RewardsOf[call[c].level] : r.premiumOnly => saw[c]}

\* What they pay into the wallet.
Bonus(c) == SumFunction([r \in Due(c) |-> r.bonus])

\* The claiming transaction: cosmetics, wallet bonus, and the level pushed onto
\* whatever the array holds by now.
ApplyRewards(c) ==
    /\ phase[c] = "applying"
    /\ owned' = owned \cup ({r.cosmetic : r \in Due(c)} \ {NoCosmetic})
    /\ balance' = balance + Bonus(c)
    /\ claimed' = Append(claimed, call[c].level)
    /\ phase' = [phase EXCEPT ![c] = "done"]
    /\ UNCHANGED <<progress, premium, xp, call, saw, charged, overlapped>>

\* buyPremium compares the price with a balance read before debit() reads it
\* again; it does not ask whether the pass is premium already.
ReadForPremium(c) ==
    /\ phase[c] = "reading"
    /\ call[c].kind = "premium"
    /\ Decide(c, balance >= PremiumPrice, "checking")
    /\ UNCHANGED saw

\* Mutant of ReadForPurchase: what is owned can be bought.
ReadPriceOnly(c) ==
    /\ phase[c] = "reading"
    /\ call[c].kind = "buy"
    /\ Decide(c, call[c].cosmetic \in Available,
              IF Price[call[c].cosmetic] > 0 THEN "checking" ELSE "granting")
    /\ UNCHANGED saw

\* buy: available and not owned yet; what is free is not debited.
ReadForPurchase(c) ==
    /\ phase[c] = "reading"
    /\ call[c].kind = "buy"
    /\ Decide(c, call[c].cosmetic \in Available \ owned,
              IF Price[call[c].cosmetic] > 0 THEN "checking" ELSE "granting")
    /\ UNCHANGED saw

Cost(c) == IF call[c].kind = "premium" THEN PremiumPrice ELSE Price[call[c].cosmetic]

\* debit: check, then decrement and write the ledger line.
CheckBalance(c) ==
    /\ phase[c] = "checking"
    /\ phase' = [phase EXCEPT ![c] = IF balance < Cost(c) THEN "rejected" ELSE "spending"]
    /\ UNCHANGED <<balance, passVars, owned, call, saw, charged, overlapped>>

\* Mutant of Spend: the debit is the end of it.
SpendOnly(c) ==
    /\ phase[c] = "spending"
    /\ balance' = balance - Cost(c)
    /\ charged' = charged \cup {c}
    /\ phase' = [phase EXCEPT ![c] = "done"]
    /\ UNCHANGED <<passVars, owned, call, saw, overlapped>>

Spend(c) ==
    /\ phase[c] = "spending"
    /\ balance' = balance - Cost(c)
    /\ charged' = charged \cup {c}
    /\ phase' = [phase EXCEPT ![c] = "granting"]
    /\ UNCHANGED <<passVars, owned, call, saw, overlapped>>

\* grantPremium is an upsert.
GrantPremium(c) ==
    /\ phase[c] = "granting"
    /\ call[c].kind = "premium"
    /\ progress' = TRUE
    /\ premium' = TRUE
    /\ phase' = [phase EXCEPT ![c] = "done"]
    /\ UNCHANGED <<balance, xp, claimed, owned, call, saw, charged, overlapped>>

\* buy ends with an insert, which fails if the row exists by now.
GrantCosmetic(c) ==
    /\ phase[c] = "granting"
    /\ call[c].kind = "buy"
    /\ owned' = owned \cup {call[c].cosmetic}
    /\ phase' = [phase EXCEPT ![c] =
                    IF call[c].cosmetic \in owned THEN "failed" ELSE "done"]
    /\ UNCHANGED <<balance, passVars, call, saw, charged, overlapped>>

Crash(c) ==
    /\ phase[c] \in {"reading", "applying", "checking", "spending", "granting"}
    /\ phase' = [phase EXCEPT ![c] = "crashed"]
    /\ UNCHANGED <<balance, passVars, owned, call, saw, charged, overlapped>>

Step(c) ==
    \/ ReadProgress(c) \/ ApplyRewards(c)
    \/ ReadForPremium(c) \/ ReadForPurchase(c)
    \/ CheckBalance(c) \/ Spend(c)
    \/ GrantPremium(c) \/ GrantCosmetic(c)

Next ==
    \/ GetMyProgress
    \/ \E n \in XpGrants : AddXp(n)
    \/ \E c \in Calls : Arrive(c) \/ Step(c) \/ Crash(c)

Spec == Init /\ [][Next]_vars

-----------------------------------------------------------------------------
(* Properties *)

\* Every variable but the balance, a sum, has its type; there is no experience,
\* premium or claim without a progress row.
TypeOK ==
    /\ progress \in BOOLEAN /\ premium \in BOOLEAN
    /\ xp \in 0..MaxXp
    /\ claimed \in Seq(Levels)
    /\ owned \subseteq Cosmetics
    /\ phase \in [Calls -> Phases]
    /\ call \in [Calls -> Goods \cup {NoGoods}]
    /\ saw \in [Calls -> BOOLEAN]
    /\ charged \subseteq Calls /\ overlapped \subseteq Goods
    /\ premium \/ xp > 0 \/ claimed # <<>> => progress

\* A level is rewarded once, unless two claims of it were past their check at
\* the same time.
ClaimedOnceUnlessOverlapped ==
    \A i, j \in DOMAIN claimed :
        claimed[i] = claimed[j] /\ [kind |-> "claim", level |-> claimed[i]] \notin overlapped
            => i = j

\* "Refuses if premium-only reward is requested by a free user": a claim that
\* was not refused handed out every reward of its level.
NothingForfeited ==
    \A c \in Calls :
        phase[c] = "done" /\ call[c].kind = "claim" => Due(c) = RewardsOf[call[c].level]

\* Nothing is given away: a cosmetic was bought, or is the reward of a claimed
\* level, and of a premium pass if it is for premium passes only.
Bought(k) ==
    \E c \in Calls : /\ call[c] = [kind |-> "buy", cosmetic |-> k]
                     /\ c \in charged \/ Price[k] = 0

OwnedIsEarned ==
    \A k \in owned :
        \/ Bought(k)
        \/ \E l \in ToSet(claimed) : \E r \in RewardsOf[l] :
              r.cosmetic = k /\ (r.premiumOnly => premium)

\* Claims that were answered with the rewards; what they paid into the wallet,
\* and what the charges took out of it.
Applied == {c \in Calls : phase[c] = "done" /\ call[c].kind = "claim"}
Received == SumFunction([c \in Applied |-> Bonus(c)])
Spent == SumFunction([c \in charged |-> Cost(c)])

\* Claims are applied, and purchases charged and granted, next to each other:
\* - the wallet holds what it held at first and the bonus of every claim that
\*   was applied, once for each of them, less every charge, and nothing else;
\* - every applied claim left its level behind, and everything it was due,
\*   with the premium rewards if it read a premium pass, is owned;
\* - although a purchase is charged and granted in separate transactions,
\*   whoever was charged has the goods, or gets them unless the process dies.
NothingIsLost ==
    /\ balance = InitialBalance + Received - Spent
    /\ Len(claimed) = Cardinality(Applied)
    /\ \A c \in Applied :
          /\ call[c].level \in ToSet(claimed)
          /\ \A r \in Due(c) : r.cosmetic \in owned \cup {NoCosmetic}
    /\ \A c \in charged :
          phase[c] \in {"done", "failed"} =>
              IF call[c].kind = "premium" THEN premium ELSE call[c].cosmetic \in owned

\* A cosmetic is paid for once, unless two purchases of it overlapped or one
\* died between charge and grant.
PaidOnceUnlessOverlapped ==
    \A c, d \in charged :
        /\ call[c].kind = "buy" /\ call[c] = call[d]
        /\ "crashed" \notin {phase[c], phase[d]}
        /\ call[c] \notin overlapped
        => c = d
=============================================================================
