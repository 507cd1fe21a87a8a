------------------------------ MODULE OnceProofs ------------------------------
(***************************************************************************)
(* Why what may be asked for or tried again is given once: the rewards of  *)
(* a level, cosmetics and premium passes, for any operators and calls; and *)
(* notifications, for any users, devices, workers, retries and crashes.    *)
(***************************************************************************)
EXTENDS Rewards, Notifications, SumProofs, TLAPS

-----------------------------------------------------------------------------
(* Rewards: levels are rewarded and cosmetics paid once.  Of two calls for *)
(* the same goods, either one was finished before the other made its       *)
(* check, and the check sees it, or both were past their checks at once.   *)

\* Only claims are applied, only purchases are charged and granted, and what
\* is to be paid for is granted after it was charged.
Ordered(c) ==
    /\ phase[c] = "new" <=> call[c] = NoGoods
    /\ phase[c] = "applying" => call[c].kind = "claim"
    /\ phase[c] \in {"checking", "spending", "granting"} => call[c].kind # "claim"
    /\ phase[c] = "granting" /\ call[c].kind = "buy" =>
           c \in charged \/ Price[call[c].cosmetic] = 0
    /\ c \in charged =>
           call[c].kind # "claim" /\ phase[c] \in {"granting", "done", "failed", "crashed"}
    /\ phase[c] = "failed" => call[c].kind = "buy"
    /\ phase[c] = "done" /\ call[c].kind = "premium" => premium
    /\ phase[c] \in {"done", "failed"} /\ call[c].kind = "buy" => call[c].cosmetic \in owned
    /\ saw[c] => premium

\* An operator with experience, a premium pass or claims has a progress row.
HasRow == (premium \/ xp > 0 \/ claimed # <<>> => progress)
          /\ \A c \in Calls : phase[c] = "applying" => progress

OrderInv == TypeOK /\ HasRow /\ \A c \in Calls : Ordered(c)

\* The range of a sequence that grew by one element.
LEMMA ToSetAppend ==
    ASSUME NEW S, NEW s \in Seq(S), NEW e \in S
    PROVE  /\ Append(s, e) \in Seq(S)
           /\ ToSet(Append(s, e)) = ToSet(s) \cup {e}
           /\ Append(s, e) # <<>>
  <1>1. /\ Append(s, e) \in Seq(S) /\ DOMAIN Append(s, e) = 1..Len(s) + 1
        /\ \A i \in 1..Len(s) : Append(s, e)[i] = s[i]
        /\ Append(s, e)[Len(s) + 1] = e
    OBVIOUS
  <1>2. DOMAIN s = 1..Len(s) /\ Len(s) \in Nat
    OBVIOUS
  <1>3. 1..Len(s) + 1 = 1..Len(s) \cup {Len(s) + 1}
    BY <1>2
  <1>4. ToSet(Append(s, e)) = ToSet(s) \cup {e}
    BY <1>1, <1>2, <1>3 DEF ToSet
  <1> QED
    BY <1>1, <1>4

\* Which goods are which.
LEMMA GoodsCases ==
    ASSUME NEW g \in Goods \cup {NoGoods}
    PROVE  /\ g = NoGoods <=> g.kind = "none"
           /\ g.kind \in {"claim", "buy", "premium", "none"}
           /\ g.kind = "claim" => g.level \in Levels /\ g = [kind |-> "claim", level |-> g.level]
           /\ g.kind = "buy" =>
                  g.cosmetic \in Cosmetics /\ g = [kind |-> "buy", cosmetic |-> g.cosmetic]
  BY DEF Goods, NoGoods

LEMMA OrderInvInit == Init => OrderInv
  <1> SUFFICES ASSUME Init PROVE OrderInv
    OBVIOUS
  <1>1. ~premium /\ ~(xp > 0) /\ claimed = <<>>
    BY DEF Init
  <1>2. TypeOK
    <2>1. xp \in 0..MaxXp /\ claimed \in Seq(Levels)
      BY RewardsConstants DEF Init
    <2>2. progress \in BOOLEAN /\ premium \in BOOLEAN /\ saw \in [Calls -> BOOLEAN]
      BY DEF Init
    <2>3. /\ owned \subseteq Cosmetics /\ charged \subseteq Calls /\ overlapped \subseteq Goods
          /\ phase \in [Calls -> Phases] /\ call \in [Calls -> Goods \cup {NoGoods}]
      BY DEF Init, Phases
    <2> QED
      BY <1>1, <2>1, <2>2, <2>3 DEF TypeOK
  <1>3. \A c \in Calls : phase[c] = "new" /\ call[c] = NoGoods /\ ~saw[c] /\ c \notin charged
    BY DEF Init
  <1>4. \A c \in Calls : Ordered(c)
    BY <1>3 DEF Ordered
  <1> QED
    BY <1>1, <1>2, <1>3, <1>4 DEF OrderInv, HasRow

\* What a step does to the other calls, and what never shrinks.
LEMMA OthersKept ==
    ASSUME OrderInv, NEW c \in Calls, Arrive(c) \/ Step(c) \/ Crash(c)
    PROVE  /\ \A d \in Calls \ {c} :
                  phase'[d] = phase[d] /\ call'[d] = call[d] /\ saw'[d] = saw[d]
           /\ phase[c] # "new" => call' = call
           /\ charged \subseteq charged' /\ charged' \subseteq charged \cup {c}
           /\ owned \subseteq owned' /\ (premium => premium')
           /\ overlapped \subseteq overlapped'
  BY DEF Arrive, Step, ReadProgress, ApplyRewards, ReadForPremium, ReadForPurchase,
     CheckBalance, Spend, GrantPremium, GrantCosmetic, Crash, Decide, OrderInv, TypeOK,
     passVars

\* The calls a step leaves alone stay in order.
LEMMA OrderedKept ==
    ASSUME OrderInv, NEW d \in Calls,
           phase'[d] = phase[d], call'[d] = call[d], saw'[d] = saw[d],
           d \in charged' <=> d \in charged,
           owned \subseteq owned', premium => premium'
    PROVE  Ordered(d)'
  BY DEF OrderInv, Ordered

LEMMA TypeOKStep ==
    ASSUME OrderInv, NEW c \in Calls, Arrive(c) \/ Step(c) \/ Crash(c)
    PROVE  TypeOK' /\ HasRow'
  <1> USE DEF OrderInv, TypeOK, HasRow
  <1>1. CASE Arrive(c)
    BY <1>1 DEF Arrive, Phases, passVars
  <1>2. CASE ReadProgress(c)
    <2>1. call[c] \in Goods \cup {NoGoods}
      OBVIOUS
    <2> QED
      BY <1>2, <2>1, GoodsCases DEF ReadProgress, Decide, Phases, passVars
  <1>3. CASE ApplyRewards(c)
    <2>1. call[c].level \in Levels
      BY <1>3, GoodsCases DEF ApplyRewards, Ordered
    <2>2. owned' \subseteq Cosmetics
      BY <1>3, <2>1, RewardsConstants DEF ApplyRewards, Due, Rewards
    <2>3. claimed' \in Seq(Levels) /\ claimed' # <<>>
      BY <1>3, <2>1, ToSetAppend DEF ApplyRewards
    <2> QED
      BY <1>3, <2>2, <2>3 DEF ApplyRewards, Phases
  <1>4. CASE ReadForPremium(c) \/ ReadForPurchase(c)
    <2>1. call[c] \in Goods
      BY <1>4, GoodsCases DEF ReadForPremium, ReadForPurchase
    <2> QED
      BY <1>4, <2>1 DEF ReadForPremium, ReadForPurchase, Decide, Phases, passVars
  <1>5. CASE CheckBalance(c) \/ Spend(c) \/ Crash(c)
    BY <1>5 DEF CheckBalance, Spend, Crash, Phases, passVars
  <1>6. CASE GrantPremium(c)
    BY <1>6 DEF GrantPremium, Phases
  <1>7. CASE GrantCosmetic(c)
    <2>1. call[c].cosmetic \in Cosmetics
      BY <1>7, GoodsCases DEF GrantCosmetic
    <2> QED
      BY <1>7, <2>1 DEF GrantCosmetic, Phases, passVars
  <1> QED
    BY <1>1, <1>2, <1>3, <1>4, <1>5, <1>6, <1>7 DEF Step

LEMMA OrderedStep ==
    ASSUME OrderInv, NEW c \in Calls, Arrive(c) \/ Step(c) \/ Crash(c)
    PROVE  Ordered(c)'
  <1> USE DEF OrderInv, TypeOK, Ordered
  <1>0. call[c] \in Goods \cup {NoGoods}
    OBVIOUS
  <1>1. CASE Arrive(c)
    <2>1. PICK g \in Goods : call' = [call EXCEPT ![c] = g]
      BY <1>1 DEF Arrive
    <2>2. call'[c] # NoGoods
      BY <2>1 DEF Goods, NoGoods
    <2> QED
      BY <1>1, <2>2 DEF Arrive, passVars
  <1>2. CASE ReadProgress(c)
    BY <1>2 DEF ReadProgress, Decide, passVars
  <1>3. CASE ApplyRewards(c)
    BY <1>3 DEF ApplyRewards
  <1>4. CASE ReadForPremium(c)
    BY <1>4 DEF ReadForPremium, Decide, passVars
  <1>5. CASE ReadForPurchase(c)
    <2>1. call[c].cosmetic \in Cosmetics
      BY <1>5, <1>0, GoodsCases DEF ReadForPurchase
    <2>2. ~(Price[call[c].cosmetic] > 0) => Price[call[c].cosmetic] = 0
      BY <2>1, RewardsConstants
    <2>3. /\ phase'[c] \in {"checking", "granting", "rejected"}
          /\ phase'[c] = "granting" => Price[call[c].cosmetic] = 0
      BY <1>5, <2>2 DEF ReadForPurchase, Decide
    <2>4. UNCHANGED <<premium, owned, call, saw, charged>>
      BY <1>5 DEF ReadForPurchase, Decide, passVars
    <2>5. phase[c] = "reading" /\ call[c].kind = "buy"
      BY <1>5 DEF ReadForPurchase
    <2> QED
      BY <2>3, <2>4, <2>5
  <1>6. CASE CheckBalance(c)
    BY <1>6 DEF CheckBalance, passVars
  <1>7. CASE Spend(c)
    BY <1>7 DEF Spend, passVars
  <1>8. CASE GrantPremium(c)
    BY <1>8 DEF GrantPremium
  <1>9. CASE GrantCosmetic(c)
    BY <1>9 DEF GrantCosmetic, passVars
  <1>10. CASE Crash(c)
    BY <1>10 DEF Crash, passVars
  <1> QED
    BY <1>1, <1>2, <1>3, <1>4, <1>5, <1>6, <1>7, <1>8, <1>9, <1>10 DEF Step

LEMMA OrderInvNext == OrderInv /\ [Next]_vars => OrderInv'
  <1>1. ASSUME OrderInv, UNCHANGED vars PROVE OrderInv'
    BY <1>1 DEF vars, passVars, OrderInv, TypeOK, HasRow, Ordered
  <1>2. ASSUME OrderInv, GetMyProgress PROVE OrderInv'
    BY <1>2 DEF GetMyProgress, OrderInv, TypeOK, HasRow, Ordered
  <1>3. ASSUME OrderInv, NEW n \in XpGrants, AddXp(n) PROVE OrderInv'
    <2>1. xp' \in 0..MaxXp
      BY <1>3, RewardsConstants DEF AddXp, OrderInv, TypeOK
    <2> QED
      BY <1>3, <2>1 DEF AddXp, OrderInv, TypeOK, HasRow, Ordered
  <1>4. ASSUME OrderInv, NEW c \in Calls, Arrive(c) \/ Step(c) \/ Crash(c) PROVE OrderInv'
    BY <1>4, OthersKept, OrderedKept, TypeOKStep, OrderedStep DEF OrderInv
  <1> QED
    BY <1>1, <1>2, <1>3, <1>4 DEF Next

LEMMA OrderInvHolds == Spec => []OrderInv
  BY OrderInvInit, OrderInvNext, PTL DEF Spec

\* Every variable but the balance has its type, for any rewards, prices, levels
\* and number of calls.
THEOREM TypeCorrect == Spec => []TypeOK
  <1>1. OrderInv => TypeOK
    BY DEF OrderInv
  <1> QED
    BY <1>1, OrderInvHolds, PTL

-----------------------------------------------------------------------------
(* Once *)

Past(c) == phase[c] \in {"applying", "checking", "spending", "granting"}

\* Purchases of one cosmetic that were not refused were past their checks at
\* once; the finished one is otherwise seen by the check.
BoughtApart(c, d) ==
    /\ call[c].kind = "buy" /\ call[d] = call[c]
    /\ Past(c) \/ phase[c] \in {"done", "failed"}
    /\ Past(d) \/ phase[d] \in {"done", "failed"}
    => call[c] \in overlapped

ClaimedApart(c, d) ==
    phase[c] = "applying" /\ phase[d] = "applying" /\ call[d] = call[c] =>
        call[c] \in overlapped

OnceInv ==
    /\ OrderInv
    /\ \A c, d \in Calls : c # d => BoughtApart(c, d) /\ ClaimedApart(c, d)
    /\ \A c \in Calls : phase[c] = "applying" /\ call[c].level \in ToSet(claimed) =>
                            call[c] \in overlapped
    /\ ClaimedOnceUnlessOverlapped

LEMMA OnceInvInit == Init => OnceInv
  <1>1. Init => ToSet(claimed) = {} /\ DOMAIN claimed = {}
    BY DEF Init, ToSet
  <1>2. Init => \A c \in Calls : phase[c] = "new"
    BY DEF Init
  <1> QED
    BY <1>1, <1>2, OrderInvInit
    DEF OnceInv, BoughtApart, ClaimedApart, Past, ClaimedOnceUnlessOverlapped

\* A step that is no check of c and no application leaves c where it was.
LEMMA OnceInvQuiet ==
    ASSUME OnceInv, OrderInv', overlapped \subseteq overlapped', claimed' = claimed,
           \A d \in Calls : Past(d)' => Past(d),
           \A d \in Calls : phase'[d] = "applying" => phase[d] = "applying",
           \A d \in Calls : phase'[d] \in {"done", "failed"} =>
               Past(d) \/ phase[d] \in {"done", "failed"},
           \A d \in Calls : phase[d] # "new" => call'[d] = call[d]
    PROVE  OnceInv'
  <1>1. \A d \in Calls : Past(d) => phase[d] # "new"
    BY DEF Past
  <1>2. \A c, d \in Calls : c # d => BoughtApart(c, d)' /\ ClaimedApart(c, d)'
    BY <1>1 DEF OnceInv, BoughtApart, ClaimedApart
  <1>3. \A c \in Calls : phase'[c] = "applying" /\ call'[c].level \in ToSet(claimed') =>
                            call'[c] \in overlapped'
    BY DEF OnceInv
  <1>4. ClaimedOnceUnlessOverlapped'
    BY DEF OnceInv, ClaimedOnceUnlessOverlapped
  <1> QED
    BY <1>2, <1>3, <1>4 DEF OnceInv

\* A check: what it lets pass is marked if another call was past its own.
LEMMA OnceInvDecide ==
    ASSUME OnceInv, OrderInv', NEW c \in Calls,
           ReadProgress(c) \/ ReadForPremium(c) \/ ReadForPurchase(c)
    PROVE  OnceInv'
  <1>1. /\ call' = call /\ claimed' = claimed /\ overlapped \subseteq overlapped'
        /\ phase[c] = "reading" /\ phase'[c] # "done" /\ phase'[c] # "failed"
        /\ \A d \in Calls \ {c} : phase'[d] = phase[d]
    BY DEF ReadProgress, ReadForPremium, ReadForPurchase, Decide, passVars, OnceInv,
           OrderInv, TypeOK
  <1>2. ASSUME Past(c)', NEW d \in Calls \ {c}, Past(d), call[d] = call[c]
        PROVE  call[c] \in overlapped'
    <2>1. d \in Decided \ {c}
      BY <1>2 DEF Decided, Past
    <2>2. phase'[c] # "rejected"
      BY <1>2 DEF Past
    <2> QED
      BY <1>2, <2>1, <2>2 DEF ReadProgress, ReadForPremium, ReadForPurchase, Decide,
         OnceInv, OrderInv, TypeOK
  <1>3. ASSUME Past(c)', NEW d \in Calls \ {c}, call[c].kind = "buy", call[d] = call[c],
               phase[d] \in {"done", "failed"}
        PROVE  FALSE
    <2>1. call[c].cosmetic \in owned
      BY <1>3 DEF OnceInv, OrderInv, Ordered
    <2>2. phase'[c] # "rejected"
      BY <1>3 DEF Past
    <2> QED
      BY <1>3, <2>1, <2>2 DEF ReadProgress, ReadForPremium, ReadForPurchase, Decide,
         OnceInv, OrderInv, TypeOK
  <1>4. ASSUME NEW d \in Calls \ {c} PROVE /\ BoughtApart(c, d)' /\ BoughtApart(d, c)'
                                           /\ ClaimedApart(c, d)' /\ ClaimedApart(d, c)'
    BY <1>1, <1>2, <1>3 DEF BoughtApart, ClaimedApart, Past
  <1>5. ASSUME NEW d \in Calls \ {c}, NEW e \in Calls \ {c}, d # e
        PROVE  BoughtApart(d, e)' /\ ClaimedApart(d, e)'
    BY <1>1, <1>5 DEF BoughtApart, ClaimedApart, Past, OnceInv
  <1>6. phase'[c] = "applying" => call[c].level \notin ToSet(claimed)
    BY DEF ReadProgress, ReadForPremium, ReadForPurchase, Decide, OnceInv, OrderInv, TypeOK
  <1>7. \A d \in Calls : phase'[d] = "applying" /\ call'[d].level \in ToSet(claimed') =>
                            call'[d] \in overlapped'
    BY <1>1, <1>6 DEF OnceInv
  <1>8. ClaimedOnceUnlessOverlapped'
    BY <1>1 DEF OnceInv, ClaimedOnceUnlessOverlapped
  <1> QED
    BY <1>4, <1>5, <1>7, <1>8 DEF OnceInv

\* An application appends a level; whoever else is about to was marked.
LEMMA OnceInvApply ==
    ASSUME OnceInv, OrderInv', NEW c \in Calls, ApplyRewards(c)
    PROVE  OnceInv'
  <1>1. /\ call' = call /\ overlapped' = overlapped
        /\ phase[c] = "applying" /\ phase'[c] = "done"
        /\ \A d \in Calls \ {c} : phase'[d] = phase[d]
    BY DEF ApplyRewards, OnceInv, OrderInv, TypeOK
  <1>2. PICK l \in Levels : call[c] = [kind |-> "claim", level |-> l]
    BY <1>1, GoodsCases DEF OnceInv, OrderInv, Ordered, TypeOK
  <1>3. claimed' = Append(claimed, l) /\ claimed \in Seq(Levels)
    BY <1>2 DEF ApplyRewards, OnceInv, OrderInv, TypeOK
  <1>4. ToSet(claimed') = ToSet(claimed) \cup {l}
    BY <1>3, ToSetAppend
  <1>5. \A d, e \in Calls : d # e => BoughtApart(d, e)' /\ ClaimedApart(d, e)'
    <2>1. call[c].kind # "buy"
      BY <1>2
    <2> QED
      BY <1>1, <2>1 DEF BoughtApart, ClaimedApart, Past, OnceInv
  <1>6. ASSUME NEW d \in Calls, phase'[d] = "applying", call'[d].level \in ToSet(claimed')
        PROVE  call'[d] \in overlapped'
    <2>1. d # c /\ phase[d] = "applying" /\ call'[d] = call[d]
      BY <1>1, <1>6
    <2>2. CASE call[d].level \in ToSet(claimed)
      BY <1>1, <2>1, <2>2 DEF OnceInv
    <2>3. CASE call[d].level = l
      <3>1. call[d] = [kind |-> "claim", level |-> l]
        BY <2>1, <2>3, GoodsCases DEF OnceInv, OrderInv, Ordered, TypeOK
      <3> QED
        BY <1>1, <1>2, <2>1, <3>1 DEF OnceInv, ClaimedApart
    <2> QED
      BY <1>4, <1>6, <2>1, <2>2, <2>3
  <1>7. ClaimedOnceUnlessOverlapped'
    <2>1. /\ DOMAIN claimed = 1..Len(claimed) /\ Len(claimed) \in Nat
          /\ DOMAIN claimed' = 1..Len(claimed) + 1
          /\ \A i \in 1..Len(claimed) : claimed'[i] = claimed[i]
          /\ claimed'[Len(claimed) + 1] = l
      BY <1>3
    <2>2. ASSUME NEW i \in 1..Len(claimed), claimed[i] = l
          PROVE  [kind |-> "claim", level |-> l] \in overlapped
      <3>1. l \in ToSet(claimed)
        BY <2>1, <2>2 DEF ToSet
      <3> QED
        BY <1>1, <1>2, <3>1 DEF OnceInv
    <2>3. SUFFICES ASSUME NEW i \in 1..Len(claimed) + 1, NEW j \in 1..Len(claimed) + 1,
                          claimed'[i] = claimed'[j],
                          [kind |-> "claim", level |-> claimed'[i]] \notin overlapped
                   PROVE  i = j
      BY <1>1, <2>1 DEF ClaimedOnceUnlessOverlapped
    <2>4. CASE i = Len(claimed) + 1 \/ j = Len(claimed) + 1
      <3>1. claimed'[i] = l /\ claimed'[j] = l
        BY <2>1, <2>3, <2>4
      <3>2. i \notin 1..Len(claimed) /\ j \notin 1..Len(claimed)
        BY <2>1, <2>2, <2>3, <3>1
      <3> QED
        BY <2>1, <3>2
    <2>5. CASE i \in 1..Len(claimed) /\ j \in 1..Len(claimed)
      BY <2>1, <2>3, <2>5 DEF OnceInv, ClaimedOnceUnlessOverlapped
    <2> QED
      BY <2>1, <2>4, <2>5
  <1> QED
    BY <1>5, <1>6, <1>7 DEF OnceInv

LEMMA OnceInvNext == OnceInv /\ [Next]_vars => OnceInv'
  <1> SUFFICES ASSUME OnceInv, [Next]_vars PROVE OnceInv'
    OBVIOUS
  <1>1. OrderInv'
    BY OrderInvNext DEF OnceInv
  <1>2. CASE UNCHANGED vars
    BY <1>1, <1>2, OnceInvQuiet DEF vars, passVars, Past
  <1>3. CASE GetMyProgress
    BY <1>1, <1>3, OnceInvQuiet DEF GetMyProgress, Past
  <1>4. ASSUME NEW n \in XpGrants, AddXp(n) PROVE OnceInv'
    BY <1>1, <1>4, OnceInvQuiet DEF AddXp, Past
  <1>5. ASSUME NEW c \in Calls, Arrive(c) PROVE OnceInv'
    BY <1>1, <1>5, OnceInvQuiet DEF Arrive, Past, passVars, OnceInv, OrderInv, TypeOK
  <1>6. ASSUME NEW c \in Calls, CheckBalance(c) \/ Spend(c) PROVE OnceInv'
    BY <1>1, <1>6, OnceInvQuiet
    DEF CheckBalance, Spend, Past, passVars, OnceInv, OrderInv, TypeOK
  <1>7. ASSUME NEW c \in Calls, GrantPremium(c) \/ GrantCosmetic(c) \/ Crash(c)
        PROVE  OnceInv'
    BY <1>1, <1>7, OnceInvQuiet
    DEF GrantPremium, GrantCosmetic, Crash, Past, passVars, OnceInv, OrderInv, TypeOK
  <1> QED
    BY <1>1, <1>2, <1>3, <1>4, <1>5, <1>6, <1>7, OnceInvDecide, OnceInvApply DEF Next, Step

LEMMA OnceInvHolds == Spec => []OnceInv
  BY OnceInvInit, OnceInvNext, PTL DEF Spec

\* A level is rewarded once, however many claims run, unless two of them were
\* past their check at the same time.
THEOREM RewardedOnce == Spec => []ClaimedOnceUnlessOverlapped
  <1>1. OnceInv => ClaimedOnceUnlessOverlapped
    BY DEF OnceInv
  <1> QED
    BY <1>1, OnceInvHolds, PTL

\* A cosmetic is paid for once, unless two purchases of it overlapped or one
\* died between charge and grant.
THEOREM PaidOnce == Spec => []PaidOnceUnlessOverlapped
  <1>1. OnceInv => PaidOnceUnlessOverlapped
    <2> SUFFICES ASSUME OnceInv, NEW c \in charged, NEW d \in charged,
                        call[c].kind = "buy", call[c] = call[d],
                        phase[c] # "crashed", phase[d] # "crashed",
                        call[c] \notin overlapped, c # d
                 PROVE  FALSE
      BY DEF PaidOnceUnlessOverlapped
    <2>1. c \in Calls /\ d \in Calls
      BY DEF OnceInv, OrderInv, TypeOK
    <2>2. /\ phase[c] \in {"granting", "done", "failed"}
          /\ phase[d] \in {"granting", "done", "failed"}
      BY <2>1 DEF OnceInv, OrderInv, Ordered
    <2> QED
      BY <2>1, <2>2 DEF OnceInv, BoughtApart, Past
  <1> QED
    BY <1>1, OnceInvHolds, PTL

-----------------------------------------------------------------------------
(* Earned *)

\* What is owned was bought or handed out.
EarnedInv == OrderInv /\ OwnedIsEarned

LEMMA BoughtStays ==
    ASSUME OrderInv, charged \subseteq charged', NEW k, Bought(k),
           \A c \in Calls : phase[c] # "new" => call'[c] = call[c]
    PROVE  Bought(k)'
  <1>1. PICK c \in Calls : /\ call[c] = [kind |-> "buy", cosmetic |-> k]
                           /\ c \in charged \/ Price[k] = 0
    BY DEF Bought
  <1>2. call[c] # NoGoods
    BY <1>1 DEF NoGoods
  <1>3. call'[c] = call[c]
    BY <1>2 DEF OrderInv, Ordered
  <1> QED
    BY <1>1, <1>3 DEF Bought

LEMMA EarnedInvQuiet ==
    ASSUME EarnedInv, OrderInv', owned' = owned, claimed' = claimed, premium => premium',
           charged \subseteq charged',
           \A c \in Calls : phase[c] # "new" => call'[c] = call[c]
    PROVE  EarnedInv'
  <1>1. \A k \in owned : Bought(k) => Bought(k)'
    BY BoughtStays DEF EarnedInv
  <1>2. OwnedIsEarned'
    BY <1>1 DEF EarnedInv, OwnedIsEarned
  <1> QED
    BY <1>2 DEF EarnedInv

LEMMA EarnedInvApply ==
    ASSUME EarnedInv, OrderInv', NEW c \in Calls, ApplyRewards(c)
    PROVE  EarnedInv'
  <1>1. PICK l \in Levels : l = call[c].level
    BY GoodsCases DEF ApplyRewards, EarnedInv, OrderInv, Ordered, TypeOK
  <1>2. /\ claimed' = Append(claimed, l) /\ claimed \in Seq(Levels)
        /\ premium' = premium /\ call' = call /\ charged' = charged
    BY <1>1 DEF ApplyRewards, EarnedInv, OrderInv, TypeOK
  <1>3. ToSet(claimed') = ToSet(claimed) \cup {l}
    BY <1>2, ToSetAppend
  <1>4. owned' = owned \cup ({r.cosmetic : r \in Due(c)} \ {NoCosmetic})
    BY DEF ApplyRewards
  <1>5. Due(c) = {r \in RewardsOf[l] : r.premiumOnly => saw[c]}
    BY <1>1 DEF Due
  <1>6. OwnedIsEarned'
    <2> SUFFICES ASSUME NEW k \in owned'
                 PROVE  \/ Bought(k)'
                        \/ \E m \in ToSet(claimed') : \E r \in RewardsOf[m] :
                              r.cosmetic = k /\ (r.premiumOnly => premium')
      BY DEF OwnedIsEarned
    <2>1. CASE k \in owned
      <3>1. CASE Bought(k)
        BY <1>2, <3>1, BoughtStays DEF EarnedInv
      <3>2. CASE ~Bought(k)
        BY <1>2, <1>3, <2>1, <3>2 DEF EarnedInv, OwnedIsEarned
      <3> QED
        BY <3>1, <3>2
    <2>2. CASE k \notin owned
      <3>1. PICK r \in Due(c) : r.cosmetic = k
        BY <1>4, <2>2
      <3>2. r \in RewardsOf[l] /\ (r.premiumOnly => saw[c])
        BY <1>5, <3>1
      <3>3. saw[c] => premium
        BY DEF EarnedInv, OrderInv, Ordered
      <3> QED
        BY <1>2, <1>3, <3>1, <3>2, <3>3
    <2> QED
      BY <2>1, <2>2
  <1> QED
    BY <1>6 DEF EarnedInv

LEMMA EarnedInvGrant ==
    ASSUME EarnedInv, OrderInv', NEW c \in Calls, GrantCosmetic(c)
    PROVE  EarnedInv'
  <1>1. /\ UNCHANGED <<premium, claimed, call, charged>>
        /\ owned' = owned \cup {call[c].cosmetic}
    BY DEF GrantCosmetic, passVars
  <1>2. Bought(call[c].cosmetic)
    <2>1. call[c] = [kind |-> "buy", cosmetic |-> call[c].cosmetic]
      BY GoodsCases DEF GrantCosmetic, EarnedInv, OrderInv, TypeOK
    <2>2. c \in charged \/ Price[call[c].cosmetic] = 0
      BY DEF GrantCosmetic, EarnedInv, OrderInv, Ordered
    <2> QED
      BY <2>1, <2>2 DEF Bought
  <1>3. \A k \in owned' : Bought(k) => Bought(k)'
    BY <1>1 DEF Bought
  <1>4. OwnedIsEarned'
    BY <1>1, <1>2, <1>3 DEF EarnedInv, OwnedIsEarned
  <1> QED
    BY <1>4 DEF EarnedInv

LEMMA EarnedInvNext == EarnedInv /\ [Next]_vars => EarnedInv'
  <1> SUFFICES ASSUME EarnedInv, [Next]_vars PROVE EarnedInv'
    OBVIOUS
  <1>1. OrderInv'
    BY OrderInvNext DEF EarnedInv
  <1>2. CASE UNCHANGED vars
    BY <1>1, <1>2, EarnedInvQuiet DEF vars, passVars
  <1>3. CASE GetMyProgress
    BY <1>1, <1>3, EarnedInvQuiet DEF GetMyProgress
  <1>4. ASSUME NEW n \in XpGrants, AddXp(n) PROVE EarnedInv'
    BY <1>1, <1>4, EarnedInvQuiet DEF AddXp
  <1>5. ASSUME NEW c \in Calls,
               \/ Arrive(c) \/ ReadProgress(c) \/ ReadForPremium(c) \/ ReadForPurchase(c)
               \/ CheckBalance(c) \/ Spend(c) \/ GrantPremium(c) \/ Crash(c)
        PROVE  EarnedInv'
    <2>1. owned' = owned /\ claimed' = claimed
      BY <1>5 DEF Arrive, ReadProgress, ReadForPremium, ReadForPurchase, CheckBalance,
         Spend, GrantPremium, Crash, Decide, passVars
    <2>2. OrderInv /\ (Arrive(c) \/ Step(c) \/ Crash(c))
      BY <1>5 DEF Step, EarnedInv
    <2>3. /\ premium => premium'
          /\ charged \subseteq charged'
          /\ \A d \in Calls : phase[d] # "new" => call'[d] = call[d]
      BY <2>2, OthersKept
    <2> QED
      BY <1>1, <2>1, <2>3, EarnedInvQuiet
  <1> QED
    BY <1>2, <1>3, <1>4, <1>5, <1>1, EarnedInvApply, EarnedInvGrant DEF Next, Step

LEMMA EarnedInvHolds == Spec => []EarnedInv
  <1>1. Init => EarnedInv
    <2>1. Init => ToSet(claimed) = {} /\ owned = {}
      BY DEF Init, ToSet
    <2> QED
      BY <2>1, OrderInvInit DEF EarnedInv, OwnedIsEarned
  <1> QED
    BY <1>1, EarnedInvNext, PTL DEF Spec

\* Nothing is given away: what is owned was paid for, free, or earned.
THEOREM NothingIsGivenAway == Spec => []OwnedIsEarned
  <1>1. EarnedInv => OwnedIsEarned
    BY DEF EarnedInv
  <1> QED
    BY <1>1, EarnedInvHolds, PTL

-----------------------------------------------------------------------------
(* The purse *)

\* Bonuses and costs are amounts.
LEMMA BonusIsInt ==
    ASSUME OrderInv, NEW c \in Calls, call[c].kind = "claim"
    PROVE  Bonus(c) \in Int
  <1>1. PICK D : D = Due(c)
    OBVIOUS
  <1>2. call[c].level \in Levels
    BY GoodsCases DEF OrderInv, TypeOK
  <1>3. IsFiniteSet(D) /\ \A r \in D : r.bonus \in Int
    <2>1. IsFiniteSet(RewardsOf[call[c].level]) /\ D \subseteq RewardsOf[call[c].level]
      BY <1>1, <1>2, RewardsConstants DEF Due
    <2>2. \A r \in RewardsOf[call[c].level] : r.bonus \in Int
      <3>1. RewardsOf[call[c].level] \subseteq Rewards
        BY <1>2, RewardsConstants
      <3>2. \A r \in Rewards : r.bonus \in Int
        BY DEF Rewards
      <3> QED
        BY <3>1, <3>2
    <2> QED
      BY <2>1, <2>2, FS_Subset
  <1>4. PICK g : g = [r \in D |-> r.bonus]
    OBVIOUS
  <1>5. SumFunction(g) = SumOver(g, D)
    BY <1>4, SumFunctionIs
  <1>6. \A r \in D : g[r] \in Int
    BY <1>3, <1>4
  <1>7. SumOver(g, D) \in Int
    BY <1>3, <1>6, SumIsInt
  <1> QED
    BY <1>1, <1>4, <1>5, <1>7 DEF Bonus

LEMMA CostIsInt ==
    ASSUME OrderInv, NEW c \in Calls, call[c].kind \in {"buy", "premium"}
    PROVE  Cost(c) \in Int
  <1>1. call[c].kind = "buy" => call[c].cosmetic \in Cosmetics
    BY GoodsCases DEF OrderInv, TypeOK
  <1> QED
    BY <1>1, RewardsConstants DEF Cost

\* Calls that are charged, or about to be, are purchases.
LEMMA ChargedArePurchases ==
    ASSUME OrderInv, NEW c \in Calls, c \in charged \/ phase[c] = "spending"
    PROVE  call[c].kind \in {"buy", "premium"}
  <1>1. call[c].kind # "claim" /\ phase[c] # "new"
    BY DEF OrderInv, Ordered
  <1>2. call[c] # NoGoods /\ call[c] \in Goods \cup {NoGoods}
    BY <1>1 DEF OrderInv, Ordered, TypeOK
  <1> QED
    BY <1>1, <1>2, GoodsCases

LEMMA AmountsAreInt == OrderInv => Received \in Int /\ Spent \in Int
  <1> SUFFICES ASSUME OrderInv PROVE Received \in Int /\ Spent \in Int
    OBVIOUS
  <1>1. IsFiniteSet(Applied) /\ IsFiniteSet(charged)
    BY RewardsConstants, FS_Subset DEF Applied, OrderInv, TypeOK
  <1>2. PICK g : g = [c \in Applied |-> Bonus(c)]
    OBVIOUS
  <1>3. PICK h : h = [c \in charged |-> Cost(c)]
    OBVIOUS
  <1>4. \A c \in Applied : g[c] \in Int
    BY <1>2, BonusIsInt DEF Applied
  <1>5. \A c \in charged : h[c] \in Int
    BY <1>3, CostIsInt, ChargedArePurchases DEF OrderInv, TypeOK
  <1>6. SumFunction(g) = SumOver(g, Applied) /\ SumFunction(h) = SumOver(h, charged)
    BY <1>2, <1>3, SumFunctionIs
  <1>7. SumOver(g, Applied) \in Int /\ SumOver(h, charged) \in Int
    BY <1>1, <1>4, <1>5, SumIsInt
  <1> QED
    BY <1>2, <1>3, <1>6, <1>7 DEF Received, Spent

\* What was applied and charged before goes on counting what it counted.
LEMMA ReceivedKept ==
    ASSUME Applied' = Applied, \A c \in Applied : call'[c] = call[c] /\ saw'[c] = saw[c]
    PROVE  Received' = Received /\ \A c \in Applied : Due(c)' = Due(c)
  <1>1. \A c \in Applied : Due(c)' = Due(c)
    BY DEF Due
  <1>2. \A c \in Applied : Bonus(c)' = Bonus(c)
    BY <1>1 DEF Bonus
  <1>3. [c \in Applied |-> Bonus(c)]' = [c \in Applied |-> Bonus(c)]
    BY <1>2
  <1> QED
    BY <1>1, <1>3 DEF Received

LEMMA SpentKept ==
    ASSUME charged' = charged, \A c \in charged : call'[c] = call[c]
    PROVE  Spent' = Spent
  <1>1. \A c \in charged : Cost(c)' = Cost(c)
    BY DEF Cost
  <1>2. [c \in charged |-> Cost(c)]' = [c \in charged |-> Cost(c)]
    BY <1>1
  <1> QED
    BY <1>2 DEF Spent

\* One more claim applied, one more purchase charged.
LEMMA ReceivedMore ==
    ASSUME OrderInv, NEW c \in Calls, ApplyRewards(c)
    PROVE  /\ Applied' = Applied \cup {c} /\ c \notin Applied
           /\ Cardinality(Applied') = Cardinality(Applied) + 1
           /\ Cardinality(Applied) \in Nat
           /\ Received' = Received + Bonus(c)
  <1>1. /\ call' = call /\ saw' = saw /\ call[c].kind = "claim"
        /\ phase[c] = "applying" /\ phase' = [phase EXCEPT ![c] = "done"]
        /\ phase \in [Calls -> Phases]
    BY DEF ApplyRewards, OrderInv, TypeOK, Ordered
  <1>2. Applied' = Applied \cup {c} /\ c \notin Applied
    BY <1>1 DEF Applied
  <1>3. IsFiniteSet(Applied)
    BY RewardsConstants, FS_Subset DEF Applied
  <1>4. \A d \in Calls : Bonus(d)' = Bonus(d)
    BY <1>1 DEF Bonus, Due
  <1>5. PICK A : A = Applied
    OBVIOUS
  <1>6. PICK g : g = [d \in A |-> Bonus(d)]
    OBVIOUS
  <1>7. PICK h : h = [d \in A \cup {c} |-> Bonus(d)]
    OBVIOUS
  <1>8. A \cup {c} \subseteq Calls
    BY <1>5 DEF Applied
  <1>9. [d \in A \cup {c} |-> Bonus(d)'] = h
    BY <1>4, <1>7, <1>8
  <1>10. Received = SumOver(g, A)
    BY <1>5, <1>6, SumFunctionIs DEF Received
  <1>11. Received' = SumOver(h, A \cup {c})
    <2>1. Received' = SumFunction(h)
      BY <1>2, <1>5, <1>9 DEF Received
    <2>2. SumFunction(h) = SumOver(h, A \cup {c})
      BY <1>7, SumFunctionIs
    <2> QED
      BY <2>1, <2>2
  <1>12. \A d \in A \cup {c} : h[d] \in Int
    BY <1>1, <1>5, <1>7, BonusIsInt DEF Applied
  <1>13. SumOver(h, A \cup {c}) = SumOver(h, A) + h[c]
    BY <1>2, <1>3, <1>5, <1>12, SumWith
  <1>14. SumOver(h, A) = SumOver(g, A)
    <2>1. \A d \in A : h[d] = g[d]
      BY <1>6, <1>7
    <2> QED
      BY <1>3, <1>5, <2>1, SameSum
  <1>15. h[c] = Bonus(c)
    BY <1>7
  <1>16. /\ Cardinality(Applied \cup {c}) = Cardinality(Applied) + 1
         /\ Cardinality(Applied) \in Nat
    BY <1>2, <1>3, FS_AddElement, FS_CardinalityType
  <1> QED
    BY <1>2, <1>10, <1>11, <1>13, <1>14, <1>15, <1>16

LEMMA SpentMore ==
    ASSUME OrderInv, NEW c \in Calls, Spend(c)
    PROVE  Spent' = Spent + Cost(c) /\ Cost(c) \in Int
  <1>1. /\ call' = call /\ charged' = charged \cup {c} /\ phase[c] = "spending"
        /\ charged \subseteq Calls
    BY DEF Spend, OrderInv, TypeOK
  <1>2. c \notin charged
    BY <1>1 DEF OrderInv, Ordered
  <1>3. IsFiniteSet(charged)
    BY <1>1, RewardsConstants, FS_Subset
  <1>4. \A d \in Calls : Cost(d)' = Cost(d)
    BY <1>1 DEF Cost
  <1>5. PICK A : A = charged
    OBVIOUS
  <1>6. PICK g : g = [d \in A |-> Cost(d)]
    OBVIOUS
  <1>7. PICK h : h = [d \in A \cup {c} |-> Cost(d)]
    OBVIOUS
  <1>8. [d \in A \cup {c} |-> Cost(d)'] = h
    BY <1>1, <1>4, <1>5, <1>7
  <1>9. Spent = SumOver(g, A)
    BY <1>5, <1>6, SumFunctionIs DEF Spent
  <1>10. Spent' = SumOver(h, A \cup {c})
    <2>1. Spent' = SumFunction(h)
      BY <1>1, <1>5, <1>8 DEF Spent
    <2>2. SumFunction(h) = SumOver(h, A \cup {c})
      BY <1>7, SumFunctionIs
    <2> QED
      BY <2>1, <2>2
  <1>11. \A d \in A \cup {c} : Cost(d) \in Int
    BY <1>1, <1>5, CostIsInt, ChargedArePurchases
  <1>12. \A d \in A \cup {c} : h[d] \in Int
    BY <1>7, <1>11
  <1>13. SumOver(h, A \cup {c}) = SumOver(h, A) + h[c]
    BY <1>2, <1>3, <1>5, <1>12, SumWith
  <1>14. SumOver(h, A) = SumOver(g, A)
    <2>1. \A d \in A : h[d] = g[d]
      BY <1>6, <1>7
    <2> QED
      BY <1>3, <1>5, <2>1, SameSum
  <1>15. h[c] = Cost(c)
    BY <1>7
  <1> QED
    BY <1>9, <1>10, <1>11, <1>13, <1>14, <1>15

\* The wallet adds up, and every applied claim left its level and its goods.
Purse ==
    /\ balance = InitialBalance + Received - Spent
    /\ Len(claimed) = Cardinality(Applied)
    /\ \A c \in Applied :
          /\ call[c].level \in ToSet(claimed)
          /\ \A r \in Due(c) : r.cosmetic \in owned \cup {NoCosmetic}

PurseInv == OrderInv /\ Purse

\* Steps that apply no claim and charge nothing.
LEMMA PurseQuiet ==
    ASSUME PurseInv, Applied' = Applied, UNCHANGED <<balance, claimed, charged>>,
           owned \subseteq owned',
           \A c \in Calls : phase[c] # "new" => call'[c] = call[c],
           \A c \in Applied : saw'[c] = saw[c]
    PROVE  Purse'
  <1>1. \A c \in Applied \cup charged : call'[c] = call[c]
    BY DEF PurseInv, OrderInv, Ordered, TypeOK, Applied
  <1>2. Received' = Received /\ \A c \in Applied : Due(c)' = Due(c)
    BY <1>1, ReceivedKept
  <1>3. Spent' = Spent
    BY <1>1, SpentKept
  <1>4. \A c \in Applied :
           /\ call'[c].level \in ToSet(claimed')
           /\ \A r \in Due(c)' : r.cosmetic \in owned' \cup {NoCosmetic}
    BY <1>1, <1>2 DEF PurseInv, Purse
  <1> QED
    BY <1>2, <1>3, <1>4 DEF PurseInv, Purse

LEMMA PurseApply ==
    ASSUME PurseInv, NEW c \in Calls, ApplyRewards(c)
    PROVE  Purse'
  <1>1. OrderInv
    BY DEF PurseInv
  <1>2. /\ call' = call /\ saw' = saw /\ charged' = charged
        /\ balance' = balance + Bonus(c)
        /\ claimed' = Append(claimed, call[c].level)
        /\ owned' = owned \cup ({r.cosmetic : r \in Due(c)} \ {NoCosmetic})
        /\ call[c].kind = "claim"
    BY <1>1 DEF ApplyRewards, OrderInv, Ordered
  <1>3. call[c].level \in Levels /\ claimed \in Seq(Levels)
    BY <1>1, <1>2, GoodsCases DEF OrderInv, TypeOK
  <1>4. balance' = InitialBalance + Received' - Spent'
    <2>1. Spent' = Spent
      BY <1>2, SpentKept
    <2>2. /\ Received' = Received + Bonus(c) /\ Bonus(c) \in Int
          /\ Received \in Int /\ Spent \in Int /\ InitialBalance \in Int
      BY <1>1, <1>2, ReceivedMore, BonusIsInt, AmountsAreInt, RewardsConstants
    <2>3. balance = InitialBalance + Received - Spent
      BY DEF PurseInv, Purse
    <2> QED
      BY <1>2, <2>1, <2>2, <2>3
  <1>5. Len(claimed') = Cardinality(Applied')
    <2>1. Len(claimed') = Len(claimed) + 1
      BY <1>2, <1>3
    <2>2. Len(claimed) = Cardinality(Applied)
      BY DEF PurseInv, Purse
    <2> QED
      BY <1>1, <2>1, <2>2, ReceivedMore
  <1>6. ASSUME NEW d \in Applied'
        PROVE  /\ call'[d].level \in ToSet(claimed')
               /\ \A r \in Due(d)' : r.cosmetic \in owned' \cup {NoCosmetic}
    <2>1. ToSet(claimed') = ToSet(claimed) \cup {call[c].level}
      BY <1>2, <1>3, ToSetAppend
    <2>2. Due(d)' = Due(d)
      BY <1>2 DEF Due
    <2>3. d \in Applied \/ d = c
      BY <1>1, <1>6, ReceivedMore
    <2>4. CASE d \in Applied
      <3>1. /\ call[d].level \in ToSet(claimed)
            /\ \A r \in Due(d) : r.cosmetic \in owned \cup {NoCosmetic}
        BY <2>4 DEF PurseInv, Purse
      <3> QED
        BY <1>2, <2>1, <2>2, <3>1
    <2>5. CASE d = c
      <3>1. \A r \in Due(c) : r.cosmetic \in owned' \cup {NoCosmetic}
        BY <1>2
      <3> QED
        BY <1>2, <2>1, <2>2, <2>5, <3>1
    <2> QED
      BY <2>3, <2>4, <2>5
  <1> QED
    BY <1>4, <1>5, <1>6 DEF Purse

LEMMA PurseSpend ==
    ASSUME PurseInv, NEW c \in Calls, Spend(c)
    PROVE  Purse'
  <1>1. OrderInv
    BY DEF PurseInv
  <1>2. /\ UNCHANGED <<claimed, owned, call, saw>> /\ balance' = balance - Cost(c)
        /\ Applied' = Applied
    BY <1>1 DEF Spend, passVars, Applied, OrderInv, TypeOK
  <1>3. Received' = Received /\ \A d \in Applied : Due(d)' = Due(d)
    BY <1>2, ReceivedKept
  <1>4. balance' = InitialBalance + Received' - Spent'
    <2>1. /\ Spent' = Spent + Cost(c) /\ Cost(c) \in Int
          /\ Received \in Int /\ Spent \in Int /\ InitialBalance \in Int
      BY <1>1, SpentMore, AmountsAreInt, RewardsConstants
    <2>2. balance = InitialBalance + Received - Spent
      BY DEF PurseInv, Purse
    <2> QED
      BY <1>2, <1>3, <2>1, <2>2
  <1>5. \A d \in Applied : /\ call[d].level \in ToSet(claimed)
                            /\ \A r \in Due(d) : r.cosmetic \in owned \cup {NoCosmetic}
    BY DEF PurseInv, Purse
  <1>6. Len(claimed) = Cardinality(Applied)
    BY DEF PurseInv, Purse
  <1> QED
    BY <1>2, <1>3, <1>4, <1>5, <1>6 DEF Purse

LEMMA PurseInvNext == PurseInv /\ [Next]_vars => PurseInv'
  <1> SUFFICES ASSUME PurseInv, [Next]_vars PROVE PurseInv'
    OBVIOUS
  <1>0. OrderInv
    BY DEF PurseInv
  <1>1. OrderInv'
    BY OrderInvNext DEF PurseInv
  <1>2. ASSUME \/ UNCHANGED vars
               \/ GetMyProgress
               \/ \E n \in XpGrants : AddXp(n)
        PROVE  Purse'
    <2>1. UNCHANGED <<balance, claimed, owned, phase, call, saw, charged>>
      BY <1>2 DEF vars, passVars, GetMyProgress, AddXp
    <2>2. Applied' = Applied
      BY <2>1 DEF Applied
    <2> QED
      BY <2>1, <2>2, PurseQuiet
  <1>3. ASSUME NEW c \in Calls,
               \/ Arrive(c) \/ ReadProgress(c) \/ ReadForPremium(c) \/ ReadForPurchase(c)
               \/ CheckBalance(c) \/ GrantPremium(c) \/ GrantCosmetic(c) \/ Crash(c)
        PROVE  Purse'
    <2>1. OrderInv /\ (Arrive(c) \/ Step(c) \/ Crash(c))
      BY <1>0, <1>3 DEF Step
    <2>2. UNCHANGED <<balance, claimed, charged>>
      BY <1>3 DEF Arrive, ReadProgress, ReadForPremium, ReadForPurchase, CheckBalance,
         GrantPremium, GrantCosmetic, Crash, Decide, passVars
    <2>3. /\ owned \subseteq owned'
          /\ \A d \in Calls : phase[d] # "new" => call'[d] = call[d]
          /\ \A d \in Calls \ {c} :
                 phase'[d] = phase[d] /\ call'[d] = call[d] /\ saw'[d] = saw[d]
      BY <2>1, OthersKept
    <2>4. c \notin Applied /\ c \notin Applied'
      BY <1>0, <1>3 DEF Arrive, ReadProgress, ReadForPremium, ReadForPurchase, CheckBalance,
         GrantPremium, GrantCosmetic, Crash, Decide, passVars, Applied, OrderInv, TypeOK
    <2>5. Applied' = Applied
      BY <2>3, <2>4 DEF Applied
    <2>6. \A d \in Applied : d \in Calls /\ d # c
      BY <2>4 DEF Applied
    <2>7. \A d \in Applied : saw'[d] = saw[d]
      BY <2>3, <2>6
    <2> QED
      BY <2>2, <2>3, <2>5, <2>7, PurseQuiet
  <1>4. Purse'
    BY <1>2, <1>3, PurseApply, PurseSpend DEF Next, Step
  <1> QED
    BY <1>1, <1>4 DEF PurseInv

LEMMA PurseInvInit == Init => PurseInv
  <1> SUFFICES ASSUME Init PROVE PurseInv
    OBVIOUS
  <1>1. Applied = {} /\ charged = {} /\ claimed = <<>> /\ balance = InitialBalance
    BY DEF Init, Applied
  <1>2. \A g : DOMAIN g = {} => SumFunction(g) = 0
    BY SumFunctionIs, SumOfNone
  <1>3. Received = 0 /\ Spent = 0
    <2>1. Received = SumFunction([c \in {} |-> Bonus(c)])
      BY <1>1 DEF Received
    <2>2. Spent = SumFunction([c \in {} |-> Cost(c)])
      BY <1>1 DEF Spent
    <2> QED
      BY <1>2, <2>1, <2>2
  <1>4. Cardinality(Applied) = 0 /\ Len(claimed) = 0
    BY <1>1, FS_EmptySet
  <1>5. balance = InitialBalance + Received - Spent
    BY <1>1, <1>3, RewardsConstants
  <1> QED
    BY <1>1, <1>4, <1>5, OrderInvInit DEF PurseInv, Purse

\* For any rewards, prices, calls and crashes: the wallet holds the bonuses of
\* the applied claims less the charges, every applied claim left its level and
\* everything it was due behind, and whoever was charged has the goods, or gets
\* them unless the process dies.
THEOREM NothingLost == Spec => []NothingIsLost
  <1>1. PurseInv => NothingIsLost
    <2> SUFFICES ASSUME PurseInv,
                        NEW c \in charged, phase[c] \in {"done", "failed"}
                 PROVE  IF call[c].kind = "premium" THEN premium ELSE call[c].cosmetic \in owned
      BY DEF PurseInv, Purse, NothingIsLost
    <2>1. c \in Calls /\ Ordered(c) /\ OrderInv
      BY DEF PurseInv, OrderInv, TypeOK
    <2>2. call[c].kind \in {"buy", "premium"}
      BY <2>1, ChargedArePurchases
    <2> QED
      BY <2>1, <2>2 DEF Ordered
  <1>2. Spec => []PurseInv
    BY PurseInvInit, PurseInvNext, PTL DEF Spec
  <1> QED
    BY <1>1, <1>2, PTL

-----------------------------------------------------------------------------
(* Notifications: types, and who holds a job *)

Senders == [note : Notes \cup {None},
            step : {"idle", "resolve", "push", "prune", "mark", "settle", "catch"},
            tokens : SUBSET Tokens, rejected : SUBSET Tokens, failed : SUBSET Tokens]

DeviceRequests == [op : {"none", "register", "unregister"}, user : Users \cup {None},
                   token : Tokens \cup {None}, found : BOOLEAN]

RecordTypes ==
    /\ status \in [Notes -> {"none", "PENDING", "SENT", "FAILED"}]
    /\ sender \in [Workers -> Senders]
    /\ request \in [Requests -> DeviceRequests]
    /\ \A w \in Workers : sender[w].step # "idle" => Note(w) \in Notes
    /\ \A w \in Workers : sender[w].step = "idle" => sender[w] = Resting
    /\ \A r \in Requests : request[r].op # "none" =>
          request[r].user \in Users /\ request[r].token \in Tokens
    /\ owner \in [Tokens -> Users \cup {None}]
    /\ valid \cup retaken \subseteq Tokens /\ creating \cup cut \subseteq Notes
    /\ pushed \in [Notes \X Tokens -> Nat]
    /\ addressed \in [Notes -> SUBSET Tokens]
    /\ faults \in 0..MaxFaults

LEMMA RestingIsTyped ==
  /\ Resting \in Senders /\ Resting.step = "idle" /\ Resting.note = None
  /\ Quiet \in DeviceRequests /\ Quiet.op = "none"
  BY DEF Resting, Quiet, Senders, DeviceRequests

LEMMA InitTypes == NotificationInit => RecordTypes
  <1> SUFFICES ASSUME NotificationInit PROVE RecordTypes
    OBVIOUS
  <1>1. /\ sender \in [Workers -> Senders] /\ request \in [Requests -> DeviceRequests]
        /\ \A w \in Workers : sender[w] = Resting
        /\ \A r \in Requests : request[r] = Quiet
    BY RestingIsTyped DEF NotificationInit
  <1> QED BY <1>1, RestingIsTyped, NotificationConstants DEF NotificationInit, RecordTypes

\* A worker that writes no note goes on from the record it has.
LEMMA SenderTypes ==
  ASSUME RecordTypes, NEW w \in Workers, NEW s \in Senders,
         sender' = [sender EXCEPT ![w] = s],
         s = Resting \/ (s.step # "idle" /\ s.note \in Notes)
  PROVE  /\ sender' \in [Workers -> Senders]
         /\ \A v \in Workers : sender'[v].step # "idle" => sender'[v].note \in Notes
         /\ \A v \in Workers : sender'[v].step = "idle" => sender'[v] = Resting
  BY RestingIsTyped DEF RecordTypes, Note

\* What the steps of a worker make of its record.
LEMMA Takes ==
  ASSUME RecordTypes, NEW w \in Workers, NEW n \in Notes, TakeDispatch(w, n)
  PROVE  \/ UNCHANGED sender
         \/ sender' = [sender EXCEPT ![w] = [Resting EXCEPT !.note = n, !.step = "resolve"]]
  <1>1. sender[w] = Resting /\ sender \in [Workers -> Senders]
    BY DEF TakeDispatch, RecordTypes
  <1>2. CASE sender' = [sender EXCEPT ![w].note = n, ![w].step = "resolve"]
    BY <1>1, <1>2 DEF Resting, Senders
  <1> QED BY <1>2 DEF TakeDispatch

LEMMA Goes ==
  ASSUME RecordTypes, NEW w \in Workers, NEW st, Goto(w, st)
  PROVE  sender' = [sender EXCEPT ![w] = [@ EXCEPT !.step = st]]
  BY DEF Goto, RecordTypes

LEMMA Resolves ==
  ASSUME RecordTypes, NEW w \in Workers, Resolve(w)
  PROVE  \E st \in {"settle", "push"} :
            /\ sender' = [sender EXCEPT ![w] = [@ EXCEPT !.tokens = DevicesOf(Note(w)), !.step = st]]
            /\ st = "settle" <=> DevicesOf(Note(w)) = {}
  <1> DEFINE st == IF DevicesOf(Note(w)) = {} THEN "settle" ELSE "push"
  <1>1. sender' = [sender EXCEPT ![w].tokens = DevicesOf(Note(w)), ![w].step = st]
    BY DEF Resolve
  <1> HIDE DEF st
  <1>2. sender' = [sender EXCEPT ![w] = [@ EXCEPT !.tokens = DevicesOf(Note(w)), !.step = st]]
    BY <1>1 DEF RecordTypes, Senders
  <1>3. st \in {"settle", "push"} /\ (st = "settle" <=> DevicesOf(Note(w)) = {})
    BY DEF st
  <1> QED BY <1>2, <1>3

LEMMA Pushes ==
  ASSUME RecordTypes, NEW w \in Workers, Push(w)
  PROVE  \E S \in SUBSET (sender[w].tokens \cap valid) :
            /\ sender' = [sender EXCEPT ![w] =
                   [@ EXCEPT !.rejected = sender[w].tokens \ valid, !.step = "prune",
                             !.failed = (sender[w].tokens \ valid) \cup S]]
            /\ Accept(Note(w), (sender[w].tokens \cap valid) \ S)
            /\ UNCHANGED faults \/ Fault
  <1> DEFINE rejected == sender[w].tokens \ valid
             lost(S) == sender' = [sender EXCEPT ![w].rejected = rejected, ![w].step = "prune",
                                                 ![w].failed = rejected \cup S]
  <1>1. ASSUME NEW S, lost(S)
        PROVE  sender' = [sender EXCEPT ![w] =
                   [@ EXCEPT !.rejected = rejected, !.step = "prune", !.failed = rejected \cup S]]
    BY <1>1 DEF RecordTypes, Senders
  <1>2. CASE lost({}) /\ Accept(Note(w), sender[w].tokens \cap valid) /\ UNCHANGED faults
    <2>1. (sender[w].tokens \cap valid) \ {} = sender[w].tokens \cap valid
      OBVIOUS
    <2>2. sender' = [sender EXCEPT ![w] =
              [@ EXCEPT !.rejected = rejected, !.step = "prune", !.failed = rejected \cup {}]]
      BY <1>1, <1>2
    <2>3. Accept(Note(w), (sender[w].tokens \cap valid) \ {})
      BY <1>2, <2>1
    <2>4. {} \in SUBSET (sender[w].tokens \cap valid)
      OBVIOUS
    <2> QED BY <1>2, <2>2, <2>3, <2>4
  <1>3. CASE \E t \in sender[w].tokens \cap valid :
                /\ Fault /\ lost({t})
                /\ Accept(Note(w), (sender[w].tokens \cap valid) \ {t})
    <2>1. PICK t \in sender[w].tokens \cap valid :
                /\ Fault /\ lost({t})
                /\ Accept(Note(w), (sender[w].tokens \cap valid) \ {t})
      BY <1>3
    <2>2. {t} \in SUBSET (sender[w].tokens \cap valid)
      OBVIOUS
    <2> QED BY <1>1, <2>1, <2>2
  <1> QED BY <1>2, <1>3 DEF Push


LEMMA WorkerTypes ==
  ASSUME RecordTypes, NEW w \in Workers,
         Dispatch(w) \/ Throw(w) \/ FailDispatch(w) \/ LoseDispatch(w)
  PROVE  /\ sender' \in [Workers -> Senders]
         /\ \A v \in Workers : sender'[v].step # "idle" => sender'[v].note \in Notes
         /\ \A v \in Workers : sender'[v].step = "idle" => sender'[v] = Resting
  <1> DEFINE Typed == /\ sender' \in [Workers -> Senders]
                      /\ \A v \in Workers : sender'[v].step # "idle" => sender'[v].note \in Notes
                      /\ \A v \in Workers : sender'[v].step = "idle" => sender'[v] = Resting
  <1>1. sender[w] \in Senders /\ (sender[w].step # "idle" => sender[w].note \in Notes)
    BY DEF RecordTypes, Note
  <1>2. CASE UNCHANGED sender
    BY <1>2 DEF RecordTypes, Note
  <1>3. CASE sender' = [sender EXCEPT ![w] = Resting]
    BY <1>3, SenderTypes, RestingIsTyped
  <1>4. ASSUME NEW n \in Notes, TakeDispatch(w, n) PROVE Typed
    <2>1. PICK s \in Senders : s = [Resting EXCEPT !.note = n, !.step = "resolve"]
      BY DEF Resting, Senders
    <2>2. s.step # "idle" /\ s.note \in Notes
      BY <2>1 DEF Resting
    <2> QED BY <1>2, <1>4, <2>1, <2>2, Takes, SenderTypes
  <1>5. ASSUME NEW st \in {"mark", "catch"}, Goto(w, st), sender[w].step # "idle" PROVE Typed
    <2>1. PICK s \in Senders : s = [sender[w] EXCEPT !.step = st]
      BY <1>1 DEF Senders
    <2>2. s.step # "idle" /\ s.note \in Notes
      BY <1>1, <1>5, <2>1 DEF Senders
    <2> QED BY <1>5, <2>1, <2>2, Goes, SenderTypes
  <1>6. CASE Resolve(w)
    <2>1. sender[w].step # "idle" /\ DevicesOf(Note(w)) \in SUBSET Tokens
      BY <1>6 DEF Resolve, DevicesOf
    <2>2. PICK st \in {"settle", "push"} :
            sender' = [sender EXCEPT ![w] = [@ EXCEPT !.tokens = DevicesOf(Note(w)), !.step = st]]
      BY <1>6, Resolves
    <2>3. PICK s \in Senders : s = [sender[w] EXCEPT !.tokens = DevicesOf(Note(w)), !.step = st]
      BY <1>1, <2>1 DEF Senders
    <2>4. s.step # "idle" /\ s.note \in Notes
      BY <1>1, <2>1, <2>3 DEF Senders
    <2> QED BY <2>2, <2>3, <2>4, SenderTypes
  <1>7. CASE Push(w)
    <2>1. sender[w].step # "idle" /\ sender[w].tokens \in SUBSET Tokens
      BY <1>1, <1>7 DEF Push, Senders
    <2>2. PICK S \in SUBSET (sender[w].tokens \cap valid) :
            sender' = [sender EXCEPT ![w] =
                   [@ EXCEPT !.rejected = sender[w].tokens \ valid, !.step = "prune",
                             !.failed = (sender[w].tokens \ valid) \cup S]]
      BY <1>7, Pushes
    <2>3. PICK s \in Senders : s = [sender[w] EXCEPT
                   !.rejected = sender[w].tokens \ valid, !.step = "prune",
                   !.failed = (sender[w].tokens \ valid) \cup S]
      BY <1>1, <2>1 DEF Senders
    <2>4. s.step # "idle" /\ s.note \in Notes
      BY <1>1, <2>1, <2>3 DEF Senders
    <2> QED BY <2>2, <2>3, <2>4, SenderTypes
  <1> QED
    BY <1>2, <1>3, <1>4, <1>5, <1>6, <1>7
       DEF Dispatch, Prune, Mark, MarkFailed, Settle, Throw, FailDispatch, LoseDispatch

LEMMA PushedTypes ==
  ASSUME pushed \in [Notes \X Tokens -> Nat], NEW n, NEW S, Accept(n, S)
  PROVE  /\ pushed' \in [Notes \X Tokens -> Nat]
         /\ \A m \in Notes, t \in Tokens :
               pushed'[<<m, t>>] = IF m = n /\ t \in S THEN pushed[<<m, t>>] + 1
                                   ELSE pushed[<<m, t>>]
  BY DEF Accept

LEMMA WorkerStepTypes ==
  ASSUME RecordTypes, NEW w \in Workers,
         Dispatch(w) \/ Throw(w) \/ FailDispatch(w) \/ LoseDispatch(w)
  PROVE  RecordTypes'
  <1>1. /\ sender' \in [Workers -> Senders]
        /\ \A v \in Workers : sender'[v].step # "idle" => sender'[v].note \in Notes
        /\ \A v \in Workers : sender'[v].step = "idle" => sender'[v] = Resting
    BY WorkerTypes
  <1>2. UNCHANGED faults \/ Fault
    BY DEF Dispatch, TakeDispatch, Resolve, Push, Prune, Mark, MarkFailed, Throw,
           FailDispatch, LoseDispatch
  <1>3. faults' \in 0..MaxFaults
    BY <1>2, NotificationConstants DEF Fault, RecordTypes
  <1>4. UNCHANGED <<valid, retaken, creating, request>>
    BY DEF Dispatch, TakeDispatch, Resolve, Push, Prune, Mark, MarkFailed, Throw,
           FailDispatch, LoseDispatch, deviceVars
  <1>5. cut' \subseteq Notes
    <2>1. sender[w].step = "catch" => Note(w) \in Notes
      BY DEF RecordTypes
    <2>2. sender[w] # Resting => Note(w) \in Notes
      BY DEF RecordTypes
    <2> QED
      BY <2>1, <2>2 DEF Dispatch, TakeDispatch, Resolve, Push, Prune, Mark, MarkFailed, Throw,
           FailDispatch, LoseDispatch, RecordTypes
  <1>6. status' \in [Notes -> {"none", "PENDING", "SENT", "FAILED"}]
    <2>1. UNCHANGED status \/ \E s \in {"SENT", "FAILED"} : Settle(w, s)
      BY DEF Dispatch, TakeDispatch, Resolve, Push, Prune, Mark, MarkFailed, Throw,
             FailDispatch, LoseDispatch
    <2> QED BY <2>1 DEF RecordTypes, Settle
  <1>7. addressed' \in [Notes -> SUBSET Tokens]
    <2>1. UNCHANGED addressed \/ addressed' = [addressed EXCEPT ![Note(w)] = DevicesOf(Note(w))]
      BY DEF Dispatch, TakeDispatch, Resolve, Push, Prune, Mark, MarkFailed, Throw,
             FailDispatch, LoseDispatch
    <2>2. DevicesOf(Note(w)) \in SUBSET Tokens
      BY DEF DevicesOf
    <2> QED BY <2>1, <2>2 DEF RecordTypes
  <1>8. pushed' \in [Notes \X Tokens -> Nat]
    <2>1. CASE Push(w)
      BY <2>1, Pushes, PushedTypes DEF RecordTypes
    <2>2. CASE UNCHANGED pushed
      BY <2>2 DEF RecordTypes
    <2> QED
      BY <2>1, <2>2 DEF Dispatch, TakeDispatch, Resolve, Prune, Mark, MarkFailed, Throw,
             FailDispatch, LoseDispatch
  <1>9. owner' \in [Tokens -> Users \cup {None}]
    <2>1. CASE Prune(w)
      BY <2>1 DEF Prune, RecordTypes
    <2>2. CASE UNCHANGED owner
      BY <2>2 DEF RecordTypes
    <2> QED
      BY <2>1, <2>2 DEF Dispatch, TakeDispatch, Resolve, Push, Mark, MarkFailed, Throw,
             FailDispatch, LoseDispatch, deviceVars
  <1> QED
    BY <1>1, <1>3, <1>4, <1>5, <1>6, <1>7, <1>8, <1>9 DEF RecordTypes, Note

LEMMA OtherStepTypes ==
  ASSUME RecordTypes,
         \/ \E n \in Notes : Create(n) \/ EnqueueDispatch(n) \/ Abandon(n)
         \/ \E r \in Requests : Device(r)
         \/ \E t \in Tokens : Invalidate(t)
  PROVE  RecordTypes'
  <1>1. ASSUME NEW n \in Notes, Create(n) \/ EnqueueDispatch(n) \/ Abandon(n)
        PROVE  RecordTypes'
    <2>1. UNCHANGED <<sender, pushed, addressed, cut, owner, valid, request, retaken>>
      BY <1>1 DEF Create, EnqueueDispatch, Abandon, deviceVars
    <2>2. creating' \subseteq Notes /\ status' \in [Notes -> {"none", "PENDING", "SENT", "FAILED"}]
      BY <1>1 DEF Create, EnqueueDispatch, Abandon, RecordTypes
    <2>3. faults' \in 0..MaxFaults
      BY <1>1, NotificationConstants
         DEF Create, EnqueueDispatch, Abandon, Fault, RecordTypes
    <2> QED BY <2>1, <2>2, <2>3 DEF RecordTypes, Note
  <1>2. ASSUME NEW r \in Requests, NEW u \in Users, NEW t \in Movable,
               FindDevice(r, u, t) \/ FindOwnDevice(r, u, t)
        PROVE  RecordTypes'
    <2>1. PICK op \in {"register", "unregister"} : Ask(r, op, u, t)
      BY <1>2 DEF FindDevice, FindOwnDevice
    <2>2. PICK q \in DeviceRequests :
             q = [op |-> op, user |-> u, token |-> t, found |-> owner[t] # None]
      <3>1. PICK b \in BOOLEAN : b = (owner[t] # None)
        OBVIOUS
      <3>2. [op |-> op, user |-> u, token |-> t, found |-> b] \in DeviceRequests
        BY NotificationConstants DEF DeviceRequests
      <3> QED BY <3>1, <3>2
    <2>3. request' = [request EXCEPT ![r] = q] /\ t \in Tokens
      BY <2>1, <2>2, NotificationConstants DEF Ask
    <2>4. /\ request' \in [Requests -> DeviceRequests]
          /\ \A s \in Requests : request'[s].op # "none" =>
                request'[s].user \in Users /\ request'[s].token \in Tokens
      BY <2>2, <2>3 DEF RecordTypes
    <2>5. UNCHANGED <<dispatchVars, owner, valid, retaken, faults>>
      BY <2>1 DEF Ask
    <2> QED BY <2>4, <2>5 DEF RecordTypes, dispatchVars, Note
  <1>3. ASSUME NEW r \in Requests, RegisterDevice(r) \/ UnregisterDevice(r)
        PROVE  RecordTypes'
    <2>1. request[r].user \in Users /\ request[r].token \in Tokens
      BY <1>3 DEF RegisterDevice, UnregisterDevice, RecordTypes
    <2>2. request' = [request EXCEPT ![r] = Quiet]
      BY <1>3 DEF RegisterDevice, UnregisterDevice, Answered
    <2>3. /\ request' \in [Requests -> DeviceRequests]
          /\ \A s \in Requests : request'[s].op # "none" =>
                request'[s].user \in Users /\ request'[s].token \in Tokens
      BY <2>2, RestingIsTyped DEF RecordTypes
    <2>4. /\ UNCHANGED <<dispatchVars, valid, faults>>
          /\ owner' \in [Tokens -> Users \cup {None}] /\ retaken' \subseteq Tokens
      BY <1>3, <2>1 DEF RegisterDevice, UnregisterDevice, RecordTypes
    <2> QED BY <2>3, <2>4 DEF RecordTypes, dispatchVars, Note
  <1>4. ASSUME NEW t \in Tokens, Invalidate(t) PROVE RecordTypes'
    BY <1>4 DEF Invalidate, RecordTypes, dispatchVars, Note
  <1> QED BY <1>1, <1>2, <1>3, <1>4 DEF Device

LEMMA TypesStay ==
  ASSUME RecordTypes, [NotificationNext]_notificationVars
  PROVE  RecordTypes'
  <1>1. CASE UNCHANGED notificationVars
    BY <1>1 DEF notificationVars, RecordTypes, Note
  <1> QED BY <1>1, WorkerStepTypes, OtherStepTypes DEF NotificationNext

\* A job that is not over has an attempt left, and only a job that is being run
\* has a holder.
JobOK(j) ==
    /\ j \in Jobs
    /\ j.state \in {"absent", "waiting", "active"} => j.tries < Attempts
    /\ j.by # Nobody => j.state = "active"

JobRecords == [state : {"absent", "waiting", "active", "done", "failed"},
               tries : Nat, stalls : Nat, by : Workers \cup {Nobody}]

\* What becomes of a job that its holder fails or loses, field by field.
LEMMA JobForms ==
  ASSUME NEW j \in JobRecords, NEW w, j.by = w
  PROVE  /\ FailedBy(j, w) = [state |-> IF j.tries + 1 < Attempts THEN "waiting" ELSE "failed",
                              tries |-> j.tries + 1, stalls |-> j.stalls, by |-> Nobody]
         /\ j.stalls < MaxStalled => ReleasedBy(j, w) =
               [state |-> "waiting", tries |-> j.tries, stalls |-> j.stalls + 1, by |-> Nobody]
         /\ ~(j.stalls < MaxStalled) => ReleasedBy(j, w) =
               [state |-> "failed", tries |-> j.tries, stalls |-> j.stalls, by |-> Nobody]
  <1>1. FailedBy(j, w) = [state |-> IF j.tries + 1 < Attempts THEN "waiting" ELSE "failed",
                          tries |-> j.tries + 1, stalls |-> j.stalls, by |-> Nobody]
    BY DEF JobRecords, FailedBy
  <1>2. j.stalls < MaxStalled => ReleasedBy(j, w) =
            [state |-> "waiting", tries |-> j.tries, stalls |-> j.stalls + 1, by |-> Nobody]
    BY DEF JobRecords, ReleasedBy
  <1>3. ~(j.stalls < MaxStalled) => ReleasedBy(j, w) =
            [state |-> "failed", tries |-> j.tries, stalls |-> j.stalls, by |-> Nobody]
    BY DEF JobRecords, ReleasedBy
  <1> QED BY <1>1, <1>2, <1>3

LEMMA JobsAreOK ==
  ASSUME NEW j, JobOK(j), NEW w \in Workers
  PROVE  /\ JobOK(NoJob) /\ JobOK(Added(j)) /\ JobOK(FinishedBy(j, w))
         /\ JobOK(FailedBy(j, w)) /\ JobOK(ReleasedBy(j, w))
         /\ j.state = "waiting" => /\ JobOK(TakenBy(j, w)) /\ TakenBy(j, w).by = w
                                   /\ JobOK(FinishedBy(TakenBy(j, w), w))
                                   /\ JobOK(FailedBy(TakenBy(j, w), w))
  <1> USE QueueConstants DEF JobOK, Jobs
  <1>1. JobOK(NoJob) /\ JobOK(Added(j))
    BY DEF NoJob, Added
  <1>2. JobOK(FinishedBy(j, w)) /\ JobOK(ReleasedBy(j, w))
    <2>1. JobOK(FinishedBy(j, w))
      BY DEF FinishedBy
    <2>2. CASE j.by # w
      BY <2>1, <2>2 DEF ReleasedBy
    <2>3. CASE j.by = w
      <3>1. /\ j \in JobRecords
            /\ j.stalls \in 0..MaxStalled /\ j.tries \in 0..Attempts /\ j.tries < Attempts
        BY <2>3 DEF JobRecords
      <3>2. j.stalls < MaxStalled => j.stalls + 1 \in 0..MaxStalled
        BY <3>1
      <3>3. CASE j.stalls < MaxStalled
        <4>1. ReleasedBy(j, w) =
                [state |-> "waiting", tries |-> j.tries, stalls |-> j.stalls + 1, by |-> Nobody]
          BY <2>3, <3>1, <3>3, JobForms
        <4> QED BY <2>1, <3>1, <3>2, <3>3, <4>1
      <3>4. CASE ~(j.stalls < MaxStalled)
        <4>1. ReleasedBy(j, w) =
                [state |-> "failed", tries |-> j.tries, stalls |-> j.stalls, by |-> Nobody]
          BY <2>3, <3>1, <3>4, JobForms
        <4> QED BY <2>1, <3>1, <4>1
      <3> QED BY <3>3, <3>4
    <2> QED BY <2>1, <2>2, <2>3
  <1>3. ASSUME NEW k, JobOK(k) PROVE JobOK(FinishedBy(k, w)) /\ JobOK(FailedBy(k, w))
    <2>1. JobOK(FinishedBy(k, w))
      BY <1>3 DEF FinishedBy
    <2>2. CASE k.by # w
      BY <1>3, <2>1, <2>2 DEF FailedBy
    <2>3. CASE k.by = w
      <3>1. k.tries + 1 \in 0..Attempts
        BY <1>3, <2>3
      <3>2. FailedBy(k, w) = [state |-> IF k.tries + 1 < Attempts THEN "waiting" ELSE "failed",
                              tries |-> k.tries + 1, stalls |-> k.stalls, by |-> Nobody]
        <4>1. k \in JobRecords
          BY <1>3 DEF JobRecords
        <4> QED BY <2>3, <4>1, JobForms
      <3>3. k.stalls \in 0..MaxStalled
        BY <1>3
      <3> QED BY <2>1, <3>1, <3>2, <3>3
    <2> QED BY <2>2, <2>3
  <1>4. ASSUME j.state = "waiting" PROVE JobOK(TakenBy(j, w)) /\ TakenBy(j, w).by = w
    BY <1>4 DEF TakenBy
  <1> QED BY <1>1, <1>2, <1>3, <1>4

\* Nobody holds a job by failing it, finishing it or losing it.
LEMMA Holders ==
  ASSUME NEW j \in Jobs, NEW w \in Workers, NEW v \in Workers
  PROVE  /\ NoJob.by # v /\ Added(j).by = j.by
         /\ FinishedBy(j, w).by = v => j.by = v /\ v # w
         /\ FailedBy(j, w).by = v => j.by = v /\ v # w
         /\ ReleasedBy(j, w).by = v => j.by = v /\ v # w
         /\ TakenBy(j, w).by = v => v = w
         /\ FinishedBy(TakenBy(j, w), w).by # v
         /\ FailedBy(TakenBy(j, w), w).by # v
  BY QueueConstants DEF Jobs, NoJob, Added, FinishedBy, FailedBy, ReleasedBy, TakenBy

DispatchJobs ==
    /\ job \in [Notes -> Jobs]
    /\ \A n \in Notes : JobOK(job[n])
    /\ \A n \in Notes, w \in Workers : job[n].by = w => Note(w) = n

\* One job changes, and one worker takes it up or lets it go.
JobMove(n, j, w) ==
    /\ job' = [job EXCEPT ![n] = j]
    /\ Note(w) \in {n, None}
    /\ \A v \in Workers \ {w} : sender'[v].note = sender[v].note
    /\ \A v \in Workers \ {w} : j.by = v => job[n].by = v
    /\ j.by = w => sender'[w].note = n

LEMMA JobMoves ==
  ASSUME DispatchJobs, NEW n \in Notes, NEW j \in Jobs, JobOK(j), NEW w \in Workers,
         JobMove(n, j, w)
  PROVE  DispatchJobs'
  <1> USE DEF JobMove
  <1>1. job' \in [Notes -> Jobs] /\ \A m \in Notes : JobOK(job'[m])
    BY DEF DispatchJobs
  <1>2. ASSUME NEW m \in Notes, NEW v \in Workers, job'[m].by = v
        PROVE  sender'[v].note = m
    <2>1. CASE m = n
      BY <1>2, <2>1 DEF DispatchJobs, Note
    <2>2. CASE m # n
      BY <1>2, <2>2, NotificationConstants DEF DispatchJobs, Note
    <2> QED BY <2>1, <2>2
  <1> QED BY <1>1, <1>2 DEF DispatchJobs, Note, JobOK

\* The job stays, and so does whose note is whose.
LEMMA JobsStay ==
  ASSUME DispatchJobs, UNCHANGED job, \A v \in Workers : sender'[v].note = sender[v].note
  PROVE  DispatchJobs'
  BY DEF DispatchJobs, Note, JobOK

LEMMA WorkerJobs ==
  ASSUME RecordTypes, DispatchJobs, NEW w \in Workers,
         Dispatch(w) \/ Throw(w) \/ FailDispatch(w) \/ LoseDispatch(w)
  PROVE  DispatchJobs'
  <1>1. sender[w] \in Senders /\ sender \in [Workers -> Senders]
    BY DEF RecordTypes
  <1>2. ASSUME NEW n \in Notes, TakeDispatch(w, n) PROVE DispatchJobs'
    <2>1. job[n].state = "waiting" /\ JobOK(job[n]) /\ Note(w) = None
      BY <1>2 DEF TakeDispatch, DispatchJobs, Note, Resting
    <2>2. CASE status[n] = "PENDING"
      <3>1. /\ job' = [job EXCEPT ![n] = TakenBy(@, w)]
            /\ sender' = [sender EXCEPT ![w].note = n, ![w].step = "resolve"]
        BY <1>2, <2>2 DEF TakeDispatch
      <3>2. PICK j \in Jobs : j = TakenBy(job[n], w) /\ JobOK(j)
        BY <2>1, JobsAreOK DEF JobOK
      <3>3. job' = [job EXCEPT ![n] = j] /\ JobOK(j)
        BY <3>1, <3>2
      <3>4. sender'[w].note = n /\ \A v \in Workers \ {w} : sender'[v].note = sender[v].note
        BY <1>1, <2>1, <3>1 DEF Senders
      <3>5. /\ Note(w) \in {n, None}
            /\ \A v \in Workers \ {w} : sender'[v].note = sender[v].note
            /\ \A v \in Workers \ {w} : j.by = v => job[n].by = v
            /\ j.by = w => sender'[w].note = n
        BY <2>1, <3>2, <3>4, Holders DEF JobOK
      <3>6. JobMove(n, j, w)
        BY <3>3, <3>5 DEF JobMove
      <3> QED BY <3>3, <3>6, JobMoves
    <2>3. CASE status[n] # "PENDING"
      <3>1. job' = [job EXCEPT ![n] = FinishedBy(TakenBy(@, w), w)] /\ UNCHANGED sender
        BY <1>2, <2>3 DEF TakeDispatch
      <3>2. PICK j \in Jobs : j = FinishedBy(TakenBy(job[n], w), w) /\ JobOK(j)
        BY <2>1, JobsAreOK DEF JobOK
      <3>3. job' = [job EXCEPT ![n] = j] /\ JobOK(j)
        BY <3>1, <3>2
      <3>4. \A v \in Workers : j.by # v
        BY <2>1, <3>2, Holders DEF JobOK
      <3>5. /\ Note(w) \in {n, None}
            /\ \A v \in Workers \ {w} : sender'[v].note = sender[v].note
            /\ \A v \in Workers \ {w} : j.by = v => job[n].by = v
            /\ j.by = w => sender'[w].note = n
        BY <2>1, <3>1, <3>4
      <3>6. JobMove(n, j, w)
        BY <3>3, <3>5 DEF JobMove
      <3> QED BY <3>3, <3>6, JobMoves
    <2> QED BY <2>2, <2>3
  <1>3. ASSUME UNCHANGED job, NEW s, s.note = sender[w].note, sender' = [sender EXCEPT ![w] = s]
        PROVE  DispatchJobs'
    <2>1. \A v \in Workers : sender'[v].note = sender[v].note
      BY <1>1, <1>3
    <2> QED BY <1>3, <2>1, JobsStay
  <1>4. CASE Resolve(w)
    <2>1. PICK st \in {"settle", "push"} :
            sender' = [sender EXCEPT ![w] = [@ EXCEPT !.tokens = DevicesOf(Note(w)), !.step = st]]
      BY <1>4, Resolves
    <2>2. [sender[w] EXCEPT !.tokens = DevicesOf(Note(w)), !.step = st].note = sender[w].note
      BY <1>1 DEF Senders
    <2> QED BY <1>3, <1>4, <2>1, <2>2 DEF Resolve
  <1>5. CASE Push(w)
    <2>1. PICK S \in SUBSET (sender[w].tokens \cap valid) :
            sender' = [sender EXCEPT ![w] =
                   [@ EXCEPT !.rejected = sender[w].tokens \ valid, !.step = "prune",
                             !.failed = (sender[w].tokens \ valid) \cup S]]
      BY <1>5, Pushes
    <2>2. [sender[w] EXCEPT !.rejected = sender[w].tokens \ valid, !.step = "prune",
                            !.failed = (sender[w].tokens \ valid) \cup S].note = sender[w].note
      BY <1>1 DEF Senders
    <2> QED BY <1>3, <1>5, <2>1, <2>2 DEF Push
  <1>6. CASE Prune(w) \/ Throw(w)
    <2>1. PICK st : sender' = [sender EXCEPT ![w] = [@ EXCEPT !.step = st]]
      BY <1>6, Goes DEF Prune, Throw
    <2>2. [sender[w] EXCEPT !.step = st].note = sender[w].note
      BY <1>1 DEF Senders
    <2> QED BY <1>3, <1>6, <2>1, <2>2 DEF Prune, Throw
  <1>7. CASE Mark(w) \/ MarkFailed(w) \/ FailDispatch(w) \/ LoseDispatch(w)
    <2>1. sender[w] # Resting
      BY <1>7 DEF Mark, MarkFailed, FailDispatch, LoseDispatch, Resting
    <2>2. PICK n \in Notes : n = Note(w)
      BY <2>1 DEF RecordTypes
    <2>3. /\ JobOK(FinishedBy(job[n], w)) /\ JobOK(FailedBy(job[n], w))
          /\ JobOK(ReleasedBy(job[n], w))
      BY JobsAreOK DEF DispatchJobs
    <2>4. PICK j \in Jobs : /\ job' = [job EXCEPT ![n] = j] /\ JobOK(j)
                            /\ j \in {FinishedBy(job[n], w), FailedBy(job[n], w),
                                      ReleasedBy(job[n], w)}
      BY <1>7, <2>2, <2>3 DEF Mark, MarkFailed, FailDispatch, LoseDispatch, JobOK
    <2>5. \A v \in Workers : j.by = v => job[n].by = v /\ v # w
      BY <2>4, Holders DEF DispatchJobs
    <2>6. job' = [job EXCEPT ![n] = j] /\ JobOK(j)
      BY <2>4
    <2>7. \A v \in Workers \ {w} : sender'[v].note = sender[v].note
      BY <1>1, <1>7 DEF Mark, MarkFailed, FailDispatch, LoseDispatch, Settle
    <2>8. /\ Note(w) \in {n, None}
          /\ \A v \in Workers \ {w} : j.by = v => job[n].by = v
          /\ j.by = w => sender'[w].note = n
      BY <2>2, <2>5
    <2>9. JobMove(n, j, w)
      BY <2>6, <2>7, <2>8 DEF JobMove
    <2> QED BY <2>6, <2>9, JobMoves
  <1> QED BY <1>2, <1>4, <1>5, <1>6, <1>7 DEF Dispatch

LEMMA JobsOfNext ==
  ASSUME RecordTypes, DispatchJobs, [NotificationNext]_notificationVars
  PROVE  DispatchJobs'
  <1>1. ASSUME NEW n \in Notes, Create(n) \/ EnqueueDispatch(n) \/ Abandon(n)
        PROVE  DispatchJobs'
    <2>1. UNCHANGED sender
      BY <1>1 DEF Create, EnqueueDispatch, Abandon
    <2>2. CASE UNCHANGED job
      BY <2>1, <2>2, JobsStay
    <2>3. CASE job' = [job EXCEPT ![n] = Added(@)]
      <3>1. /\ Added(job[n]) \in Jobs /\ JobOK(Added(job[n]))
            /\ Added(job[n]).by = job[n].by
        BY QueueConstants DEF DispatchJobs, JobOK, Added, Jobs
      <3> QED BY <2>1, <2>3, <3>1 DEF DispatchJobs, Note, JobOK
    <2> QED BY <1>1, <2>2, <2>3 DEF Create, EnqueueDispatch, Abandon
  <1>2. CASE (\E r \in Requests : Device(r)) \/ \E t \in Tokens : Invalidate(t)
    <2>1. UNCHANGED <<job, sender>>
      BY <1>2 DEF Device, FindDevice, FindOwnDevice, Ask, RegisterDevice, UnregisterDevice,
                  Invalidate, dispatchVars
    <2> QED BY <2>1, JobsStay
  <1>3. CASE UNCHANGED notificationVars
    BY <1>3, JobsStay DEF notificationVars
  <1> QED BY <1>1, <1>2, <1>3, WorkerJobs DEF NotificationNext

LEMMA TypeInvariant == NotificationSpec => [](RecordTypes /\ DispatchJobs)
  <1>1. NotificationInit => DispatchJobs
    <2>1. JobOK(NoJob) /\ \A w \in Workers : NoJob.by # w
      BY QueueConstants DEF JobOK, Jobs, NoJob
    <2> QED BY <2>1 DEF NotificationInit, DispatchJobs, JobOK
  <1> QED BY <1>1, InitTypes, TypesStay, JobsOfNext, PTL DEF NotificationSpec

\* Every variable has its type, a job that is not over has an attempt left, and
\* the worker that holds a job is dispatching its notification.
THEOREM NotificationTypeCorrect == NotificationSpec => []NotificationTypeOK
  <1>1. RecordTypes /\ DispatchJobs => NotificationTypeOK
    BY DEF RecordTypes, DispatchJobs, NotificationTypeOK
  <1> QED BY <1>1, TypeInvariant, PTL

-----------------------------------------------------------------------------
(* A notification is sent once, and what is SENT was accepted everywhere *)

\* The worker that dispatches a notification has it to itself: it is PENDING,
\* nothing was pushed before the push, and after it every device that did not
\* fail was reached.
WorkerOn(w, n) ==
    /\ job[n].state = "active" /\ status[n] = "PENDING"
    /\ sender[w].step \in {"resolve", "push", "settle"} =>
          /\ sender[w].failed = {}
          /\ \A t \in Tokens : pushed[<<n, t>>] = 0
    /\ sender[w].step \in {"push", "prune", "mark", "settle"} => sender[w].tokens = addressed[n]
    /\ sender[w].step = "settle" => sender[w].tokens = {}
    /\ sender[w].step \in {"prune", "mark"} =>
          \A t \in sender[w].tokens \ sender[w].failed : pushed[<<n, t>>] > 0

Uncut(n) ==
    /\ \A t \in Tokens : pushed[<<n, t>>] <= 1
    /\ \A v, w \in Workers : sender[v].note = n /\ sender[w].note = n => v = w
    /\ \A w \in Workers : sender[w].note = n => WorkerOn(w, n)
    /\ status[n] \in {"none", "PENDING"} /\ (\A w \in Workers : sender[w].note # n) =>
          \A t \in Tokens : pushed[<<n, t>>] = 0
    /\ status[n] = "SENT" => \A t \in addressed[n] : pushed[<<n, t>>] > 0

UncutInv == \A n \in Notes \ cut : Uncut(n)

\* What is queued exists, and what is done is settled.
SettledInv ==
    /\ \A n \in creating : status[n] # "none"
    /\ \A n \in Notes : job[n].state # "absent" => status[n] # "none"
    /\ DoneIsSettled

\* Dispatching one notification does not touch another.
LEMMA OtherNote ==
  ASSUME RecordTypes, NEW n \in Notes, Uncut(n),
         job'[n] = job[n], status'[n] = status[n], addressed'[n] = addressed[n],
         \A t \in Tokens : pushed'[<<n, t>>] = pushed[<<n, t>>],
         \A v \in Workers : \/ sender'[v] = sender[v]
                            \/ sender'[v].note # n /\ sender[v].note # n
  PROVE  Uncut(n)'
  <1>1. \A v \in Workers : sender'[v].note = n => sender[v].note = n /\ sender'[v] = sender[v]
    OBVIOUS
  <1>2. \A v \in Workers : sender[v].note = n => sender'[v].note = n
    OBVIOUS
  <1>3. ASSUME NEW v \in Workers, sender'[v].note = n PROVE WorkerOn(v, n)'
    <2>1. WorkerOn(v, n) /\ sender'[v] = sender[v] /\ sender[v].tokens \subseteq Tokens
      BY <1>1, <1>3 DEF Uncut, RecordTypes, Senders
    <2> QED BY <2>1 DEF WorkerOn
  <1>4. \A t \in Tokens : pushed'[<<n, t>>] <= 1
    BY DEF Uncut
  <1>5. \A v, w \in Workers : sender'[v].note = n /\ sender'[w].note = n => v = w
    BY <1>1 DEF Uncut
  <1>6. status'[n] \in {"none", "PENDING"} /\ (\A w \in Workers : sender'[w].note # n) =>
          \A t \in Tokens : pushed'[<<n, t>>] = 0
    BY <1>2 DEF Uncut
  <1>7. ASSUME status'[n] = "SENT" PROVE \A t \in addressed'[n] : pushed'[<<n, t>>] > 0
    BY <1>7 DEF Uncut, RecordTypes
  <1> QED BY <1>3, <1>4, <1>5, <1>6, <1>7 DEF Uncut

\* The steps of a worker w on its notification n.
LEMMA TakeUncut ==
  ASSUME RecordTypes, DispatchJobs, SettledInv, NEW w \in Workers, NEW n \in Notes,
         TakeDispatch(w, n), Uncut(n)
  PROVE  Uncut(n)'
  <1>1. /\ job[n].state = "waiting" /\ job[n] \in Jobs /\ job \in [Notes -> Jobs]
        /\ UNCHANGED <<status, pushed, addressed>>
    BY DEF TakeDispatch, DispatchJobs
  <1>2. \A v \in Workers : sender[v].note # n
    BY <1>1 DEF Uncut, WorkerOn
  <1>3. CASE UNCHANGED sender
    BY <1>1, <1>2, <1>3 DEF Uncut, WorkerOn
  <1>4. CASE /\ status[n] = "PENDING"
             /\ sender' = [sender EXCEPT ![w] = [Resting EXCEPT !.note = n, !.step = "resolve"]]
             /\ job' = [job EXCEPT ![n] = TakenBy(@, w)]
    <2>1. sender'[w] = [Resting EXCEPT !.note = n, !.step = "resolve"]
      BY <1>4 DEF RecordTypes
    <2>2. sender'[w].note = n /\ sender'[w].step = "resolve" /\ sender'[w].failed = {}
      BY <2>1 DEF Resting
    <2>3. job'[n].state = "active"
      BY <1>1, <1>4 DEF TakenBy, Jobs
    <2>4. \A v \in Workers \ {w} : sender'[v] = sender[v]
      BY <1>4
    <2>5. \A t \in Tokens : pushed[<<n, t>>] = 0
      BY <1>2, <1>4 DEF Uncut
    <2>6. WorkerOn(w, n)'
      BY <1>1, <1>4, <2>2, <2>3, <2>5 DEF WorkerOn
    <2> QED BY <1>1, <1>2, <1>4, <2>2, <2>4, <2>5, <2>6 DEF Uncut
  <1>5. status[n] = "PENDING" => job' = [job EXCEPT ![n] = TakenBy(@, w)]
    BY DEF TakeDispatch
  <1>6. status[n] # "PENDING" => UNCHANGED sender
    BY DEF TakeDispatch
  <1> QED BY <1>3, <1>4, <1>5, <1>6, Takes

\* A worker that goes on with its notification.
LEMMA GoOnUncut ==
  ASSUME NEW w \in Workers, NEW n \in Notes, Uncut(n), sender[w].note = n,
         sender'[w].note = n, \A v \in Workers \ {w} : sender'[v] = sender[v],
         status'[n] = status[n], WorkerOn(w, n)',
         \A t \in Tokens : pushed'[<<n, t>>] <= 1
  PROVE  Uncut(n)'
  <1>1. status[n] = "PENDING"
    BY DEF Uncut, WorkerOn
  <1>2. \A v \in Workers : sender'[v].note = n => v = w
    BY DEF Uncut
  <1> QED BY <1>1, <1>2 DEF Uncut

LEMMA ResolveUncut ==
  ASSUME RecordTypes, NEW w \in Workers, NEW n \in Notes, Resolve(w), sender[w].note = n,
         Uncut(n)
  PROVE  Uncut(n)'
  <1>1. PICK st \in {"settle", "push"} :
            /\ sender' = [sender EXCEPT ![w] = [@ EXCEPT !.tokens = DevicesOf(Note(w)), !.step = st]]
            /\ st = "settle" <=> DevicesOf(Note(w)) = {}
    BY Resolves
  <1>2. PICK found : found = DevicesOf(Note(w)) /\ (st = "settle" <=> found = {})
    BY <1>1
  <1>3. sender'[w] = [sender[w] EXCEPT !.tokens = found, !.step = st]
    BY <1>1, <1>2 DEF RecordTypes
  <1>4. /\ sender'[w].note = n /\ sender'[w].tokens = found /\ sender'[w].step = st
        /\ sender'[w].failed = sender[w].failed
    BY <1>3 DEF RecordTypes, Senders
  <1>5. addressed'[n] = found /\ UNCHANGED <<status, job, pushed>> /\ sender[w].step = "resolve"
    BY <1>2 DEF Resolve, Note, RecordTypes
  <1>6. WorkerOn(w, n)
    BY DEF Uncut
  <1>7. WorkerOn(w, n)'
    BY <1>2, <1>4, <1>5, <1>6 DEF WorkerOn
  <1>8. /\ \A v \in Workers \ {w} : sender'[v] = sender[v]
        /\ \A t \in Tokens : pushed'[<<n, t>>] <= 1
    BY <1>1, <1>5 DEF Uncut
  <1> QED BY <1>4, <1>5, <1>7, <1>8, GoOnUncut

LEMMA PushUncut ==
  ASSUME RecordTypes, NEW w \in Workers, NEW n \in Notes, Push(w), sender[w].note = n,
         Uncut(n)
  PROVE  Uncut(n)'
  <1>1. PICK S \in SUBSET (sender[w].tokens \cap valid) :
            /\ sender' = [sender EXCEPT ![w] =
                   [@ EXCEPT !.rejected = sender[w].tokens \ valid, !.step = "prune",
                             !.failed = (sender[w].tokens \ valid) \cup S]]
            /\ Accept(n, (sender[w].tokens \cap valid) \ S)
    BY Pushes DEF Note
  <1>2. sender'[w] = [sender[w] EXCEPT !.rejected = sender[w].tokens \ valid, !.step = "prune",
                                       !.failed = (sender[w].tokens \ valid) \cup S]
    BY <1>1 DEF RecordTypes
  <1>3. /\ sender'[w].note = n /\ sender'[w].tokens = sender[w].tokens
        /\ sender'[w].step = "prune"
        /\ sender'[w].failed = (sender[w].tokens \ valid) \cup S
    BY <1>2 DEF RecordTypes, Senders
  <1>4. UNCHANGED <<status, job, addressed>> /\ sender[w].step = "push"
        /\ sender[w].tokens \subseteq Tokens
    BY DEF Push, RecordTypes, Senders
  <1>5. WorkerOn(w, n)
    BY DEF Uncut
  <1>6. \A t \in Tokens : pushed[<<n, t>>] = 0
    BY <1>4, <1>5 DEF WorkerOn
  <1>7. \A t \in Tokens :
            pushed'[<<n, t>>] = IF t \in (sender[w].tokens \cap valid) \ S
                                THEN pushed[<<n, t>>] + 1 ELSE pushed[<<n, t>>]
    BY <1>1, PushedTypes DEF RecordTypes
  <1>8. WorkerOn(w, n)'
    <2>1. /\ job'[n].state = "active" /\ status'[n] = "PENDING"
          /\ sender'[w].tokens = addressed'[n]
      BY <1>3, <1>4, <1>5 DEF WorkerOn
    <2>2. \A t \in sender'[w].tokens \ sender'[w].failed : pushed'[<<n, t>>] > 0
      BY <1>3, <1>4, <1>6, <1>7
    <2> QED BY <1>3, <2>1, <2>2 DEF WorkerOn
  <1>9. /\ \A v \in Workers \ {w} : sender'[v] = sender[v]
        /\ \A t \in Tokens : pushed'[<<n, t>>] <= 1
    BY <1>1, <1>6, <1>7
  <1> QED BY <1>3, <1>4, <1>8, <1>9, GoOnUncut

LEMMA MoveOnUncut ==
  ASSUME RecordTypes, NEW w \in Workers, NEW n \in Notes, Prune(w) \/ Throw(w),
         sender[w].note = n, Uncut(n)
  PROVE  Uncut(n)'
  <1>1. PICK st \in {"mark", "catch"} :
            /\ sender' = [sender EXCEPT ![w] = [@ EXCEPT !.step = st]]
            /\ st = "mark" => sender[w].step = "prune"
    BY Goes DEF Prune, Throw
  <1>2. /\ sender'[w].note = n /\ sender'[w].step = st
        /\ sender'[w].tokens = sender[w].tokens /\ sender'[w].failed = sender[w].failed
    BY <1>1 DEF RecordTypes, Senders
  <1>3. UNCHANGED <<status, job, addressed, pushed>> /\ sender[w].tokens \subseteq Tokens
    BY DEF Prune, Throw, RecordTypes, Senders
  <1>4. WorkerOn(w, n)
    BY DEF Uncut
  <1>5. WorkerOn(w, n)'
    BY <1>1, <1>2, <1>3, <1>4 DEF WorkerOn
  <1>6. /\ \A v \in Workers \ {w} : sender'[v] = sender[v]
        /\ \A t \in Tokens : pushed'[<<n, t>>] <= 1
    BY <1>1, <1>3 DEF Uncut
  <1> QED BY <1>2, <1>3, <1>5, <1>6, GoOnUncut

\* A worker that leaves its notification settled, or nothing of it pushed.
LEMMA EndUncut ==
  ASSUME RecordTypes, NEW w \in Workers, NEW n \in Notes, sender[w].note = n, Uncut(n),
         Mark(w) \/ MarkFailed(w) \/ (FailDispatch(w) /\ sender[w].step # "catch")
  PROVE  Uncut(n)'
  <1>1. sender' = [sender EXCEPT ![w] = Resting] /\ UNCHANGED <<pushed, addressed>>
    BY DEF Mark, MarkFailed, FailDispatch, Settle
  <1>2. sender'[w].note # n /\ \A v \in Workers \ {w} : sender'[v] = sender[v]
    BY <1>1, RestingIsTyped, NotificationConstants DEF RecordTypes
  <1>3. \A v \in Workers : sender'[v].note # n
    BY <1>2 DEF Uncut
  <1>4. WorkerOn(w, n) /\ addressed[n] \subseteq Tokens
    BY DEF Uncut, RecordTypes
  <1>5. CASE FailDispatch(w) /\ sender[w].step # "catch"
    <2>1. sender[w].step \in {"resolve", "settle"} /\ UNCHANGED status
      BY <1>5 DEF FailDispatch
    <2>2. \A t \in Tokens : pushed[<<n, t>>] = 0
      BY <1>4, <2>1 DEF WorkerOn
    <2> QED BY <1>1, <1>3, <1>4, <2>1, <2>2 DEF Uncut, WorkerOn
  <1>6. CASE MarkFailed(w)
    <2>1. status'[n] = "FAILED"
      BY <1>6 DEF MarkFailed, Settle, Note, RecordTypes
    <2> QED BY <1>1, <1>3, <2>1 DEF Uncut
  <1>7. CASE Mark(w)
    <2>1. /\ status'[n] = IF sender[w].failed = {} THEN "SENT" ELSE "FAILED"
          /\ sender[w].step \in {"mark", "settle"}
      BY <1>7 DEF Mark, Settle, Note, RecordTypes
    <2>2. sender[w].failed = {} => \A t \in addressed[n] : pushed[<<n, t>>] > 0
      BY <1>4, <2>1 DEF WorkerOn
    <2> QED BY <1>1, <1>3, <2>1, <2>2 DEF Uncut
  <1> QED BY <1>5, <1>6, <1>7

LEMMA WorkerUncut ==
  ASSUME RecordTypes, DispatchJobs, SettledInv, UncutInv, NEW w \in Workers,
         Dispatch(w) \/ Throw(w) \/ FailDispatch(w) \/ LoseDispatch(w)
  PROVE  UncutInv'
  <1> SUFFICES ASSUME NEW n \in Notes \ cut' PROVE Uncut(n)'
    BY DEF UncutInv
  <1>1. cut \subseteq cut' /\ Uncut(n)
    BY DEF Dispatch, TakeDispatch, Resolve, Push, Prune, Mark, MarkFailed, Throw,
           FailDispatch, LoseDispatch, UncutInv
  <1>2. \A v \in Workers \ {w} : sender'[v] = sender[v]
    <2>1. UNCHANGED sender \/ \E s : sender' = [sender EXCEPT ![w] = s]
      BY Takes, Goes, Resolves, Pushes
         DEF Dispatch, Prune, Mark, MarkFailed, Throw, FailDispatch, LoseDispatch, Settle
    <2> QED BY <2>1 DEF RecordTypes
  <1>3. ASSUME NEW m \in Notes, TakeDispatch(w, m) PROVE Uncut(n)'
    <2>1. CASE m = n
      BY <1>1, <1>3, <2>1, TakeUncut
    <2>2. CASE m # n
      <3>1. /\ job'[n] = job[n] /\ UNCHANGED <<status, addressed, pushed>>
            /\ sender[w] = Resting
        BY <1>3, <2>2 DEF TakeDispatch, DispatchJobs
      <3>2. sender'[w] = sender[w] \/ sender'[w].note = m
        <4>1. [Resting EXCEPT !.note = m, !.step = "resolve"].note = m
          BY DEF Resting
        <4>2. sender \in [Workers -> Senders]
          BY DEF RecordTypes
        <4>3. CASE sender' = [sender EXCEPT ![w] = [Resting EXCEPT !.note = m, !.step = "resolve"]]
          BY <4>1, <4>2, <4>3
        <4> QED BY <1>3, <4>3, Takes
      <3>3. sender[w].note # n
        BY <3>1, RestingIsTyped, NotificationConstants
      <3> QED BY <1>1, <1>2, <2>2, <3>1, <3>2, <3>3, OtherNote
    <2> QED BY <2>1, <2>2
  <1>4. ASSUME ~\E m \in Notes : TakeDispatch(w, m) PROVE Uncut(n)'
    <2>1. sender[w] # Resting
      BY <1>4 DEF Dispatch, Resolve, Push, Prune, Mark, MarkFailed, Throw, FailDispatch,
                  LoseDispatch, Resting
    <2>2. PICK m \in Notes : m = sender[w].note
      BY <2>1 DEF RecordTypes, Note
    <2>3. CASE m = n
      <3>1. ~LoseDispatch(w) /\ ~(FailDispatch(w) /\ sender[w].step = "catch")
        BY <2>2, <2>3 DEF LoseDispatch, FailDispatch, Note
      <3> QED
        BY <1>1, <1>4, <2>2, <2>3, <3>1, ResolveUncut, PushUncut, MoveOnUncut, EndUncut
           DEF Dispatch
    <2>4. CASE m # n
      <3>1. job'[n] = job[n] /\ status'[n] = status[n] /\ addressed'[n] = addressed[n]
        BY <1>4, <2>2, <2>4
           DEF Dispatch, Resolve, Push, Prune, Mark, MarkFailed, Throw, FailDispatch,
               LoseDispatch, Settle, Note, RecordTypes, DispatchJobs
      <3>2. \A t \in Tokens : pushed'[<<n, t>>] = pushed[<<n, t>>]
        <4>1. CASE Push(w)
          <5>1. PICK S : Accept(m, S)
            BY <2>2, <4>1, Pushes DEF Note
          <5> QED BY <2>4, <5>1, PushedTypes DEF RecordTypes
        <4>2. CASE UNCHANGED pushed
          BY <4>2
        <4> QED
          BY <1>4, <4>1, <4>2 DEF Dispatch, Resolve, Prune, Mark, MarkFailed, Throw,
                                  FailDispatch, LoseDispatch
      <3>3. sender'[w].note \in {m, None}
        <4>1. sender[w] \in Senders /\ sender \in [Workers -> Senders]
          BY DEF RecordTypes
        <4>2. ASSUME NEW s, s.note = m, sender' = [sender EXCEPT ![w] = s]
              PROVE  sender'[w].note \in {m, None}
          BY <4>1, <4>2
        <4>3. CASE Resolve(w)
          <5>1. PICK st \in {"settle", "push"} : sender' =
                  [sender EXCEPT ![w] = [@ EXCEPT !.tokens = DevicesOf(Note(w)), !.step = st]]
            BY <4>3, Resolves
          <5>2. [sender[w] EXCEPT !.tokens = DevicesOf(Note(w)), !.step = st].note = m
            BY <2>2, <4>1 DEF Senders
          <5> QED BY <4>2, <5>1, <5>2
        <4>4. CASE Push(w)
          <5>1. PICK S \in SUBSET (sender[w].tokens \cap valid) :
                  sender' = [sender EXCEPT ![w] =
                      [@ EXCEPT !.rejected = sender[w].tokens \ valid, !.step = "prune",
                                !.failed = (sender[w].tokens \ valid) \cup S]]
            BY <4>4, Pushes
          <5>2. [sender[w] EXCEPT !.rejected = sender[w].tokens \ valid, !.step = "prune",
                                  !.failed = (sender[w].tokens \ valid) \cup S].note = m
            BY <2>2, <4>1 DEF Senders
          <5> QED BY <4>2, <5>1, <5>2
        <4>5. CASE Prune(w) \/ Throw(w)
          <5>1. PICK st : sender' = [sender EXCEPT ![w] = [@ EXCEPT !.step = st]]
            BY <4>5, Goes DEF Prune, Throw
          <5>2. [sender[w] EXCEPT !.step = st].note = m
            BY <2>2, <4>1 DEF Senders
          <5> QED BY <4>2, <5>1, <5>2
        <4>6. CASE UNCHANGED sender \/ sender' = [sender EXCEPT ![w] = Resting]
          BY <2>2, <4>1, <4>6, RestingIsTyped
        <4> QED
          BY <1>4, <4>3, <4>4, <4>5, <4>6
             DEF Dispatch, Mark, MarkFailed, FailDispatch, LoseDispatch, Settle
      <3>4. sender'[w].note # n /\ sender[w].note # n
        BY <2>2, <2>4, <3>3, NotificationConstants
      <3> QED BY <1>1, <1>2, <3>1, <3>2, <3>4, OtherNote
    <2> QED BY <2>3, <2>4
  <1> QED BY <1>3, <1>4

LEMMA NextUncut ==
  ASSUME RecordTypes, DispatchJobs, SettledInv, UncutInv, [NotificationNext]_notificationVars
  PROVE  UncutInv'
  <1>1. ASSUME NEW m \in Notes, Create(m) \/ EnqueueDispatch(m) \/ Abandon(m),
               NEW n \in Notes \ cut'
        PROVE  Uncut(n)'
    <2>1. Uncut(n) /\ UNCHANGED <<sender, pushed, addressed>>
      BY <1>1 DEF UncutInv, Create, EnqueueDispatch, Abandon
    <2>2. CASE Create(m) /\ m = n
      <3>1. status[n] = "none" /\ status'[n] = "PENDING" /\ UNCHANGED job
        BY <2>2 DEF Create, RecordTypes
      <3>2. \A w \in Workers : sender[w].note # n
        BY <2>1, <3>1 DEF Uncut, WorkerOn
      <3> QED BY <2>1, <3>1, <3>2 DEF Uncut
    <2>3. CASE Create(m) /\ m # n
      <3>1. status'[n] = status[n] /\ UNCHANGED job
        BY <2>3 DEF Create, RecordTypes
      <3> QED BY <2>1, <3>1, OtherNote
    <2>4. CASE EnqueueDispatch(m)
      <3>1. UNCHANGED status /\ (job'[n] = job[n] \/ job'[n] = Added(job[n]))
        BY <2>4 DEF EnqueueDispatch, DispatchJobs
      <3>2. CASE job'[n] = job[n]
        BY <2>1, <3>1, <3>2, OtherNote
      <3>3. CASE job'[n] # job[n]
        <4>1. job[n].state = "absent"
          BY <3>1, <3>3 DEF Added
        <4>2. \A w \in Workers : sender[w].note # n
          BY <2>1, <4>1 DEF Uncut, WorkerOn
        <4> QED BY <2>1, <3>1, <4>2 DEF Uncut
      <3> QED BY <3>2, <3>3
    <2>5. CASE Abandon(m)
      BY <2>1, <2>5, OtherNote DEF Abandon
    <2> QED BY <1>1, <2>2, <2>3, <2>4, <2>5
  <1>2. ASSUME UNCHANGED dispatchVars PROVE UncutInv'
    BY <1>2, OtherNote DEF UncutInv, dispatchVars
  <1>3. CASE \/ UNCHANGED notificationVars \/ \E r \in Requests : Device(r)
             \/ \E t \in Tokens : Invalidate(t)
    <2>1. UNCHANGED dispatchVars
      BY <1>3 DEF notificationVars, dispatchVars, Device, FindDevice, FindOwnDevice, Ask, RegisterDevice,
                  UnregisterDevice, Invalidate
    <2> QED BY <1>2, <2>1
  <1> QED BY <1>1, <1>3, WorkerUncut DEF NotificationNext, UncutInv

LEMMA NextSettled ==
  ASSUME RecordTypes, DispatchJobs, SettledInv, [NotificationNext]_notificationVars
  PROVE  SettledInv'
  <1> USE DEF SettledInv, DoneIsSettled
  <1>1. ASSUME NEW m \in Notes, Create(m) PROVE SettledInv'
    BY <1>1 DEF Create, RecordTypes
  <1>2. ASSUME NEW m \in Notes, EnqueueDispatch(m) PROVE SettledInv'
    <2>1. /\ UNCHANGED status /\ creating' \subseteq creating /\ status[m] # "none"
          /\ job' = [job EXCEPT ![m] = Added(@)]
      BY <1>2 DEF EnqueueDispatch
    <2>2. Added(job[m]).state = "done" => job[m].state = "done"
      BY DEF DispatchJobs, Jobs, Added
    <2>3. \A n \in Notes \ {m} : job'[n] = job[n]
      BY <2>1 DEF DispatchJobs
    <2>4. job'[m] = Added(job[m])
      BY <2>1 DEF DispatchJobs
    <2> QED BY <2>1, <2>2, <2>3, <2>4 DEF RecordTypes
  <1>3. ASSUME NEW m \in Notes, Abandon(m) PROVE SettledInv'
    BY <1>3 DEF Abandon
  <1>4. ASSUME NEW w \in Workers, NEW m \in Notes, TakeDispatch(w, m) PROVE SettledInv'
    <2>1. /\ UNCHANGED <<status, creating>> /\ status[m] # "none"
          /\ \A n \in Notes \ {m} : job'[n] = job[n]
      BY <1>4 DEF TakeDispatch, DispatchJobs
    <2>2. status[m] = "PENDING" => job'[m].state = "active"
      <3>1. TakenBy(job[m], w).state = "active"
        BY DEF DispatchJobs, Jobs, TakenBy
      <3>2. status[m] = "PENDING" => job'[m] = TakenBy(job[m], w)
        BY <1>4 DEF TakeDispatch, DispatchJobs
      <3> QED BY <3>1, <3>2
    <2>3. status[m] # "PENDING" => status[m] \in {"SENT", "FAILED"}
      BY <2>1 DEF RecordTypes
    <2> QED BY <2>1, <2>2, <2>3
  <1>5. ASSUME NEW w \in Workers, Resolve(w) \/ Push(w) \/ Prune(w) \/ Throw(w)
        PROVE  SettledInv'
    BY <1>5 DEF Resolve, Push, Prune, Throw
  <1>6. ASSUME NEW w \in Workers, Mark(w) \/ MarkFailed(w) PROVE SettledInv'
    <2>1. PICK n \in Notes : n = Note(w)
      BY <1>6 DEF Mark, MarkFailed, RecordTypes
    <2>2. /\ UNCHANGED creating
          /\ \E s \in {"SENT", "FAILED"} : status' = [status EXCEPT ![n] = s]
          /\ \E j : job' = [job EXCEPT ![n] = j]
      BY <1>6, <2>1 DEF Mark, MarkFailed, Settle
    <2>3. /\ status'[n] \in {"SENT", "FAILED"}
          /\ \A m \in Notes \ {n} : status'[m] = status[m] /\ job'[m] = job[m]
      BY <2>2 DEF RecordTypes, DispatchJobs
    <2> QED BY <2>2, <2>3 DEF RecordTypes
  <1>7. ASSUME NEW w \in Workers, FailDispatch(w) \/ LoseDispatch(w) PROVE SettledInv'
    <2>1. sender[w] # Resting
      BY <1>7 DEF FailDispatch, LoseDispatch, Resting
    <2>2. PICK n \in Notes : n = Note(w)
      BY <2>1 DEF RecordTypes
    <2>3. /\ UNCHANGED <<status, creating>>
          /\ \/ job' = [job EXCEPT ![n] = FailedBy(@, w)]
             \/ job' = [job EXCEPT ![n] = ReleasedBy(@, w)]
      BY <1>7, <2>2 DEF FailDispatch, LoseDispatch
    <2>4. JobOK(job[n]) /\ job \in [Notes -> Jobs]
      BY DEF DispatchJobs
    <2>5. /\ FailedBy(job[n], w).state = "done" => job[n].state = "done"
          /\ ReleasedBy(job[n], w).state = "done" => job[n].state = "done"
          /\ FailedBy(job[n], w) = job[n] \/ job[n].state = "active"
          /\ ReleasedBy(job[n], w) = job[n] \/ job[n].state = "active"
      BY <2>4, QueueConstants DEF JobOK, Jobs, FailedBy, ReleasedBy
    <2>6. /\ job'[n].state = "done" => job[n].state = "done"
          /\ job'[n].state # "absent" => job[n].state # "absent"
      BY <2>3, <2>4, <2>5
    <2>7. \A m \in Notes \ {n} : job'[m] = job[m]
      BY <2>3, <2>4
    <2> QED BY <2>3, <2>6, <2>7
  <1>8. CASE \/ UNCHANGED notificationVars \/ \E r \in Requests : Device(r)
             \/ \E t \in Tokens : Invalidate(t)
    <2>1. UNCHANGED dispatchVars
      BY <1>8 DEF notificationVars, dispatchVars, Device, FindDevice, FindOwnDevice, Ask, RegisterDevice,
                  UnregisterDevice, Invalidate
    <2> QED BY <2>1 DEF dispatchVars
  <1> QED BY <1>1, <1>2, <1>3, <1>4, <1>5, <1>6, <1>7, <1>8 DEF NotificationNext, Dispatch

LEMMA DispatchInvariant == NotificationSpec => [](UncutInv /\ SettledInv)
  <1>1. NotificationInit => UncutInv /\ SettledInv
    <2> SUFFICES ASSUME NotificationInit PROVE UncutInv /\ SettledInv
      OBVIOUS
    <2>1. \A w \in Workers : sender[w].note = None
      BY RestingIsTyped DEF NotificationInit
    <2>2. UncutInv
      BY <2>1, NotificationConstants DEF NotificationInit, UncutInv, Uncut
    <2> QED BY <2>2 DEF NotificationInit, SettledInv, DoneIsSettled, NoJob
  <1> QED BY <1>1, TypeInvariant, NextUncut, NextSettled, PTL DEF NotificationSpec

\* No device gets a notification twice, unless a worker was cut off while it
\* dispatched it (notifications.processor.ts:36-97).
THEOREM PushedOnce == NotificationSpec => []PushedOnceUnlessCut
  <1>1. UncutInv => PushedOnceUnlessCut
    BY DEF UncutInv, Uncut, PushedOnceUnlessCut
  <1> QED BY <1>1, DispatchInvariant, PTL

\* A notification is SENT when every device found for it was reached
\* (notifications.processor.ts:52-90).
THEOREM SentMeansReached == NotificationSpec => []SentReachedEveryDevice
  <1>1. UncutInv => SentReachedEveryDevice
    BY DEF UncutInv, Uncut, SentReachedEveryDevice
  <1> QED BY <1>1, DispatchInvariant, PTL

\* A dispatch that is done has settled its notification
\* (notifications.processor.ts:36-97).
THEOREM DoneMeansSettled == NotificationSpec => []DoneIsSettled
  <1>1. SettledInv => DoneIsSettled
    BY DEF SettledInv
  <1> QED BY <1>1, DispatchInvariant, PTL

-----------------------------------------------------------------------------
(* Devices *)

\* A rejected token is one Firebase has forgotten for good; and a token that
\* did not change hands belongs to whoever was allowed to unregister it.
OwnerInv ==
    /\ \A w \in Workers : sender[w].rejected \cap valid = {}
    /\ \A r \in Requests :
          request[r].op = "unregister" /\ request[r].token \notin retaken =>
              owner[request[r].token] \in {None, request[r].user}

LEMMA RejectedStay ==
  ASSUME RecordTypes, NEW w \in Workers,
         Dispatch(w) \/ Throw(w) \/ FailDispatch(w) \/ LoseDispatch(w)
  PROVE  /\ sender'[w].rejected \in {{}, sender[w].rejected, sender[w].tokens \ valid}
         /\ \A v \in Workers \ {w} : sender'[v] = sender[v]
  <1>1. sender[w] \in Senders /\ sender \in [Workers -> Senders]
    BY DEF RecordTypes
  <1>2. ASSUME NEW s, s.rejected \in {{}, sender[w].rejected, sender[w].tokens \ valid},
               UNCHANGED sender \/ sender' = [sender EXCEPT ![w] = s]
        PROVE  /\ sender'[w].rejected \in {{}, sender[w].rejected, sender[w].tokens \ valid}
               /\ \A v \in Workers \ {w} : sender'[v] = sender[v]
    BY <1>1, <1>2
  <1>3. Resting.rejected = {}
    BY DEF Resting
  <1>4. ASSUME NEW n \in Notes, TakeDispatch(w, n)
        PROVE  \/ UNCHANGED sender
               \/ \E s : s.rejected = {} /\ sender' = [sender EXCEPT ![w] = s]
    <2>1. [Resting EXCEPT !.note = n, !.step = "resolve"].rejected = {}
      BY DEF Resting
    <2> QED BY <1>4, <2>1, Takes
  <1>5. ASSUME Prune(w) \/ Throw(w)
        PROVE  \E s : s.rejected = sender[w].rejected /\ sender' = [sender EXCEPT ![w] = s]
    <2>1. PICK st : sender' = [sender EXCEPT ![w] = [@ EXCEPT !.step = st]]
      BY <1>5, Goes DEF Prune, Throw
    <2>2. [sender[w] EXCEPT !.step = st].rejected = sender[w].rejected
      BY <1>1 DEF Senders
    <2> QED BY <2>1, <2>2
  <1>6. ASSUME Resolve(w)
        PROVE  \E s : s.rejected = sender[w].rejected /\ sender' = [sender EXCEPT ![w] = s]
    <2>1. PICK st \in {"settle", "push"} : sender' =
            [sender EXCEPT ![w] = [@ EXCEPT !.tokens = DevicesOf(Note(w)), !.step = st]]
      BY <1>6, Resolves
    <2>2. [sender[w] EXCEPT !.tokens = DevicesOf(Note(w)), !.step = st].rejected
              = sender[w].rejected
      BY <1>1 DEF Senders
    <2> QED BY <2>1, <2>2
  <1>7. ASSUME Push(w)
        PROVE  \E s : s.rejected = sender[w].tokens \ valid /\ sender' = [sender EXCEPT ![w] = s]
    <2>1. PICK S \in SUBSET (sender[w].tokens \cap valid) :
            sender' = [sender EXCEPT ![w] =
                [@ EXCEPT !.rejected = sender[w].tokens \ valid, !.step = "prune",
                          !.failed = (sender[w].tokens \ valid) \cup S]]
      BY <1>7, Pushes
    <2>2. [sender[w] EXCEPT !.rejected = sender[w].tokens \ valid, !.step = "prune",
                            !.failed = (sender[w].tokens \ valid) \cup S].rejected
              = sender[w].tokens \ valid
      BY <1>1 DEF Senders
    <2> QED BY <2>1, <2>2
  <1>8. CASE UNCHANGED sender \/ sender' = [sender EXCEPT ![w] = Resting]
    BY <1>2, <1>3, <1>8
  <1> QED
    BY <1>2, <1>4, <1>5, <1>6, <1>7, <1>8
       DEF Dispatch, Mark, MarkFailed, FailDispatch, LoseDispatch, Settle

LEMMA OwnersStay ==
  ASSUME RecordTypes, OwnerInv, [NotificationNext]_notificationVars
  PROVE  OwnerInv'
  <1>1. ASSUME NEW w \in Workers,
               Dispatch(w) \/ Throw(w) \/ FailDispatch(w) \/ LoseDispatch(w)
        PROVE  OwnerInv'
    <2>1. UNCHANGED <<valid, request, retaken>>
      BY <1>1 DEF Dispatch, TakeDispatch, Resolve, Push, Prune, Mark, MarkFailed, Throw,
                  FailDispatch, LoseDispatch, deviceVars
    <2>2. \A t \in Tokens : owner'[t] \in {None, owner[t]}
      <3>1. CASE Prune(w)
        BY <3>1 DEF Prune
      <3>2. CASE UNCHANGED owner
        BY <3>2
      <3> QED
        BY <1>1, <3>1, <3>2
           DEF Dispatch, TakeDispatch, Resolve, Push, Mark, MarkFailed, Throw,
               FailDispatch, LoseDispatch, deviceVars
    <2>3. \A v \in Workers : sender'[v].rejected \cap valid = {}
      BY <1>1, RejectedStay DEF OwnerInv
    <2>4. \A r \in Requests : request[r].op = "unregister" => request[r].token \in Tokens
      BY DEF RecordTypes
    <2> QED BY <2>1, <2>2, <2>3, <2>4 DEF OwnerInv
  <1>2. CASE UNCHANGED <<sender, owner, valid, request, retaken>>
    BY <1>2 DEF OwnerInv
  <1>3. ASSUME NEW r \in Requests, NEW u \in Users, NEW t \in Movable,
               FindDevice(r, u, t) \/ FindOwnDevice(r, u, t)
        PROVE  OwnerInv'
    <2>1. PICK q : /\ request' = [request EXCEPT ![r] = q]
                   /\ q.op = "unregister" => q.token = t /\ q.user = u /\ owner[t] = u
      <3>1. PICK op \in {"register", "unregister"} :
              Ask(r, op, u, t) /\ (op = "unregister" => owner[t] = u)
        BY <1>3 DEF FindDevice, FindOwnDevice
      <3>2. PICK q : q = [op |-> op, user |-> u, token |-> t, found |-> owner[t] # None]
        OBVIOUS
      <3>3. request' = [request EXCEPT ![r] = q]
        BY <3>1, <3>2 DEF Ask
      <3>4. q.op = op /\ q.token = t /\ q.user = u
        BY <3>2
      <3> QED BY <3>1, <3>3, <3>4
    <2>2. UNCHANGED <<sender, owner, valid, retaken>>
      BY <1>3 DEF FindDevice, FindOwnDevice, Ask, dispatchVars
    <2> QED BY <2>1, <2>2 DEF OwnerInv, RecordTypes
  <1>4. ASSUME NEW r \in Requests, UnregisterDevice(r) PROVE OwnerInv'
    <2>1. /\ request' = [request EXCEPT ![r] = Quiet]
          /\ owner' = [owner EXCEPT ![request[r].token] = None]
          /\ UNCHANGED <<sender, valid, retaken>>
      BY <1>4 DEF UnregisterDevice, Answered, dispatchVars
    <2>2. \A t \in Tokens : owner'[t] \in {None, owner[t]}
      BY <2>1 DEF RecordTypes
    <2>3. \A q \in Requests : request'[q].op = "unregister" =>
              request'[q] = request[q] /\ request[q].token \in Tokens
      BY <2>1, RestingIsTyped DEF RecordTypes
    <2> QED BY <2>1, <2>2, <2>3 DEF OwnerInv
  <1>5. ASSUME NEW r \in Requests, RegisterDevice(r) PROVE OwnerInv'
    <2>1. /\ request' = [request EXCEPT ![r] = Quiet] /\ UNCHANGED <<sender, valid>>
          /\ retaken \subseteq retaken'
      BY <1>5 DEF RegisterDevice, Answered, dispatchVars
    <2>2. \A q \in Requests : request'[q].op = "unregister" =>
              request'[q] = request[q] /\ request[q].token \in Tokens
      BY <2>1, RestingIsTyped DEF RecordTypes
    <2>3. CASE UNCHANGED <<owner, retaken>>
      BY <2>1, <2>2, <2>3 DEF OwnerInv
    <2>4. CASE /\ owner' = [owner EXCEPT ![request[r].token] = request[r].user]
               /\ (\E q \in Requests : /\ request[q].op = "unregister"
                                       /\ request[q].token = request[r].token
                                       /\ request[q].user # request[r].user) =>
                     request[r].token \in retaken'
      <3>1. ASSUME NEW q \in Requests, request'[q].op = "unregister",
                   request'[q].token \notin retaken'
            PROVE  owner'[request'[q].token] \in {None, request'[q].user}
        BY <2>1, <2>2, <2>4, <3>1 DEF OwnerInv, RecordTypes
      <3> QED BY <2>1, <3>1 DEF OwnerInv
    <2> QED BY <1>5, <2>3, <2>4 DEF RegisterDevice
  <1>6. ASSUME NEW t \in Tokens, Invalidate(t) PROVE OwnerInv'
    BY <1>6 DEF Invalidate, dispatchVars, OwnerInv
  <1>7. ASSUME NEW n \in Notes, Create(n) \/ EnqueueDispatch(n) \/ Abandon(n)
        PROVE  OwnerInv'
    BY <1>2, <1>7 DEF Create, EnqueueDispatch, Abandon, deviceVars
  <1>8. CASE UNCHANGED notificationVars
    BY <1>2, <1>8 DEF notificationVars
  <1> QED BY <1>1, <1>3, <1>4, <1>5, <1>6, <1>7, <1>8 DEF NotificationNext, Device

\* A device row goes only at the wish of its user or because Firebase forgot its
\* token, unless it changed hands between the check and the delete
\* (notifications.service.ts:69-103).
THEOREM RemovedByOwner == NotificationSpec => RemovedByOwnerUnlessRetaken
  <1> DEFINE Removed ==
        \A t \in Tokens \ retaken :
          owner[t] # None /\ owner'[t] = None =>
              \/ t \notin valid
              \/ \E r \in Requests : /\ request[r].op = "unregister"
                                     /\ request[r].user = owner[t]
                                     /\ request[r].token = t
  <1>1. NotificationInit => OwnerInv
    BY RestingIsTyped DEF NotificationInit, OwnerInv, Resting
  <1>2. RecordTypes /\ OwnerInv /\ [NotificationNext]_notificationVars => [Removed]_notificationVars
    <2> SUFFICES ASSUME RecordTypes, OwnerInv, NotificationNext,
                        NEW t \in Tokens \ retaken, owner[t] # None, owner'[t] = None
                 PROVE  \/ t \notin valid
                        \/ \E r \in Requests : /\ request[r].op = "unregister"
                                               /\ request[r].user = owner[t]
                                               /\ request[r].token = t
      OBVIOUS
    <2>1. ASSUME NEW w \in Workers, Prune(w) PROVE t \notin valid
      BY <2>1 DEF Prune, OwnerInv
    <2>2. ASSUME NEW r \in Requests, RegisterDevice(r) PROVE FALSE
      BY <2>2, NotificationConstants DEF RegisterDevice, RecordTypes
    <2>3. ASSUME NEW r \in Requests, UnregisterDevice(r)
          PROVE  /\ request[r].op = "unregister" /\ request[r].user = owner[t]
                 /\ request[r].token = t
      <3>1. request[r].op = "unregister" /\ request[r].token = t
        BY <2>3 DEF UnregisterDevice, RecordTypes
      <3> QED BY <3>1 DEF OwnerInv
    <2>4. CASE UNCHANGED owner
      BY <2>4
    <2> QED
      BY <2>1, <2>2, <2>3, <2>4
         DEF NotificationNext, Create, EnqueueDispatch, Abandon, Dispatch, TakeDispatch, Resolve, Push,
             Mark, MarkFailed, Throw, FailDispatch, LoseDispatch, Device, FindDevice,
             FindOwnDevice, Ask, Invalidate, deviceVars
  <1> QED
    BY <1>1, <1>2, TypeInvariant, OwnersStay, PTL DEF NotificationSpec, RemovedByOwnerUnlessRetaken
=============================================================================
