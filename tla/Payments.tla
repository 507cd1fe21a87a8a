------------------------------ MODULE Payments ------------------------------
(***************************************************************************)
(* PaymentsService (src/modules/payments/payments.service.ts): webhooks of *)
(* two payment providers credit wallets, and WalletService does the        *)
(* crediting (module Wallet).  The providers deliver at least once: they   *)
(* repeat a delivery until it is acknowledged and may duplicate it, even   *)
(* while an earlier one is still being handled.                            *)
(*                                                                         *)
(* A delivery is a request of the wallet: its handler first looks for a    *)
(* ledger line carrying the event's id, and only if there is none goes on  *)
(* as a deposit with that id as external reference.                        *)
(***************************************************************************)
EXTENDS Wallet, FiniteSets

CONSTANTS
    EventUser,      \* the user an event's metadata names, or NoUser
    EventAmount,    \* the amount it reports as paid, 0 if none
    StripeEvents,   \* the events of Stripe; the others are Pagar.me's
    NoUser,         \* no user_id in the metadata
    MaxDuplicates,  \* bound: deliveries sent without need
    MaxCrashes      \* bound: handlers killed midway

Events == Refs

ASSUME PaymentConstants ==
    /\ NoUser \notin Users
    /\ EventUser \in [Events -> Users \cup {NoUser}]
    /\ StripeEvents \subseteq Events
    /\ EventAmount \in [Events -> Amounts \cup {0}]
    /\ \A e \in StripeEvents : EventAmount[e] \in Amounts
    /\ MaxDuplicates \in Nat
    /\ MaxCrashes \in Nat

VARIABLES
    delivered,  \* delivered[d]: the event request d delivers, or NoRef
    answer,     \* what its handler did with it so far
    racing,     \* history: events one delivery of which came while another ran
    duplicates, \* deliveries sent without need so far
    crashes     \* handlers killed so far

payVars == <<delivered, answer, racing, duplicates, crashes>>
allVars == <<wallets, balance, ledger, phase, call, overlapped,
             delivered, answer, racing, duplicates, crashes>>

Answers == {"none",      \* not a delivery
            "received",  \* about to look for the event's ledger line
            "forwarded", \* handed to the wallet
            "deduped",   \* answered "deduped": already credited
            "ignored",   \* answered "handled: false"
            "lost"}      \* the handler died before it looked

\* Deliveries of e whose handler is still running.
InFlight(e) ==
    {d \in Requests : /\ delivered[d] = e
                      /\ answer[d] \in {"received", "forwarded"}
                      /\ phase[d] \in Active \cup {"new"}}

\* What the provider sees as a 2xx answer.
Acknowledged(e) ==
    \E d \in Requests : /\ delivered[d] = e
                        /\ \/ answer[d] \in {"deduped", "ignored"}
                           \/ answer[d] = "forwarded" /\ phase[d] = "done"

Credited(e) == {r \in Requests : ledger[r] # NoEntry /\ ledger[r].ref = e}

PayInit ==
    /\ Init
    /\ delivered = [d \in Requests |-> NoRef]
    /\ answer = [d \in Requests |-> "none"]
    /\ racing = {}
    /\ duplicates = 0
    /\ crashes = 0

-----------------------------------------------------------------------------
(* The providers *)

\* Deliveries have no identity but the order they are sent in.
Send(d, e) ==
    /\ answer[d] = "none"
    /\ d = CHOOSE q \in Requests : answer[q] = "none"
    /\ delivered' = [delivered EXCEPT ![d] = e]
    /\ answer' = [answer EXCEPT ![d] = "received"]
    /\ racing' = IF InFlight(e) # {} THEN racing \cup {e} ELSE racing
    /\ UNCHANGED <<vars, crashes>>

\* First delivery of an event, or a new attempt after a failed one.
Deliver(d, e) ==
    /\ InFlight(e) = {}
    /\ ~Acknowledged(e)
    /\ Send(d, e)
    /\ UNCHANGED duplicates

\* A delivery repeated although it was acknowledged or is being handled.
Duplicate(d, e) ==
    /\ InFlight(e) # {} \/ Acknowledged(e)
    /\ duplicates < MaxDuplicates
    /\ duplicates' = duplicates + 1
    /\ Send(d, e)

-----------------------------------------------------------------------------
(* The handlers *)

Answer(d, a) ==
    /\ answer' = [answer EXCEPT ![d] = a]
    /\ UNCHANGED <<delivered, racing, duplicates, crashes>>

Forward(d) ==
    LET e == delivered[d] IN
    /\ Begin(d, [kind |-> "deposit", user |-> EventUser[e],
                 amount |-> EventAmount[e], ref |-> e])
    /\ Answer(d, "forwarded")

\* Mutant of HandleStripe: no search of the ledger.
HandleStripeBlindly(d) ==
    /\ answer[d] = "received"
    /\ delivered[d] \in StripeEvents
    /\ EventUser[delivered[d]] # NoUser
    /\ Forward(d)

\* Mutant of HandleStripe: events of users without a wallet row are ignored.
HandleStripeForKnown(d) ==
    /\ answer[d] = "received"
    /\ delivered[d] \in StripeEvents
    /\ IF Credited(delivered[d]) = {} /\ EventUser[delivered[d]] \in wallets
       THEN Forward(d)
       ELSE Answer(d, "ignored") /\ UNCHANGED vars

\* handleStripeWebhook: the ledger is searched before the metadata is read.
HandleStripe(d) ==
    /\ answer[d] = "received"
    /\ delivered[d] \in StripeEvents
    /\ \/ /\ Credited(delivered[d]) # {}
          /\ Answer(d, "deduped")
          /\ UNCHANGED vars
       \/ /\ Credited(delivered[d]) = {}
          /\ EventUser[delivered[d]] = NoUser
          /\ Answer(d, "ignored")
          /\ UNCHANGED vars
       \/ /\ Credited(delivered[d]) = {}
          /\ EventUser[delivered[d]] # NoUser
          /\ Forward(d)

\* Events whose handler gets as far as the wallet: there is a user to credit,
\* and Pagar.me says how much; a Stripe intent has an amount from the start.
Creditable(e) == EventUser[e] # NoUser /\ (e \in StripeEvents \/ EventAmount[e] # 0)

\* Mutant of HandlePagarme: replays are recognised by an earlier delivery, not
\* by the ledger.
HandlePagarmeSeen(d) ==
    /\ answer[d] = "received"
    /\ delivered[d] \in Events \ StripeEvents
    /\ IF \E q \in Requests \ {d} : delivered[q] = delivered[d]
       THEN Answer(d, "deduped") /\ UNCHANGED vars
       ELSE Creditable(delivered[d]) /\ Forward(d)

\* handlePagarmeWebhook: the other way round, and nothing paid is nothing to do.
HandlePagarme(d) ==
    /\ answer[d] = "received"
    /\ delivered[d] \in Events \ StripeEvents
    /\ \/ /\ ~Creditable(delivered[d])
          /\ Answer(d, "ignored")
          /\ UNCHANGED vars
       \/ /\ Creditable(delivered[d])
          /\ Credited(delivered[d]) # {}
          /\ Answer(d, "deduped")
          /\ UNCHANGED vars
       \/ /\ Creditable(delivered[d])
          /\ Credited(delivered[d]) = {}
          /\ Forward(d)

\* getOrCreate and credit, as the wallet runs them.
WalletStep(d) ==
    /\ answer[d] = "forwarded"
    /\ FindWallet(d) \/ CreateWallet(d) \/ Credit(d)
    /\ UNCHANGED payVars

HandlerDies(d) ==
    /\ crashes < MaxCrashes
    /\ crashes' = crashes + 1
    /\ \/ /\ answer[d] = "received"
          /\ answer' = [answer EXCEPT ![d] = "lost"]
          /\ UNCHANGED vars
       \/ /\ answer[d] = "forwarded"
          /\ Crash(d)
          /\ UNCHANGED answer
    /\ UNCHANGED <<delivered, racing, duplicates>>

Handle(d) == HandleStripe(d) \/ HandlePagarme(d) \/ WalletStep(d)

PayNext ==
    \E d \in Requests :
        \/ \E e \in Events : Deliver(d, e) \/ Duplicate(d, e)
        \/ Handle(d)
        \/ HandlerDies(d)

PaySpec == PayInit /\ [][PayNext]_allVars

\* A handler that is not killed runs on, and a provider delivers what operators
\* paid, again if a delivery failed.
PayFairness ==
    /\ \A d \in Requests : WF_allVars(Handle(d))
    /\ \A e \in Events : EventUser[e] \in Profiles =>
          WF_allVars(\E d \in Requests : Deliver(d, e))

FairPaySpec == PaySpec /\ PayFairness

-----------------------------------------------------------------------------
(* Properties *)

\* Every variable has its type.
PayTypeOK ==
    /\ TypeOK
    /\ delivered \in [Requests -> Events \cup {NoRef}]
    /\ answer \in [Requests -> Answers]
    /\ racing \subseteq Events
    /\ duplicates \in 0..MaxDuplicates
    /\ crashes \in 0..MaxCrashes

\* "Idempotency - replay-safe via externalRef": an event is credited at most
\* once however often it is delivered, attempted and interrupted, as long as
\* no delivery of it arrives while another one is being handled.
CreditedOnceUnlessRacing ==
    \A e \in Events \ racing :
        \A q, r \in Credited(e) : q = r

\* The claim as the code's comments make it, without the proviso.
CreditedAtMostOnce == \A e \in Events : Cardinality(Credited(e)) <= 1

\* The provider stops repeating a delivery once it is acknowledged, so an
\* acknowledgement of an event that names a user and an amount must mean that
\* the money is in the ledger: no crash, duplicate or failed wallet creation
\* loses it.
AcknowledgedIsCredited ==
    \A e \in Events :
        Acknowledged(e) /\ Creditable(e) => Credited(e) # {}

\* Webhooks touch wallets only as clients of WalletService: whatever the
\* providers do, the wallets behave as the wallet component allows.
UsesWallet == Spec

\* Money the provider took from an operator eventually reaches the wallet:
\* every failed attempt is repeated and a repetition is not taken for a replay,
\* unless all the deliveries that Requests bounds were made.
EventuallyCredited ==
    \A e \in Events : EventUser[e] \in Profiles /\ Creditable(e) =>
        <>(Credited(e) # {} \/ \A d \in Requests : answer[d] # "none")
=============================================================================
