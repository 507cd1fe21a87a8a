------------------------------- MODULE Matches -------------------------------
(***************************************************************************)
(* CompetitiveService (src/modules/competitive/competitive.service.ts):    *)
(* the rounds of a competitive event, who was eliminated in them by whom,  *)
(* and the scoreboard and most valuable players computed from that and     *)
(* the roster (module Roster).  A round is identified by its event and     *)
(* number, which are unique together; an elimination by its round and      *)
(* victim, unique as well.                                                 *)
(***************************************************************************)
EXTENDS Roster, FiniteSetsExt

CONSTANTS
    Competitive,        \* events of mode COMPETITIVE
    MaxRounds,          \* bounds: rounds of an event,
    MaxOut,             \* and eliminations in them when another one is asked for
    RoundPatches,       \* what a PATCH of a round may say: [status, winner]
    CallsignOf          \* callsigns, by their place in the alphabet

Rounds == Events \X (1..MaxRounds)

\* A PATCH ends a round or leaves its status alone.
ASSUME MatchConstants ==
    /\ Competitive \subseteq Events /\ MaxRounds \in Nat
    /\ RoundPatches \subseteq [status : {"COMPLETED", "CANCELLED", Keep},
                              winner : Teams \cup {NoOne, Keep}]
    /\ NoOne \notin Teams /\ Keep \notin Teams
    /\ IsFiniteSet(Operators) /\ IsFiniteSet(Squads)
    /\ CallsignOf \in [Operators -> Nat]
    /\ \A o, p \in Operators : CallsignOf[o] = CallsignOf[p] => o = p

VARIABLES
    round,      \* round[r]: its status and winner; status "none" if not created
    out         \* out[r]: a function from the eliminated to who eliminated them

matchVars == <<round, out>>

NoRound == [status |-> "none", winner |-> NoOne]
Over == {"COMPLETED", "CANCELLED"}

Played(r) == round[r].status # "none"
Active(r) == round[r].status = "ACTIVE"
Numbers(e) == {n \in 1..MaxRounds : Played(<<e, n>>)}
Rostered(o, e) == SquadsOf(o, e) # {}
Of(e) == {r \in Rounds : r[1] = e /\ Played(r)}
Eliminations(rs) == UNION {{<<r, o>> : o \in DOMAIN out[r]} : r \in rs}

-----------------------------------------------------------------------------
(* The calls.  <<e, 0>> stands for all rounds of e.                        *)

\* createRound: requireCompetitiveActiveEvent.
AskRound(s) ==
    /\ \E e \in Competitive :
          /\ status[e] = "ACTIVE" /\ Cardinality(Numbers(e)) < MaxRounds
          /\ Begin(s, [kind |-> "createRound", at |-> "active", event |-> e, number |-> 0,
                       about |-> {<<e, 0>>}, heeds |-> {e}])
    /\ UNCHANGED matchVars

\* Mutant of FindActive: the wrong status is looked for.
FindActiveCancelled(s) ==
    /\ At(s, "createRound", "active")
    /\ Pass(s, ~\E n \in 1..MaxRounds : round[<<doing[s].event, n>>].status = "CANCELLED", "latest")
    /\ UNCHANGED matchVars

FindActive(s) ==
    /\ At(s, "createRound", "active")
    /\ Pass(s, ~\E n \in 1..MaxRounds : Active(<<doing[s].event, n>>), "latest")
    /\ UNCHANGED matchVars

FindLatest(s) ==
    /\ At(s, "createRound", "latest")
    /\ doing' = [doing EXCEPT ![s].at = "writing",
                              ![s].number = Max(Numbers(doing[s].event) \cup {0}) + 1]
    /\ UNCHANGED <<matchVars, contended>>

\* The slower of two creators of one number gets an error.
CreateRound(s) ==
    LET r == <<doing[s].event, doing[s].number>> IN
    /\ At(s, "createRound", "writing")
    /\ round' = IF r \in Rounds /\ ~Played(r) /\ status[r[1]] # "deleted"
                THEN [round EXCEPT ![r] = [status |-> "ACTIVE", winner |-> NoOne]]
                ELSE round
    /\ Leave(s)
    /\ UNCHANGED <<out, contended>>

\* Mutant of AskUpdate: a round that is over can be patched, too.
AskUpdateAnytime(s) ==
    /\ \E r \in Rounds, p \in RoundPatches :
          /\ Played(r)
          /\ Begin(s, [kind |-> "updateRound", round |-> r, about |-> {r}, heeds |-> {},
                       at |-> IF p.status = "COMPLETED" /\ p.winner \in Teams
                              THEN "team" ELSE "writing",
                       status |-> p.status,
                       winner |-> IF p.status = "CANCELLED" THEN NoOne ELSE p.winner])
    /\ UNCHANGED matchVars

\* updateRound: the round as first read must be ACTIVE; only a COMPLETED round
\* has its winner looked at, and a CANCELLED one has none.
AskUpdate(s) ==
    /\ \E r \in Rounds, p \in RoundPatches :
          /\ Active(r)
          /\ Begin(s, [kind |-> "updateRound", round |-> r, about |-> {r}, heeds |-> {},
                       at |-> IF p.status = "COMPLETED" /\ p.winner \in Teams
                              THEN "team" ELSE "writing",
                       status |-> p.status,
                       winner |-> IF p.status = "CANCELLED" THEN NoOne ELSE p.winner])
    /\ UNCHANGED matchVars

FindTeam(s) ==
    /\ At(s, "updateRound", "team")
    /\ Pass(s, /\ team[doing[s].winner] = "exists"
               /\ EventOf[doing[s].winner] = doing[s].round[1], "writing")
    /\ UNCHANGED matchVars

UpdateRound(s) ==
    LET c == doing[s] IN
    /\ At(s, "updateRound", "writing")
    /\ round' = IF Played(c.round) /\ (c.winner \in Teams => team[c.winner] = "exists")
                THEN [round EXCEPT ![c.round] = [status |-> Patched(@.status, c.status),
                                                 winner |-> Patched(@.winner, c.winner)]]
                ELSE round
    /\ Leave(s)
    /\ UNCHANGED <<out, contended>>

\* recordElimination.
AskElimination(s) ==
    /\ \E r \in Rounds, o \in Operators, k \in Operators \cup {NoOne} :
          /\ Active(r) /\ Cardinality(Eliminations(Of(r[1]))) < MaxOut
          /\ Begin(s, [kind |-> "eliminate", at |-> "roster", round |-> r, victim |-> o,
                       killer |-> k, about |-> {}, heeds |-> {r}])
    /\ UNCHANGED matchVars

FindVictim(s) ==
    /\ At(s, "eliminate", "roster")
    /\ Pass(s, Rostered(doing[s].victim, doing[s].round[1]), "killer")
    /\ UNCHANGED matchVars

\* Nothing is looked up, and nothing can fail, if there is no killer.
FindKiller(s) ==
    /\ At(s, "eliminate", "killer")
    /\ LET c == doing[s] IN
       Pass(s, /\ c.killer # NoOne => Rostered(c.killer, c.round[1])
               /\ c.victim # c.killer, "writing")
    /\ UNCHANGED matchVars

\* A second record of a victim in a round gets an error.
Eliminate(s) ==
    LET c == doing[s] IN
    /\ At(s, "eliminate", "writing")
    /\ out' = IF Played(c.round)
              THEN [out EXCEPT ![c.round] = [o \in DOMAIN @ \cup {c.victim} |->
                                                IF o \in DOMAIN @ THEN @[o] ELSE c.killer]]
              ELSE out
    /\ Leave(s)
    /\ UNCHANGED <<round, contended>>

\* deleteElimination needs no status: a referee may correct the record later.
AskPardon(s) ==
    /\ \E r \in Rounds : \E o \in DOMAIN out[r] :
          Begin(s, [kind |-> "pardon", at |-> "writing", round |-> r, victim |-> o,
                    about |-> {}, heeds |-> {}])
    /\ UNCHANGED matchVars

Pardon(s) ==
    LET c == doing[s] IN
    /\ At(s, "pardon", "writing")
    /\ out' = [out EXCEPT ![c.round] = [o \in DOMAIN @ \ {c.victim} |-> @[o]]]
    /\ Leave(s)
    /\ UNCHANGED <<round, contended>>

MatchStep(s) ==
    /\ \/ AskRound(s) \/ FindActive(s) \/ FindLatest(s) \/ CreateRound(s)
       \/ AskUpdate(s) \/ FindTeam(s) \/ UpdateRound(s)
       \/ AskElimination(s) \/ FindVictim(s) \/ FindKiller(s) \/ Eliminate(s)
       \/ AskPardon(s) \/ Pardon(s)
    /\ UNCHANGED <<eventVars, rosterVars>>

\* A deleted event takes its rounds along, a deleted team is no longer the
\* winner of any (ON DELETE CASCADE, SET NULL).
MatchCascade ==
    LET gone(r) == status'[r[1]] = "deleted" IN
    /\ out' = [r \in Rounds |-> IF gone(r) THEN <<>> ELSE out[r]]
    /\ round' = [r \in Rounds |->
          IF gone(r) THEN NoRound
          ELSE IF round[r].winner \in {t \in Teams : team'[t] = "deleted"}
          THEN [round[r] EXCEPT !.winner = NoOne] ELSE round[r]]

-----------------------------------------------------------------------------
(* getScoreboard and getMvp: what they show if nothing is written between  *)
(* their queries.                                                          *)

\* Who killed or died how often in a set of rounds.
KillerOf(x) == out[x[1]][x[2]]
Kills(o, rs) == Cardinality({x \in Eliminations(rs) : KillerOf(x) = o})
Deaths(o, rs) == Cardinality({x \in Eliminations(rs) : x[2] = o})

\* The squad_members rows of an event.
Ranks(e) == {m \in Squads \X Operators : EventOfSquad(m[1]) = e /\ m[2] \in members[m[1]]}

\* One row per team; the joins with squad_members count an elimination once
\* for every squad of the team its killer, or its victim, is in.
TeamRow(t) ==
    LET ranks == {m \in Ranks(EventOf[t]) : TeamOf[m[1]] = t}
        own == Eliminations(Of(EventOf[t]))
    IN  [kills |-> Cardinality({p \in own \X ranks : KillerOf(p[1]) = p[2][2]}),
         deaths |-> Cardinality({p \in own \X ranks : p[1][2] = p[2][2]})]

\* One row per squad of the event a player is in.
PlayerRow(m) ==
    LET rs == Of(EventOfSquad(m[1])) IN
    [squad |-> m[1], team |-> TeamOf[m[1]], player |-> m[2],
     kills |-> Kills(m[2], rs), deaths |-> Deaths(m[2], rs),
     survived |-> Max({0, Cardinality(rs) - Deaths(m[2], rs)})]

PlayerRows(e) == {PlayerRow(m) : m \in Ranks(e)}

\* Mutant of Ahead: fewer deaths are not looked at.
AheadByName(a, b) ==
    \/ a.kills > b.kills
    \/ a.kills = b.kills /\ CallsignOf[a.player] <= CallsignOf[b.player]

\* ORDER BY kills DESC, kills / NULLIF(deaths, 0) DESC NULLS FIRST, callsign.
Ahead(a, b) ==
    \/ a.kills > b.kills
    \/ a.kills = b.kills /\ a.deaths < b.deaths
    \/ a.kills = b.kills /\ a.deaths = b.deaths /\ CallsignOf[a.player] <= CallsignOf[b.player]

MatchMvp(e) ==
    LET rows == {r \in PlayerRows(e) : r.kills > 0} IN
    IF rows = {} THEN NoOne
    ELSE (CHOOSE a \in rows : \A b \in rows : Ahead(a, b)).player

\* The killer of a round with the most kills, survivors first, then by name.
RoundMvp(r) ==
    LET killers == {KillerOf(x) : x \in Eliminations({r})} \ {NoOne}
        first(o, p) ==
          \/ Kills(o, {r}) > Kills(p, {r})
          \/ /\ Kills(o, {r}) = Kills(p, {r})
             /\ \/ o \notin DOMAIN out[r] /\ p \in DOMAIN out[r]
                \/ (o \in DOMAIN out[r] <=> p \in DOMAIN out[r]) /\ CallsignOf[o] <= CallsignOf[p]
    IN  IF killers = {} THEN NoOne ELSE CHOOSE o \in killers : \A p \in killers : first(o, p)

-----------------------------------------------------------------------------
(* Properties *)

\* Every variable has its type: rounds have a winner only if they exist, and
\* nobody is eliminated by himself.
MatchTypeOK ==
    \A r \in Rounds :
        /\ round[r].status \in {"none", "ACTIVE"} \cup Over
        /\ round[r].winner \in Teams \cup {NoOne}
        /\ ~Played(r) => round[r] = NoRound /\ out[r] = <<>>
        /\ \A o \in DOMAIN out[r] : out[r][o] \in (Operators \ {o}) \cup {NoOne}

\* "Event already has an ACTIVE round; end it before starting a new one": an
\* event has one round at a time if no two calls created its rounds at once.
\* Their number alone does not see to that: the second creator may read the
\* latest number after the first has written.
OneActiveRoundUnlessContended ==
    \A e \in Events : <<e, 0>> \notin contended =>
        Cardinality({r \in Of(e) : Active(r)}) <= 1

\* "Only ACTIVE rounds can be transitioned", "only ACTIVE rounds can record
\* eliminations": a round that is over keeps its result, and nobody is
\* eliminated in it any more, if no two calls disputed it.
ResultIsFinalUnlessContended ==
    [][\A r \in Rounds \ contended :
          round[r].status \in Over /\ round'[r] # NoRound =>
              /\ round'[r].status = round[r].status
              /\ round'[r].winner \in {round[r].winner, NoOne}
              /\ DOMAIN out'[r] \subseteq DOMAIN out[r]]_matchVars

\* The scoreboard's rows of teams and of players come from different queries
\* and must agree, whatever squads a player is in; nobody dies more often than
\* there are rounds, so that the clamp in roundsSurvived hides nothing; and of
\* an event with one round, the best player of the event, found with ratios,
\* is the best of the round, found with survivors.
BoardAddsUp ==
    \A e \in {f \in Events : Eliminations(Of(f)) # {}} :
        LET rows == PlayerRows(e)
            of(t) == {r \in rows : r.team = t}
        IN  /\ \A t \in {u \in Teams : EventOf[u] = e} :
                  /\ TeamRow(t).kills = SumFunction([r \in of(t) |-> r.kills])
                  /\ TeamRow(t).deaths = SumFunction([r \in of(t) |-> r.deaths])
            /\ \A r \in rows : r.survived + r.deaths = Cardinality(Of(e))
            /\ \A r \in Rounds :
                  Of(e) = {r} /\ (\A x \in Eliminations({r}) :
                                      KillerOf(x) = NoOne \/ Rostered(KillerOf(x), e))
                      => MatchMvp(e) = RoundMvp(r)
=============================================================================
