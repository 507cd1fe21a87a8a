---------------------------- MODULE SessionsProofs ----------------------------
(***************************************************************************)
(* Why rotation, logout and reset do what they say: in a session no two    *)
(* calls acted on at once, whoever is past the check of a token is alone   *)
(* with it, and that token is the only one the server may still accept.    *)
(***************************************************************************)
EXTENDS Sessions, TLAPS

ResetStates == {"none", "fresh", "used", "expired"}

Types ==
    /\ password \in [Users -> Passwords \cup {NoPassword}]
    /\ token \in [Calls -> TokenStates]
    /\ login \in [Calls -> Calls \cup {NoCall}]
    /\ resetToken \in [Calls -> ResetStates]
    /\ phase \in [Calls -> Phases]
    /\ call \in [Calls -> Request \cup {NoRequest}]
    /\ contended \subseteq Calls

\* Only calls that were made have parameters, only registrations and logins start
\* sessions, and a token is the last thing a call makes.
Made ==
    \A c \in Calls :
        /\ phase[c] # "new" => call[c] \in Request
        /\ token[c] # "none" \/ resetToken[c] # "none" => phase[c] = "done"
        /\ phase[c] = "issuing" => call[c].kind \in {"register", "login"}

Uses(c) ==
    /\ call[c].kind \in {"refresh", "logout"} =>
           /\ call[c].token \in Calls
           /\ token[call[c].token] # "none"
           /\ call[call[c].token].user = call[c].user
    /\ call[c].kind = "reset" =>
           /\ call[c].token \in Calls
           /\ resetToken[call[c].token] # "none"
           /\ call[call[c].token].user = call[c].user

\* A call names a token that its user was given.
Given == \A c \in Calls : phase[c] # "new" => Uses(c)

\* Who holds a token, or is about to, is registered.
Registered ==
    \A c \in Calls :
        \/ token[c] # "none" \/ resetToken[c] # "none"
        \/ phase[c] = "issuing" \/ Is(c, "forgot", "writing")
        => password[call[c].user] # NoPassword

\* A session starts with a token of the call it is named after.
Rooted ==
    \A c \in Calls :
        token[c] # "none" => login[c] \in Calls /\ token[login[c]] # "none"

TypeInv == Types /\ Made /\ Given /\ Registered /\ Rooted

LEMMA TypeInvInit == Init => TypeInv
  BY AuthConstants
  DEF Init, TypeInv, Types, Made, Given, Uses, Registered, Rooted, Is, TokenStates,
      ResetStates, Phases, NoRequest

LEMMA TypeInvArrive ==
    ASSUME TypeInv, NEW c \in Calls, Arrive(c)
    PROVE  TypeInv'
  <1> USE DEF Arrive, Goto
  <1>1. PICK r \in Request : call' = [call EXCEPT ![c] = r]
                             /\ (r.kind \in {"refresh", "logout"} =>
                                   /\ r.token # NoCall
                                   /\ phase[r.token] = "done" /\ token[r.token] # "none"
                                   /\ r.user = call[r.token].user)
                             /\ (r.kind = "reset" =>
                                   /\ r.token # NoCall
                                   /\ phase[r.token] = "done" /\ resetToken[r.token] # "none"
                                   /\ r.user = call[r.token].user)
    OBVIOUS
  <1>2. Types'
    BY <1>1 DEF TypeInv, Types, Phases
  <1>3. \A d \in Calls \ {c} : call'[d] = call[d] /\ phase'[d] = phase[d]
    BY DEF TypeInv, Types
  <1>4. phase'[c] = "reading" /\ call'[c] = r
    BY <1>1 DEF TypeInv, Types
  <1>5. token[c] = "none" /\ resetToken[c] = "none"
    BY DEF TypeInv, Made
  <1>6. Made'
    BY <1>3, <1>4, <1>5 DEF TypeInv, Made
  <1>7. Given'
    <2> SUFFICES ASSUME NEW d \in Calls, phase'[d] # "new" PROVE Uses(d)'
      BY DEF Given
    <2>1. CASE d = c
      BY <1>1, <1>3, <1>4, <1>5, <2>1 DEF Uses, Request
    <2>2. CASE d # c
      BY <1>3, <1>5, <2>2 DEF Uses, TypeInv, Given
    <2> QED
      BY <2>1, <2>2
  <1>8. Registered' /\ Rooted'
    BY <1>3, <1>4, <1>5 DEF TypeInv, Registered, Rooted, Is
  <1> QED
    BY <1>2, <1>6, <1>7, <1>8 DEF TypeInv

LEMMA TypeInvStep ==
    ASSUME TypeInv, NEW c \in Calls, Step(c) \/ Expire(c) \/ Crash(c)
    PROVE  TypeInv'
  <1> USE DEF Goto, Is, TypeInv
  <1>1. CASE ReadForRegister(c)
    BY <1>1 DEF ReadForRegister, Types, Made, Given, Uses, Registered, Rooted, Phases
  <1>2. CASE CreateUser(c)
    BY <1>2, AuthConstants
    DEF CreateUser, Types, Made, Given, Uses, Registered, Rooted, Phases, Request
  <1>3. CASE VerifyPassword(c)
    BY <1>3, AuthConstants
    DEF VerifyPassword, Types, Made, Given, Uses, Registered, Rooted, Phases, Request
  <1>4. CASE IssueTokens(c)
    BY <1>4
    DEF IssueTokens, Types, Made, Given, Uses, Registered, Rooted, Phases, TokenStates
  <1>5. CASE FindRefreshToken(c)
    BY <1>5
    DEF FindRefreshToken, Types, Made, Given, Uses, Registered, Rooted, Phases, TokenStates
  <1>6. CASE RotateToken(c)
    BY <1>6
    DEF RotateToken, Revoke, Types, Made, Given, Uses, Registered, Rooted, Phases, TokenStates
  <1>7. CASE RevokeToken(c)
    BY <1>7
    DEF RevokeToken, Revoke, Types, Made, Given, Uses, Registered, Rooted, Phases, TokenStates
  <1>8. CASE ReadForForgot(c)
    BY <1>8 DEF ReadForForgot, Types, Made, Given, Uses, Registered, Rooted, Phases
  <1>9. CASE CreateResetToken(c)
    BY <1>9
    DEF CreateResetToken, Types, Made, Given, Uses, Registered, Rooted, Phases, ResetStates
  <1>10. CASE FindResetToken(c)
    BY <1>10 DEF FindResetToken, Types, Made, Given, Uses, Registered, Rooted, Phases
  <1>11. CASE UseResetToken(c)
    BY <1>11, AuthConstants
    DEF UseResetToken, Undecided, Revoke, Types, Made, Given, Uses, Registered, Rooted,
        Phases, TokenStates, ResetStates, Request
  <1>12. CASE Expire(c)
    BY <1>12
    DEF Expire, Types, Made, Given, Uses, Registered, Rooted, TokenStates, ResetStates
  <1>13. CASE Crash(c)
    BY <1>13 DEF Crash, InFlight, Types, Made, Given, Uses, Registered, Rooted, Phases
  <1> QED
    BY <1>1, <1>2, <1>3, <1>4, <1>5, <1>6, <1>7, <1>8, <1>9, <1>10, <1>11, <1>12, <1>13
    DEF Step

LEMMA TypeInvNext == TypeInv /\ [Next]_vars => TypeInv'
  <1>1. ASSUME TypeInv, UNCHANGED vars PROVE TypeInv'
    BY <1>1 DEF vars, TypeInv, Types, Made, Given, Uses, Registered, Rooted, Is
  <1> QED
    BY <1>1, TypeInvArrive, TypeInvStep DEF Next

LEMMA TypeInvHolds == Spec => []TypeInv
  BY TypeInvInit, TypeInvNext, PTL DEF Spec

\* Every variable has its type, and tokens belong to registered users, for any
\* number of users, passwords and calls.
THEOREM TypeCorrect == Spec => []TypeOK
  <1>1. TypeInv => TypeOK
    BY DEF TypeInv, Types, Registered, TypeOK, ResetStates
  <1> QED
    BY <1>1, TypeInvHolds, PTL

-----------------------------------------------------------------------------
(* One live token per session, and logout *)

\* Calls past their check of a token of the session l.
Acting(l) ==
    {c \in Calls : /\ phase[c] = "writing" /\ call[c].kind \in {"refresh", "logout"}
                   /\ login[call[c].token] = l}

\* In a session no two calls acted on at once, a call past its check is alone,
\* its token is the only one that may be live, and a logout leaves neither.
Alone(l) ==
    /\ \A c, d \in Live(l) : c = d
    /\ \A c, d \in Acting(l) : c = d
    /\ \A c \in Acting(l) : Live(l) \subseteq {call[c].token}
    /\ (\E c \in Chain(l) : token[c] = "loggedOut") => Live(l) = {} /\ Acting(l) = {}

Ended == {"loggedOut", "reset", "expired"}

\* A session without a live token was logged out, reset, or has expired.
Survives(l) ==
    Chain(l) # {} /\ Live(l) = {} => \E c \in Chain(l) : token[c] \in Ended

SessionInv ==
    /\ TypeInv
    /\ \A l \in Calls \ contended : Alone(l)
    /\ \A l \in Calls : Survives(l)

LEMMA SessionInvInit == Init => SessionInv
  BY TypeInvInit DEF Init, SessionInv, Alone, Survives, Chain, Live, Acting

\* A step that makes no token, ends none and lets nobody act disturbs nothing.
LEMMA SessionInvQuiet ==
    ASSUME SessionInv, TypeInv', token' = token, login' = login, contended \subseteq contended',
           \A l \in Calls : Acting(l)' \subseteq Acting(l),
           \A l \in Calls : \A c \in Acting(l) : call'[c] = call[c]
    PROVE  SessionInv'
  <1>1. \A l \in Calls : Chain(l)' = Chain(l) /\ Live(l)' = Live(l)
    BY DEF Chain, Live
  <1> QED
    BY <1>1 DEF SessionInv, Alone, Survives

LEMMA SessionInvIssue ==
    ASSUME SessionInv, TypeInv', NEW c \in Calls, IssueTokens(c)
    PROVE  SessionInv'
  <1> USE DEF IssueTokens, Goto, SessionInv, TypeInv, Types
  <1>1. token[c] = "none"
    BY DEF Made
  <1>2. \A d \in Calls : token[d] # "none" => login[d] # c
    BY <1>1 DEF Rooted
  <1>3. /\ token'[c] = "live" /\ login'[c] = c
        /\ \A d \in Calls \ {c} : token'[d] = token[d] /\ login'[d] = login[d]
    OBVIOUS
  <1>4. \A l \in Calls \ {c} : Chain(l)' = Chain(l) /\ Live(l)' = Live(l)
    BY <1>1, <1>3 DEF Chain, Live
  <1>5. Chain(c)' = {c} /\ Live(c)' = {c}
    BY <1>2, <1>3 DEF Chain, Live
  <1>6. \A d \in Calls : phase'[d] = "writing" => phase[d] = "writing" /\ d # c
    OBVIOUS
  <1>7. \A l \in Calls : Acting(l)' = Acting(l)
    BY <1>1, <1>3, <1>6 DEF Acting, Given, Uses
  <1>8. Acting(c) = {}
    BY <1>2 DEF Acting, Given, Uses
  <1>9. ASSUME NEW l \in Calls, l \notin contended' PROVE Alone(l)'
    BY <1>3, <1>4, <1>5, <1>7, <1>8, <1>9 DEF Alone, Chain
  <1>10. ASSUME NEW l \in Calls PROVE Survives(l)'
    <2>1. CASE l = c
      BY <1>5, <2>1 DEF Survives
    <2>2. CASE l # c
      <3>1. Chain(l)' = Chain(l) /\ Live(l)' = Live(l)
        BY <1>4, <2>2
      <3>2. \A d \in Chain(l) : d # c /\ d \in Calls
        BY <1>1 DEF Chain
      <3>3. \A d \in Chain(l) : token'[d] = token[d]
        BY <1>3, <3>2
      <3>4. Survives(l)
        OBVIOUS
      <3> HIDE DEF IssueTokens, SessionInv, TypeInv, Types
      <3> QED
        BY <3>1, <3>3, <3>4 DEF Survives
    <2> QED
      BY <2>1, <2>2
  <1> QED
    BY <1>9, <1>10

LEMMA SessionInvFind ==
    ASSUME SessionInv, TypeInv', NEW c \in Calls, FindRefreshToken(c)
    PROVE  SessionInv'
  <1> USE DEF FindRefreshToken, Goto
  <1>1. CASE token[call[c].token] # "live"
    BY <1>1, SessionInvQuiet DEF SessionInv, TypeInv, Types, Acting
  <1>2. CASE token[call[c].token] = "live"
    <2> DEFINE t == call[c].token
               k == login[call[c].token]
    <2>1. t \in Calls /\ k \in Calls
      BY DEF SessionInv, TypeInv, Given, Uses, Rooted
    <2>2. t \in Live(k)
      BY <1>2, <2>1 DEF Live, Chain
    <2>3. \A l \in Calls : Chain(l)' = Chain(l) /\ Live(l)' = Live(l)
      BY DEF Chain, Live
    <2>4. \A l \in Calls \ {k} : Acting(l)' = Acting(l)
      BY DEF Acting, SessionInv, TypeInv, Types
    <2>5. Acting(k)' = Acting(k) \cup {c}
      BY <1>2 DEF Acting, SessionInv, TypeInv, Types
    <2>6. ASSUME k \notin contended' PROVE Acting(k) = {}
      <3>1. k \notin contended /\ Rivals(c) = {}
        BY <1>2, <2>6
      <3>2. \A d \in Acting(k) : call[d].token = t
        BY <2>1, <2>2, <3>1 DEF SessionInv, Alone
      <3>3. c \notin Acting(k)
        BY DEF Acting
      <3> QED
        BY <3>1, <3>2, <3>3 DEF Rivals, Acting
    <2>7. contended \subseteq contended'
      BY <1>2
    <2>8. ASSUME NEW l \in Calls, l \notin contended' PROVE Alone(l)'
      <3>1. Alone(l)
        BY <2>7, <2>8 DEF SessionInv
      <3>2. CASE l # k
        BY <2>3, <2>4, <3>1, <3>2 DEF Alone
      <3>3. CASE l = k
        BY <2>2, <2>3, <2>5, <2>6, <2>8, <3>1, <3>3 DEF Alone
      <3> QED
        BY <3>2, <3>3
    <2>9. \A l \in Calls : Survives(l)'
      BY <2>3 DEF SessionInv, Survives
    <2> QED
      BY <2>8, <2>9 DEF SessionInv
  <1> QED
    BY <1>1, <1>2

LEMMA SessionInvRotate ==
    ASSUME SessionInv, TypeInv', NEW c \in Calls, RotateToken(c)
    PROVE  SessionInv'
  <1>1. PICK t \in Calls : t = call[c].token
    BY DEF RotateToken, Is, SessionInv, TypeInv, Given, Uses
  <1>2. token[t] # "none" /\ token[c] = "none" /\ t # c
    BY <1>1 DEF RotateToken, Is, SessionInv, TypeInv, Made, Given, Uses
  <1>3. PICK k \in Calls : k = login[t]
    BY <1>2 DEF SessionInv, TypeInv, Rooted
  <1>4. /\ token'[c] = "live" /\ login'[c] = k /\ login'[t] = k
        /\ token'[t] \notin {"none", "live"}
        /\ token'[t] = "loggedOut" <=> token[t] = "loggedOut"
        /\ token[t] \in Ended => token'[t] = token[t]
    BY <1>1, <1>2, <1>3 DEF RotateToken, Revoke, Ended, SessionInv, TypeInv, Types
  <1>5. \A d \in Calls \ {c, t} : token'[d] = token[d] /\ login'[d] = login[d]
    BY <1>1 DEF RotateToken, SessionInv, TypeInv, Types
  <1>6. \A l \in Calls \ {k} : Chain(l)' = Chain(l) /\ Live(l)' = Live(l)
    BY <1>2, <1>3, <1>4, <1>5 DEF Chain, Live
  <1>7. Chain(k)' = Chain(k) \cup {c} /\ Live(k)' = (Live(k) \ {t}) \cup {c}
    BY <1>2, <1>3, <1>4, <1>5 DEF Chain, Live
  <1>8. c \in Acting(k)
    BY <1>1, <1>3 DEF Acting, RotateToken, Is
  <1>9. \A l \in Calls : Acting(l)' = Acting(l) \ {c}
    <2>1. \A d \in Calls : phase'[d] = "writing" <=> phase[d] = "writing" /\ d # c
      BY DEF RotateToken, Goto, SessionInv, TypeInv, Types
    <2>2. call' = call
      BY DEF RotateToken
    <2>3. \A d \in Calls : phase[d] = "writing" /\ call[d].kind \in {"refresh", "logout"} =>
              /\ call[d].token \in Calls \ {c}
              /\ login'[call[d].token] = login[call[d].token]
      BY <1>2, <1>3, <1>4, <1>5 DEF SessionInv, TypeInv, Given, Uses
    <2> QED
      BY <2>1, <2>2, <2>3 DEF Acting
  <1>10. \A d \in Calls : /\ token'[d] = "loggedOut" <=> token[d] = "loggedOut"
                          /\ token[d] \in Ended => token'[d] = token[d]
    BY <1>2, <1>4, <1>5 DEF Ended
  <1>11. ASSUME NEW l \in Calls, l \notin contended' PROVE Alone(l)'
    <2>1. Alone(l)
      BY <1>11 DEF SessionInv, RotateToken
    <2>2. CASE l # k
      <3>1. \A d \in Acting(l)' : call'[d] = call[d] /\ d \in Acting(l)
        BY <1>9 DEF RotateToken
      <3>2. \A d \in Chain(l)' : token'[d] = "loggedOut" => token[d] = "loggedOut"
        BY <1>10 DEF Chain
      <3>3. Chain(l)' = Chain(l) /\ Live(l)' = Live(l)
        BY <1>6, <2>2
      <3> QED
        BY <1>9, <2>1, <3>1, <3>2, <3>3 DEF Alone
    <2>3. CASE l = k
      <3>1. Acting(l)' = {}
        BY <1>8, <1>9, <2>1, <2>3 DEF Alone
      <3>2. Live(l)' = {c}
        BY <1>1, <1>7, <1>8, <2>1, <2>3 DEF Alone
      <3>3. \A d \in Chain(l) : token[d] # "loggedOut"
        BY <1>8, <2>1, <2>3 DEF Alone
      <3>4. \A d \in Chain(l)' : token'[d] # "loggedOut"
        BY <1>2, <1>4, <1>7, <1>10, <2>3, <3>3 DEF Chain
      <3> QED
        BY <3>1, <3>2, <3>4 DEF Alone
    <2> QED
      BY <2>2, <2>3
  <1>12. ASSUME NEW l \in Calls PROVE Survives(l)'
    <2>1. CASE l = k
      BY <1>7, <2>1 DEF Survives
    <2>2. CASE l # k
      <3>1. Chain(l)' = Chain(l) /\ Live(l)' = Live(l) /\ Chain(l) \subseteq Calls
        BY <1>6, <2>2 DEF Chain
      <3> QED
        BY <1>10, <3>1 DEF Survives, SessionInv
    <2> QED
      BY <2>1, <2>2
  <1> QED
    BY <1>11, <1>12 DEF SessionInv

\* Ending tokens for good: by logout, by reset or because they are too old.
LEMMA SessionInvEnd ==
    ASSUME SessionInv, TypeInv', login' = login, call' = call,
           \A d \in Calls : \/ token'[d] = token[d]
                            \/ token[d] = "live" /\ token'[d] \in Ended,
           contended \subseteq contended',
           \A l \in Calls : Acting(l)' \subseteq Acting(l),
           \A l \in Calls \ contended' :
               \A d \in Chain(l) : token'[d] = "loggedOut" /\ token[d] # "loggedOut" =>
                   Live(l)' = {} /\ Acting(l)' = {}
    PROVE  SessionInv'
  <1>1. \A l \in Calls : Chain(l)' = Chain(l) /\ Live(l)' \subseteq Live(l)
    BY DEF Chain, Live, Ended
  <1>2. ASSUME NEW l \in Calls, l \notin contended' PROVE Alone(l)'
    <2>1. Alone(l)
      BY <1>2 DEF SessionInv
    <2>2. /\ \A c, d \in Live(l)' : c = d
          /\ \A c, d \in Acting(l)' : c = d
          /\ \A c \in Acting(l)' : Live(l)' \subseteq {call'[c].token}
      BY <1>1, <2>1 DEF Alone
    <2>3. ASSUME NEW d \in Chain(l)', token'[d] = "loggedOut"
          PROVE  Live(l)' = {} /\ Acting(l)' = {}
      BY <1>1, <1>2, <2>1, <2>3 DEF Alone
    <2> QED
      BY <2>2, <2>3 DEF Alone
  <1>3. ASSUME NEW l \in Calls PROVE Survives(l)'
    <2> SUFFICES ASSUME Chain(l)' # {}, Live(l)' = {}
                 PROVE  \E d \in Chain(l)' : token'[d] \in Ended
      BY DEF Survives
    <2>1. CASE Live(l) = {}
      <3>1. PICK d \in Chain(l) : token[d] \in Ended
        BY <1>1, <2>1 DEF SessionInv, Survives
      <3>2. token'[d] = token[d]
        BY <3>1 DEF Chain, Ended
      <3> QED
        BY <1>1, <3>1, <3>2
    <2>2. CASE Live(l) # {}
      <3>1. PICK d \in Live(l) : TRUE
        BY <2>2
      <3>2. d \in Chain(l)' /\ d \in Calls /\ token'[d] # "live"
        BY <1>1, <3>1 DEF Live, Chain
      <3>3. token[d] = "live"
        BY <3>1 DEF Live
      <3> QED
        BY <3>2, <3>3
    <2> QED
      BY <2>1, <2>2
  <1> QED
    BY <1>2, <1>3 DEF SessionInv

LEMMA SessionInvRevoke ==
    ASSUME SessionInv, TypeInv', NEW c \in Calls, RevokeToken(c)
    PROVE  SessionInv'
  <1>1. PICK t \in Calls : t = call[c].token
    BY DEF RevokeToken, Is, SessionInv, TypeInv, Given, Uses
  <1>2. PICK k \in Calls : k = login[t]
    BY <1>1 DEF RevokeToken, Is, SessionInv, TypeInv, Given, Uses, Rooted
  <1>3. c \in Acting(k)
    BY <1>1, <1>2 DEF Acting, RevokeToken, Is
  <1>4. \A d \in Calls : \/ token'[d] = token[d]
                         \/ d = t /\ token[d] = "live" /\ token'[d] = "loggedOut"
    BY <1>1 DEF RevokeToken, Revoke, SessionInv, TypeInv, Types
  <1>5. \A l \in Calls : Acting(l)' = Acting(l) \ {c}
    <2>1. \A d \in Calls : phase'[d] = "writing" <=> phase[d] = "writing" /\ d # c
      BY DEF RevokeToken, Goto, SessionInv, TypeInv, Types
    <2>2. call' = call /\ login' = login
      BY DEF RevokeToken
    <2> QED
      BY <2>1, <2>2 DEF Acting
  <1>6. ASSUME NEW l \in Calls \ contended', NEW d \in Chain(l),
               token'[d] = "loggedOut", token[d] # "loggedOut"
        PROVE  Live(l)' = {} /\ Acting(l)' = {}
    <2>1. d = t /\ l = k /\ token'[t] = "loggedOut"
      BY <1>2, <1>4, <1>6 DEF Chain
    <2>2. Alone(k)
      BY <1>6, <2>1 DEF RevokeToken, SessionInv
    <2>3. Live(k) \subseteq {t}
      BY <1>1, <1>3, <2>2 DEF Alone
    <2>4. \A e \in Live(k)' : e \in Live(k) \ {t}
      BY <1>4, <2>1 DEF Live, Chain, RevokeToken
    <2>5. Acting(k)' = {}
      BY <1>3, <1>5, <2>2 DEF Alone
    <2> QED
      BY <2>1, <2>3, <2>4, <2>5
  <1>7. login' = login /\ call' = call /\ contended' = contended
    BY DEF RevokeToken
  <1> QED
    BY <1>4, <1>5, <1>6, <1>7, SessionInvEnd DEF Ended

LEMMA SessionInvReset ==
    ASSUME SessionInv, TypeInv', NEW c \in Calls, UseResetToken(c)
    PROVE  SessionInv'
  <1>1. \A d \in Calls : \/ token'[d] = token[d]
                         \/ token[d] = "live" /\ token'[d] = "reset"
    BY DEF UseResetToken, Revoke
  <1>2. login' = login /\ call' = call /\ contended \subseteq contended'
    BY DEF UseResetToken
  <1>3. \A d \in Calls : phase'[d] = "writing" => phase[d] = "writing"
    BY DEF UseResetToken, Goto, SessionInv, TypeInv, Types
  <1>4. \A l \in Calls : Acting(l)' \subseteq Acting(l)
    BY <1>2, <1>3 DEF Acting
  <1> QED
    BY <1>1, <1>2, <1>4, SessionInvEnd DEF Ended, Chain

LEMMA SessionInvExpire ==
    ASSUME SessionInv, TypeInv', NEW c \in Calls, Expire(c)
    PROVE  SessionInv'
  <1>1. \A d \in Calls : \/ token'[d] = token[d]
                         \/ token[d] = "live" /\ token'[d] = "expired"
    BY DEF Expire, SessionInv, TypeInv, Types
  <1>2. login' = login /\ call' = call /\ phase' = phase /\ contended' = contended
    BY DEF Expire
  <1>3. \A l \in Calls : Acting(l)' \subseteq Acting(l)
    BY <1>2 DEF Acting
  <1> QED
    BY <1>1, <1>2, <1>3, SessionInvEnd DEF Ended, Chain

\* Registrations, logins until their tokens, reset requests, and crashes.
LEMMA SessionInvOther ==
    ASSUME SessionInv, TypeInv', NEW c \in Calls,
           \/ Arrive(c) \/ ReadForRegister(c) \/ CreateUser(c) \/ VerifyPassword(c)
           \/ ReadForForgot(c) \/ CreateResetToken(c) \/ FindResetToken(c) \/ Crash(c)
    PROVE  SessionInv'
  <1>1. token' = token /\ login' = login /\ contended \subseteq contended'
    BY DEF Arrive, ReadForRegister, CreateUser, VerifyPassword, ReadForForgot,
           CreateResetToken, FindResetToken, Crash
  <1>2. \A d \in Calls \ {c} : phase'[d] = phase[d] /\ call'[d] = call[d]
    BY DEF Arrive, ReadForRegister, CreateUser, VerifyPassword, ReadForForgot,
           CreateResetToken, FindResetToken, Crash, Goto, SessionInv, TypeInv, Types
  <1>3. \/ phase'[c] # "writing"
        \/ call'[c].kind \notin {"refresh", "logout"}
    BY DEF Arrive, ReadForRegister, CreateUser, VerifyPassword, ReadForForgot, Is,
           CreateResetToken, FindResetToken, Crash, Goto, SessionInv, TypeInv, Types
  <1>4. \A l \in Calls : c \in Acting(l) => call' = call
    BY DEF Arrive, ReadForRegister, CreateUser, VerifyPassword, ReadForForgot, Is,
           CreateResetToken, FindResetToken, Crash, Acting
  <1>5. \A l \in Calls : Acting(l)' \subseteq Acting(l)
    BY <1>1, <1>2, <1>3 DEF Acting
  <1>6. \A l \in Calls : \A d \in Acting(l) : call'[d] = call[d]
    BY <1>2, <1>4 DEF Acting
  <1> QED
    BY <1>1, <1>5, <1>6, SessionInvQuiet

LEMMA SessionInvNext == SessionInv /\ [Next]_vars => SessionInv'
  <1>1. ASSUME SessionInv, UNCHANGED vars PROVE SessionInv'
    <2>1. TypeInv'
      BY <1>1, TypeInvNext DEF SessionInv
    <2> QED
      BY <1>1, <2>1, SessionInvQuiet DEF vars, Acting
  <1>2. ASSUME SessionInv, Next PROVE SessionInv'
    <2>1. TypeInv'
      BY <1>2, TypeInvNext DEF SessionInv
    <2>2. PICK c \in Calls : Arrive(c) \/ Step(c) \/ Expire(c) \/ Crash(c)
      BY <1>2 DEF Next
    <2> QED
      BY <1>2, <2>1, <2>2, SessionInvIssue, SessionInvFind, SessionInvRotate,
         SessionInvRevoke, SessionInvReset, SessionInvExpire, SessionInvOther DEF Step
  <1> QED
    BY <1>1, <1>2

LEMMA SessionInvHolds == Spec => []SessionInv
  BY SessionInvInit, SessionInvNext, PTL DEF Spec

\* "Atomic rotation prevents the 'both old and new are valid' window", and
\* leaves the user with one token: for any number of users and calls.
THEOREM RotationIsAtomic == Spec => []OneLiveToken
  <1>1. SessionInv => OneLiveToken
    BY DEF SessionInv, Alone, Survives, Ended, OneLiveToken
  <1> QED
    BY <1>1, SessionInvHolds, PTL

\* A logout with an active token ends the session.
THEOREM LogoutIsFinal == Spec => []LogoutEndsSession
  <1>1. SessionInv => LogoutEndsSession
    BY DEF SessionInv, TypeInv, Rooted, Alone, Chain, LogoutEndsSession
  <1> QED
    BY <1>1, SessionInvHolds, PTL

-----------------------------------------------------------------------------
(* Passwords *)

\* A session about to start knows the password in force when the reset of it
\* did not come in between, and so does one about to be continued.
Opening(c) ==
    phase[c] = "issuing" /\ c \notin contended =>
        call[c].password = password[call[c].user]

Continuing(c) ==
    /\ phase[c] = "writing" /\ call[c].kind = "refresh"
    /\ login[call[c].token] \notin contended
    => call[login[call[c].token]].password = password[call[c].user]

Holding(c) ==
    token[c] = "live" /\ login[c] \notin contended =>
        call[login[c]].password = password[call[c].user]

PasswordInv ==
    /\ TypeInv
    /\ \A c \in Calls : Opening(c) /\ Continuing(c) /\ Holding(c)

LEMMA PasswordInvInit == Init => PasswordInv
  BY TypeInvInit DEF Init, PasswordInv, Opening, Continuing, Holding

\* The password of a user with sessions is changed by resets only.
LEMMA PasswordInvQuiet ==
    ASSUME PasswordInv, TypeInv', login' = login, contended \subseteq contended',
           NEW c \in Calls,
           \A d \in Calls : token'[d] = "live" => token[d] = "live",
           \A d \in Calls \ {c} : phase'[d] = phase[d],
           \A d \in Calls : phase[d] # "new" => call'[d] = call[d],
           \A d \in Calls : phase[d] # "new" /\ password[call[d].user] # NoPassword =>
               password'[call[d].user] = password[call[d].user],
           Opening(c)', Continuing(c)'
    PROVE  PasswordInv'
  <1>1. ASSUME NEW d \in Calls PROVE Holding(d)'
    <2> SUFFICES ASSUME token'[d] = "live", login'[d] \notin contended'
                 PROVE  call'[login'[d]].password = password'[call'[d].user]
      BY DEF Holding
    <2>1. token[d] = "live" /\ login[d] \notin contended /\ login[d] \in Calls
      BY DEF PasswordInv, TypeInv, Rooted
    <2>2. phase[d] # "new" /\ phase[login[d]] # "new"
      BY <2>1 DEF PasswordInv, TypeInv, Made, Rooted
    <2>3. password[call[d].user] # NoPassword
      BY <2>1 DEF PasswordInv, TypeInv, Registered
    <2>4. call[login[d]].password = password[call[d].user]
      BY <2>1 DEF PasswordInv, Holding
    <2> QED
      BY <2>1, <2>2, <2>3, <2>4
  <1>2. ASSUME NEW d \in Calls \ {c} PROVE Opening(d)'
    <2> SUFFICES ASSUME phase'[d] = "issuing", d \notin contended'
                 PROVE  call'[d].password = password'[call'[d].user]
      BY DEF Opening
    <2>1. phase[d] = "issuing" /\ d \notin contended
      OBVIOUS
    <2>2. password[call[d].user] # NoPassword
      BY <2>1 DEF PasswordInv, TypeInv, Registered
    <2> QED
      BY <2>1, <2>2 DEF PasswordInv, Opening
  <1>3. ASSUME NEW d \in Calls \ {c} PROVE Continuing(d)'
    <2> SUFFICES ASSUME phase'[d] = "writing", call'[d].kind = "refresh",
                        login'[call'[d].token] \notin contended'
                 PROVE  call'[login'[call'[d].token]].password = password'[call'[d].user]
      BY DEF Continuing
    <2>1. phase[d] = "writing" /\ call'[d] = call[d]
      OBVIOUS
    <2>2. PICK t \in Calls : t = call[d].token
      BY <2>1 DEF PasswordInv, TypeInv, Given, Uses
    <2>3. token[t] # "none" /\ call[t].user = call[d].user
      BY <2>1, <2>2 DEF PasswordInv, TypeInv, Given, Uses
    <2>4. login[t] \in Calls /\ phase[login[t]] # "new"
      BY <2>3 DEF PasswordInv, TypeInv, Rooted, Made
    <2>5. password[call[d].user] # NoPassword
      BY <2>3 DEF PasswordInv, TypeInv, Registered
    <2>6. call[login[t]].password = password[call[d].user]
      BY <2>1, <2>2 DEF PasswordInv, Continuing
    <2> QED
      BY <2>1, <2>2, <2>4, <2>5, <2>6
  <1> QED
    BY <1>1, <1>2, <1>3 DEF PasswordInv

\* A token that was just made: its session is about to start, or goes on.
LEMMA PasswordInvMint ==
    ASSUME PasswordInv, TypeInv', NEW c \in Calls, IssueTokens(c) \/ RotateToken(c)
    PROVE  PasswordInv'
  <1>1. call' = call /\ password' = password /\ contended' = contended
    BY DEF IssueTokens, RotateToken
  <1>2. token[c] = "none" /\ phase[c] \in {"issuing", "writing"} /\ phase'[c] = "done"
    BY DEF IssueTokens, RotateToken, Goto, Is, PasswordInv, TypeInv, Types, Made
  <1>3. \A d \in Calls \ {c} : /\ phase'[d] = phase[d] /\ login'[d] = login[d]
                               /\ token'[d] = "live" => token[d] = "live"
    BY DEF IssueTokens, RotateToken, Revoke, Goto, PasswordInv, TypeInv, Types
  <1>4. Holding(c)'
    <2>1. CASE IssueTokens(c)
      <3>1. login'[c] = c /\ phase[c] = "issuing"
        BY <2>1 DEF IssueTokens, PasswordInv, TypeInv, Types
      <3> QED
        BY <1>1, <3>1 DEF Holding, PasswordInv, Opening
    <2>2. CASE RotateToken(c)
      <3>1. /\ login'[c] = login[call[c].token]
            /\ phase[c] = "writing" /\ call[c].kind = "refresh"
        BY <2>2 DEF RotateToken, Is, PasswordInv, TypeInv, Types
      <3> QED
        BY <1>1, <3>1 DEF Holding, PasswordInv, Continuing
    <2> QED
      BY <2>1, <2>2
  <1>5. \A d \in Calls \ {c} : Holding(d)'
    BY <1>1, <1>3 DEF Holding, PasswordInv
  <1>6. \A d \in Calls : Opening(d)'
    BY <1>1, <1>2, <1>3 DEF Opening, PasswordInv
  <1>7. ASSUME NEW d \in Calls PROVE Continuing(d)'
    <2> SUFFICES ASSUME phase'[d] = "writing", call[d].kind = "refresh",
                        login'[call[d].token] \notin contended
                 PROVE  call[login'[call[d].token]].password = password[call[d].user]
      BY <1>1 DEF Continuing
    <2>1. phase[d] = "writing"
      BY <1>2, <1>3
    <2>2. call[d].token \in Calls \ {c}
      BY <1>2, <2>1 DEF PasswordInv, TypeInv, Given, Uses
    <2> QED
      BY <1>3, <2>1, <2>2 DEF PasswordInv, Continuing
  <1> QED
    BY <1>4, <1>5, <1>6, <1>7 DEF PasswordInv

\* The reset ends the sessions of its user, and marks those it cannot reach.
LEMMA PasswordInvReset ==
    ASSUME PasswordInv, TypeInv', NEW c \in Calls, UseResetToken(c)
    PROVE  PasswordInv'
  <1>1. PICK u \in Users : u = call[c].user
    BY DEF UseResetToken, Is, PasswordInv, TypeInv, Made, Request
  <1>2. call' = call /\ login' = login /\ contended' = contended \cup Undecided(u)
    BY <1>1 DEF UseResetToken
  <1>3. \A v \in Users \ {u} : password'[v] = password[v]
    BY <1>1 DEF UseResetToken, PasswordInv, TypeInv, Types
  <1>4. \A d \in Calls : phase'[d] \in {"writing", "issuing"} => phase'[d] = phase[d]
    BY DEF UseResetToken, Goto, PasswordInv, TypeInv, Types
  <1>5. \A d \in Calls : token'[d] = "live" => token[d] = "live" /\ call[d].user # u
    BY <1>1 DEF UseResetToken, Revoke
  <1>6. \A d \in Calls : phase[d] # "new" => call[d].user \in Users
    BY DEF PasswordInv, TypeInv, Made, Request
  <1>7. ASSUME NEW d \in Calls PROVE Holding(d)'
    <2> SUFFICES ASSUME token'[d] = "live", login[d] \notin contended'
                 PROVE  call[login[d]].password = password'[call[d].user]
      BY <1>2 DEF Holding
    <2>1. token[d] = "live" /\ call[d].user \in Users \ {u} /\ login[d] \notin contended
      BY <1>2, <1>5, <1>6 DEF PasswordInv, TypeInv, Made
    <2> QED
      BY <1>3, <2>1 DEF PasswordInv, Holding
  <1>8. ASSUME NEW d \in Calls PROVE Opening(d)'
    <2> SUFFICES ASSUME phase'[d] = "issuing", d \notin contended'
                 PROVE  call[d].password = password'[call[d].user]
      BY <1>2 DEF Opening
    <2>1. phase[d] = "issuing" /\ d \notin contended
      BY <1>2, <1>4
    <2>2. call[d].user \in Users \ {u}
      BY <1>2, <1>6, <2>1 DEF Undecided
    <2> QED
      BY <1>3, <2>1, <2>2 DEF PasswordInv, Opening
  <1>9. ASSUME NEW d \in Calls PROVE Continuing(d)'
    <2> SUFFICES ASSUME phase'[d] = "writing", call[d].kind = "refresh",
                        login[call[d].token] \notin contended'
                 PROVE  call[login[call[d].token]].password = password'[call[d].user]
      BY <1>2 DEF Continuing
    <2>1. phase[d] = "writing" /\ login[call[d].token] \notin contended
      BY <1>2, <1>4
    <2>2. call[d].user \in Users \ {u}
      BY <1>2, <1>6, <2>1 DEF Undecided, Is
    <2> QED
      BY <1>3, <2>1, <2>2 DEF PasswordInv, Continuing
  <1> QED
    BY <1>7, <1>8, <1>9 DEF PasswordInv

LEMMA PasswordInvFind ==
    ASSUME PasswordInv, TypeInv', NEW c \in Calls, FindRefreshToken(c)
    PROVE  PasswordInv'
  <1>1. /\ token' = token /\ login' = login /\ call' = call /\ password' = password
        /\ contended \subseteq contended'
    BY DEF FindRefreshToken
  <1>2. \A d \in Calls \ {c} : phase'[d] = phase[d]
    BY DEF FindRefreshToken, Goto, PasswordInv, TypeInv, Types
  <1>3. phase'[c] # "issuing" /\ (phase'[c] = "writing" => token[call[c].token] = "live")
    BY DEF FindRefreshToken, Goto, PasswordInv, TypeInv, Types
  <1>4. call[c].token \in Calls /\ call[call[c].token].user = call[c].user
    BY DEF FindRefreshToken, PasswordInv, TypeInv, Given, Uses
  <1>5. Opening(c)' /\ Continuing(c)'
    BY <1>1, <1>3, <1>4 DEF Opening, Continuing, PasswordInv, Holding
  <1> QED
    BY <1>1, <1>2, <1>5, PasswordInvQuiet

LEMMA PasswordInvOther ==
    ASSUME PasswordInv, TypeInv', NEW c \in Calls,
           \/ Arrive(c) \/ ReadForRegister(c) \/ CreateUser(c) \/ VerifyPassword(c)
           \/ RevokeToken(c) \/ ReadForForgot(c) \/ CreateResetToken(c) \/ FindResetToken(c)
           \/ Expire(c) \/ Crash(c)
    PROVE  PasswordInv'
  <1>1. login' = login /\ contended \subseteq contended'
    BY DEF Arrive, ReadForRegister, CreateUser, VerifyPassword, RevokeToken, ReadForForgot,
           CreateResetToken, FindResetToken, Expire, Crash
  <1>2. \A d \in Calls : token'[d] = "live" => token[d] = "live"
    BY DEF Arrive, ReadForRegister, CreateUser, VerifyPassword, RevokeToken, ReadForForgot,
           CreateResetToken, FindResetToken, Expire, Crash, Revoke, PasswordInv, TypeInv, Types
  <1>3. /\ \A d \in Calls \ {c} : phase'[d] = phase[d]
        /\ \A d \in Calls : phase[d] # "new" => call'[d] = call[d]
    BY DEF Arrive, ReadForRegister, CreateUser, VerifyPassword, RevokeToken, ReadForForgot,
           CreateResetToken, FindResetToken, Expire, Crash, Goto, PasswordInv, TypeInv, Types
  <1>4. \A v \in Users : password[v] # NoPassword => password'[v] = password[v]
    BY DEF Arrive, ReadForRegister, CreateUser, VerifyPassword, RevokeToken, ReadForForgot,
           CreateResetToken, FindResetToken, Expire, Crash, PasswordInv, TypeInv, Types
  <1>5. \A d \in Calls : phase[d] # "new" => call[d].user \in Users
    BY DEF PasswordInv, TypeInv, Made, Request
  <1>6. Opening(c)'
    BY <1>5 DEF Arrive, ReadForRegister, CreateUser, VerifyPassword, RevokeToken,
           ReadForForgot, CreateResetToken, FindResetToken, Expire, Crash, Goto, Is,
           PasswordInv, TypeInv, Types, Opening
  <1>7. Continuing(c)'
    BY DEF Arrive, ReadForRegister, CreateUser, VerifyPassword, RevokeToken,
           ReadForForgot, CreateResetToken, FindResetToken, Expire, Crash, Goto, Is,
           PasswordInv, TypeInv, Types, Continuing
  <1> QED
    BY <1>1, <1>2, <1>3, <1>4, <1>5, <1>6, <1>7, PasswordInvQuiet

LEMMA PasswordInvNext == PasswordInv /\ [Next]_vars => PasswordInv'
  <1>1. ASSUME PasswordInv, UNCHANGED vars PROVE PasswordInv'
    <2>1. TypeInv'
      BY <1>1, TypeInvNext DEF PasswordInv
    <2> QED
      BY <1>1, <2>1 DEF vars, PasswordInv, Opening, Continuing, Holding
  <1>2. ASSUME PasswordInv, Next PROVE PasswordInv'
    <2>1. TypeInv'
      BY <1>2, TypeInvNext DEF PasswordInv
    <2>2. PICK c \in Calls : Arrive(c) \/ Step(c) \/ Expire(c) \/ Crash(c)
      BY <1>2 DEF Next
    <2> QED
      BY <1>2, <2>1, <2>2, PasswordInvMint, PasswordInvReset, PasswordInvFind,
         PasswordInvOther DEF Step
  <1> QED
    BY <1>1, <1>2

\* Whoever holds a live token logged in with the password in force, but for the
\* sessions a reset overtook.
THEOREM ResetReachesSessions == Spec => []SessionsKnowThePassword
  <1>1. PasswordInv => SessionsKnowThePassword
    BY DEF PasswordInv, Holding, SessionsKnowThePassword
  <1> QED
    BY <1>1, PasswordInvInit, PasswordInvNext, PTL DEF Spec

-----------------------------------------------------------------------------
(* Reset tokens *)

\* Two resets with one token were both past their check before either wrote.
Rivalry(c, d) ==
    /\ call[c].kind = "reset" /\ call[d].kind = "reset" /\ call[c].token = call[d].token
    /\ phase[c] \in {"writing", "done"} /\ phase[d] \in {"writing", "done"}
    => call[c].token \in contended

ResetInv ==
    /\ TypeInv
    /\ \A c \in Calls : Is(c, "reset", "done") => resetToken[call[c].token] = "used"
    /\ \A c, d \in Calls : c # d => Rivalry(c, d)

LEMMA ResetInvNext == ResetInv /\ [Next]_vars => ResetInv'
  <1>1. ASSUME ResetInv, UNCHANGED vars PROVE ResetInv'
    <2>1. TypeInv'
      BY <1>1, TypeInvNext DEF ResetInv
    <2> QED
      BY <1>1, <2>1 DEF vars, ResetInv, Is, Rivalry
  <1>2. ASSUME ResetInv, NEW c \in Calls, Arrive(c) \/ Step(c) \/ Expire(c) \/ Crash(c)
        PROVE  ResetInv'
    <2>1. TypeInv'
      BY <1>2, TypeInvNext DEF ResetInv, Next
    <2>2. \A d \in Calls \ {c} : phase'[d] = phase[d] /\ call'[d] = call[d]
      BY <1>2 DEF Step, Arrive, ReadForRegister, CreateUser, VerifyPassword, IssueTokens,
         FindRefreshToken, RotateToken, RevokeToken, ReadForForgot, CreateResetToken,
         FindResetToken, UseResetToken, Expire, Crash, Goto, ResetInv, TypeInv, Types
    <2>3. contended \subseteq contended'
      BY <1>2 DEF Step, Arrive, ReadForRegister, CreateUser, VerifyPassword, IssueTokens,
         FindRefreshToken, RotateToken, RevokeToken, ReadForForgot, CreateResetToken,
         FindResetToken, UseResetToken, Expire, Crash
    <2>4. \A d \in Calls : resetToken[d] = "used" => resetToken'[d] = "used"
      BY <1>2 DEF Step, Arrive, ReadForRegister, CreateUser, VerifyPassword, IssueTokens,
         FindRefreshToken, RotateToken, RevokeToken, ReadForForgot, CreateResetToken, Is,
         FindResetToken, UseResetToken, Expire, Crash, ResetInv, TypeInv, Types, Made
    <2>5. CASE FindResetToken(c)
      <3>1. call' = call /\ resetToken' = resetToken /\ phase'[c] \in {"writing", "rejected"}
        BY <1>2, <2>5 DEF FindResetToken, Goto, ResetInv, TypeInv, Types
      <3>2. ASSUME NEW d \in Calls \ {c}, call[d].kind = "reset",
                   call[d].token = call[c].token,
                   phase[d] \in {"writing", "done"}, phase'[c] = "writing"
            PROVE  call[c].token \in contended'
        <4>1. resetToken[call[c].token] = "fresh"
          BY <1>2, <2>5, <3>2 DEF FindResetToken, Goto, ResetInv, TypeInv, Types
        <4>2. phase[d] = "writing"
          BY <1>2, <3>2, <4>1 DEF ResetInv, Is
        <4>3. d \in Rivals(c)
          BY <3>2, <4>2 DEF Rivals
        <4> QED
          BY <2>5, <4>1, <4>3 DEF FindResetToken
      <3> QED
        BY <1>2, <2>1, <2>2, <2>3, <3>1, <3>2 DEF ResetInv, Is, Rivalry
    <2>6. CASE UseResetToken(c)
      <3>1. /\ call' = call /\ phase[c] = "writing" /\ phase'[c] = "done"
            /\ call[c].token \in Calls /\ resetToken'[call[c].token] = "used"
        BY <1>2, <2>6 DEF UseResetToken, Goto, Is, ResetInv, TypeInv, Types, Given, Uses
      <3>2. \A d \in Calls : Is(d, "reset", "done") => call[d].token \in Calls
        BY <1>2 DEF ResetInv, TypeInv, Given, Uses, Is
      <3> QED
        BY <1>2, <2>1, <2>2, <2>3, <2>4, <3>1, <3>2 DEF ResetInv, Is, Rivalry
    <2>7. CASE ~FindResetToken(c) /\ ~UseResetToken(c)
      <3>1. \/ call'[c].kind # "reset"
            \/ phase'[c] \notin {"writing", "done"}
            \/ phase'[c] = phase[c] /\ call'[c] = call[c]
        BY <1>2, <2>7 DEF Step, Arrive, ReadForRegister, CreateUser, VerifyPassword,
           IssueTokens, FindRefreshToken, RotateToken, RevokeToken, ReadForForgot,
           CreateResetToken, Expire, Crash, Goto, Is, ResetInv, TypeInv, Types, Made, Given,
           Uses
      <3>2. \A d \in Calls : Is(d, "reset", "done") => call[d].token \in Calls
        BY <1>2 DEF ResetInv, TypeInv, Given, Uses, Is
      <3> QED
        BY <1>2, <2>1, <2>2, <2>3, <2>4, <3>1, <3>2 DEF ResetInv, Is, Rivalry
    <2> QED
      BY <2>5, <2>6, <2>7
  <1> QED
    BY <1>1, <1>2 DEF Next

\* A reset token changes the password once, unless two resets overlapped.
THEOREM ResetTokenIsSpent == Spec => []ResetOnce
  <1>1. Init => ResetInv
    BY TypeInvInit DEF Init, ResetInv, Rivalry, Is
  <1>2. ResetInv => ResetOnce
    BY DEF ResetInv, Rivalry, Is, ResetOnce
  <1> QED
    BY <1>1, <1>2, ResetInvNext, PTL DEF Spec
=============================================================================
