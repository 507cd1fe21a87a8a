------------------------------ MODULE Sessions ------------------------------
(***************************************************************************)
(* AuthService and AuthRepository (src/modules/auth): registration, login, *)
(* refresh token rotation, logout and password reset.                      *)
(*                                                                         *)
(* Every HTTP call first reads (a user, a token), waits for a hash or a    *)
(* signature, and then writes in one transaction; other calls run between  *)
(* the two.  A call creates at most one token, so a token is named by the  *)
(* call that created it.  The chain of tokens that rotations make out of   *)
(* the token of one login or registration is that login's session.         *)
(***************************************************************************)
EXTENDS Naturals, FiniteSets

CONSTANTS
    Users,      \* e-mail addresses
    Passwords,
    Calls,      \* identities of HTTP calls; each is made at most once
    NoPassword, \* the address is not registered
    NoCall      \* not made yet; no token; no login

ASSUME AuthConstants ==
    /\ NoPassword \notin Passwords
    /\ NoCall \notin Calls

Kinds == {"register", "login", "refresh", "logout", "forgot", "reset"}

\* A call names a user or, for refresh, logout and reset, a token.
Request == [kind : Kinds, user : Users, token : Calls \cup {NoCall}, password : Passwords]

\* The state of a refresh token; the code keeps revokedAt and expiresAt, the
\* model also why the token was revoked first.
TokenStates == {"none", "live", "rotated", "loggedOut", "reset", "expired"}

VARIABLES
    password,   \* password[u]: what u's password_hash verifies, or NoPassword
    token,      \* token[c]: the refresh token created by c
    login,      \* login[c]: the login or registration c's token goes back to
    resetToken, \* resetToken[c]: the password reset token created by c
    phase,      \* progress of each call
    call,       \* its parameters
    contended   \* history: logins, and reset tokens, two calls acted on at once

vars == <<password, token, login, resetToken, phase, call, contended>>

Phases == {"new", "reading", "writing", "issuing", "done", "rejected", "failed"}
InFlight == {"reading", "writing", "issuing"}

NoRequest == [kind |-> "none"]

Init ==
    /\ password = [u \in Users |-> NoPassword]
    /\ token = [c \in Calls |-> "none"]
    /\ login = [c \in Calls |-> NoCall]
    /\ resetToken = [c \in Calls |-> "none"]
    /\ phase = [c \in Calls |-> "new"]
    /\ call = [c \in Calls |-> NoRequest]
    /\ contended = {}

-----------------------------------------------------------------------------

\* The tokens of l's session, and those the server still accepts.
Chain(l) == {c \in Calls : token[c] # "none" /\ login[c] = l}
Live(l) == {c \in Chain(l) : token[c] = "live"}

Goto(c, p) == phase' = [phase EXCEPT ![c] = p]
Is(c, k, p) == phase[c] = p /\ call[c].kind = k

\* Calls past their check of the token that r is about to use.
Rivals(c) ==
    {d \in Calls \ {c} : /\ phase[d] = "writing"
                         /\ call[d].kind \in {"refresh", "logout", "reset"}
                         /\ call[d].token = call[c].token}

\* A client sends a request; it knows the tokens it was given, dead or alive.
Arrive(c) ==
    /\ phase[c] = "new"
    /\ \E r \in Request :
          /\ CASE r.kind \in {"refresh", "logout"} ->
                     /\ r.token # NoCall
                     /\ phase[r.token] = "done" /\ token[r.token] # "none"
                     /\ r.user = call[r.token].user
               [] r.kind = "reset" ->
                     /\ r.token # NoCall
                     /\ phase[r.token] = "done" /\ resetToken[r.token] # "none"
                     /\ r.user = call[r.token].user
               [] OTHER -> r.token = NoCall
          /\ call' = [call EXCEPT ![c] = r]
    /\ Goto(c, "reading")
    /\ UNCHANGED <<password, token, login, resetToken, contended>>

\* register: the address must be free; then the password is hashed.
ReadForRegister(c) ==
    /\ Is(c, "register", "reading")
    /\ Goto(c, IF password[call[c].user] = NoPassword THEN "writing" ELSE "rejected")
    /\ UNCHANGED <<password, token, login, resetToken, call, contended>>

\* The insert; email is UNIQUE, so the slower of two registrations fails.
CreateUser(c) ==
    /\ Is(c, "register", "writing")
    /\ IF password[call[c].user] = NoPassword
       THEN /\ password' = [password EXCEPT ![call[c].user] = call[c].password]
            /\ Goto(c, "issuing")
       ELSE Goto(c, "failed") /\ UNCHANGED password
    /\ UNCHANGED <<token, login, resetToken, call, contended>>

\* login: the hash read is the one verified, however long that takes.
VerifyPassword(c) ==
    /\ Is(c, "login", "reading")
    /\ Goto(c, IF password[call[c].user] = call[c].password
               THEN "issuing" ELSE "rejected")
    /\ UNCHANGED <<password, token, login, resetToken, call, contended>>

\* issueTokens: sign a pair, store the refresh token.
IssueTokens(c) ==
    /\ phase[c] = "issuing"
    /\ token' = [token EXCEPT ![c] = "live"]
    /\ login' = [login EXCEPT ![c] = c]
    /\ Goto(c, "done")
    /\ UNCHANGED <<password, resetToken, call, contended>>

\* Mutant of FindRefreshToken: any stored token will do.
FindAnyRefreshToken(c) ==
    /\ phase[c] = "reading"
    /\ call[c].kind \in {"refresh", "logout"}
    /\ Goto(c, "writing")
    /\ UNCHANGED <<password, token, login, resetToken, call, contended>>

\* refresh and logout: findActiveRefreshToken.  A logout with a token that is
\* not active is a success.
FindRefreshToken(c) ==
    /\ phase[c] = "reading"
    /\ call[c].kind \in {"refresh", "logout"}
    /\ IF token[call[c].token] = "live"
       THEN /\ Goto(c, "writing")
            /\ contended' = IF Rivals(c) # {}
                            THEN contended \cup {login[call[c].token]} ELSE contended
       ELSE /\ Goto(c, IF call[c].kind = "logout" THEN "done" ELSE "rejected")
            /\ UNCHANGED contended
    /\ UNCHANGED <<password, token, login, resetToken, call>>

\* revokedAt is written whether or not the token is still active.
Revoke(t, cause) == IF token[t] = "live" THEN cause ELSE token[t]

\* Mutant of RotateToken: the old token is not revoked.
RotateTokenKeeping(c) ==
    /\ Is(c, "refresh", "writing")
    /\ token' = [token EXCEPT ![c] = "live"]
    /\ login' = [login EXCEPT ![c] = login[call[c].token]]
    /\ Goto(c, "done")
    /\ UNCHANGED <<password, resetToken, call, contended>>

\* rotateRefreshToken: revoke the old token and create the new one.
RotateToken(c) ==
    LET old == call[c].token IN
    /\ Is(c, "refresh", "writing")
    /\ token' = [token EXCEPT ![old] = Revoke(old, "rotated"), ![c] = "live"]
    /\ login' = [login EXCEPT ![c] = login[old]]
    /\ Goto(c, "done")
    /\ UNCHANGED <<password, resetToken, call, contended>>

RevokeToken(c) ==
    /\ Is(c, "logout", "writing")
    /\ token' = [token EXCEPT ![call[c].token] = Revoke(call[c].token, "loggedOut")]
    /\ Goto(c, "done")
    /\ UNCHANGED <<password, login, resetToken, call, contended>>

\* forgotPassword: unknown addresses get the same answer and no token.
ReadForForgot(c) ==
    /\ Is(c, "forgot", "reading")
    /\ Goto(c, IF password[call[c].user] = NoPassword THEN "done" ELSE "writing")
    /\ UNCHANGED <<password, token, login, resetToken, call, contended>>

CreateResetToken(c) ==
    /\ Is(c, "forgot", "writing")
    /\ resetToken' = [resetToken EXCEPT ![c] = "fresh"]
    /\ Goto(c, "done")
    /\ UNCHANGED <<password, token, login, call, contended>>

FindResetToken(c) ==
    /\ Is(c, "reset", "reading")
    /\ IF resetToken[call[c].token] = "fresh"
       THEN /\ Goto(c, "writing")
            /\ contended' = IF Rivals(c) # {}
                            THEN contended \cup {call[c].token} ELSE contended
       ELSE Goto(c, "rejected") /\ UNCHANGED contended
    /\ UNCHANGED <<password, token, login, resetToken, call>>

\* The sessions of u that a call between its check and its write will continue
\* or open.
Undecided(u) ==
    {c \in Calls : phase[c] = "issuing" /\ call[c].user = u}
        \cup {login[call[c].token] :
                 c \in {d \in Calls : Is(d, "refresh", "writing") /\ call[d].user = u}}

\* Mutant of UseResetToken: the sessions are left alone.
UseResetTokenOnly(c) ==
    /\ Is(c, "reset", "writing")
    /\ resetToken' = [resetToken EXCEPT ![call[c].token] = "used"]
    /\ password' = [password EXCEPT ![call[c].user] = call[c].password]
    /\ contended' = contended \cup Undecided(call[c].user)
    /\ Goto(c, "done")
    /\ UNCHANGED <<token, login, call>>

\* usePasswordResetToken: one transaction writes usedAt, the password and the
\* revocation of every token of the user.
UseResetToken(c) ==
    LET u == call[c].user IN
    /\ Is(c, "reset", "writing")
    /\ resetToken' = [resetToken EXCEPT ![call[c].token] = "used"]
    /\ password' = [password EXCEPT ![u] = call[c].password]
    /\ token' = [t \in Calls |-> IF token[t] # "none" /\ call[t].user = u
                                 THEN Revoke(t, "reset") ELSE token[t]]
    /\ contended' = contended \cup Undecided(u)
    /\ Goto(c, "done")
    /\ UNCHANGED <<login, call>>

\* JWT_REFRESH_TTL and PASSWORD_RESET_TTL_SECONDS.
Expire(c) ==
    /\ \/ /\ token[c] = "live"
          /\ token' = [token EXCEPT ![c] = "expired"]
          /\ UNCHANGED resetToken
       \/ /\ resetToken[c] = "fresh"
          /\ resetToken' = [resetToken EXCEPT ![c] = "expired"]
          /\ UNCHANGED token
    /\ UNCHANGED <<password, login, phase, call, contended>>

Crash(c) ==
    /\ phase[c] \in InFlight
    /\ Goto(c, "failed")
    /\ UNCHANGED <<password, token, login, resetToken, call, contended>>

Step(c) ==
    \/ ReadForRegister(c) \/ CreateUser(c)
    \/ VerifyPassword(c) \/ IssueTokens(c)
    \/ FindRefreshToken(c) \/ RotateToken(c) \/ RevokeToken(c)
    \/ ReadForForgot(c) \/ CreateResetToken(c)
    \/ FindResetToken(c) \/ UseResetToken(c)

Next == \E c \in Calls : Arrive(c) \/ Step(c) \/ Expire(c) \/ Crash(c)

Spec == Init /\ [][Next]_vars

-----------------------------------------------------------------------------
(* Properties *)

\* Every variable has its type, and tokens belong to registered users.
TypeOK ==
    /\ password \in [Users -> Passwords \cup {NoPassword}]
    /\ token \in [Calls -> TokenStates]
    /\ login \in [Calls -> Calls \cup {NoCall}]
    /\ resetToken \in [Calls -> {"none", "fresh", "used", "expired"}]
    /\ phase \in [Calls -> Phases]
    /\ call \in [Calls -> Request \cup {NoRequest}]
    /\ contended \subseteq Calls
    /\ \A c \in Calls : token[c] # "none" \/ resetToken[c] # "none" =>
                            password[call[c].user] # NoPassword

\* "Atomic rotation prevents the 'both old and new are valid' window": a
\* session has at most one live token, unless two calls acted on one of its
\* tokens at once or a reset overtook one. "A failure mid-rotate cannot leave
\* the user with neither": it has one until it is logged out, reset or expires,
\* whatever crashed.
OneLiveToken ==
    /\ \A l \in Calls \ contended : \A c, d \in Live(l) : c = d
    /\ \A l \in Calls :
          Chain(l) # {} /\ Live(l) = {} =>
              \E c \in Chain(l) : token[c] \in {"loggedOut", "reset", "expired"}

\* Who logs out with an active token is logged out: no token of the session
\* is accepted afterwards, unless another call acted on the token meanwhile.
LogoutEndsSession ==
    \A c \in Calls :
        token[c] = "loggedOut" /\ login[c] \notin contended => Live(login[c]) = {}

\* Whoever holds a live token logged in with the password that is in force:
\* a reset ends the sessions opened with the old one, except those that a call
\* was just opening or continuing.
SessionsKnowThePassword ==
    \A c \in Calls :
        token[c] = "live" /\ login[c] \notin contended =>
            call[login[c]].password = password[call[c].user]

\* A reset token changes the password once, unless two resets overlapped.
ResetOnce ==
    \A c, d \in Calls :
        /\ c # d
        /\ Is(c, "reset", "done") /\ Is(d, "reset", "done")
        /\ call[c].token = call[d].token
        => call[c].token \in contended
=============================================================================
