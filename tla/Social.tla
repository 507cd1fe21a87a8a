------------------------------- MODULE Social -------------------------------
(***************************************************************************)
(* OperatorsService, SocialService and ReferralService (src/modules/       *)
(* operators, social, referral): the profiles of users, who is whose       *)
(* friend, what they post and like, and who was referred by whom.  A user  *)
(* has at most one profile, so users stand for their operators.            *)
(***************************************************************************)
EXTENDS CallSlots, Sequences, FiniteSets

CONSTANTS
    People,
    Callsigns,
    Posts,          \* ids of posts, each used once
    MaxRequests,    \* bound: friend requests ever sent
    MaxComments,    \* bound: comments on a post
    NoName

ASSUME SocialConstants == NoName \notin People \cup Callsigns

VARIABLES
    callsign,   \* callsign[u], or NoName if u has no profile
    friendship, \* the friend requests, by id; a declined one is "deleted"
    post,       \* post[p]: its author and the two counters of the row
    like,       \* post_likes: pairs of a post and an operator
    comment,    \* comment[p]: rows of p in post_comments
    code,       \* operators with a referral code
    referrer    \* referrer[u]: whose code u redeemed, or NoName

socialVars == <<callsign, friendship, post, like, comment, code, referrer>>

NoPost == [author |-> NoName, likes |-> 0, comments |-> 0]

SocialInit ==
    /\ friendship = <<>>
    /\ post = [p \in Posts |-> NoPost]
    /\ like = {}
    /\ comment = [p \in Posts |-> 0]
    /\ code = {}
    /\ referrer = [u \in People |-> NoName]

\* requireOperator; a profile is never deleted.
Profiled == {u \in People : callsign[u] # NoName}
Posted(p) == post[p].author # NoName

-----------------------------------------------------------------------------
(* Profiles.  A patch that keeps the callsign changes nothing modelled.    *)

AskProfile(s) ==
    /\ \E u \in People : \E n \in Callsigns \ {callsign[u]} :
          Begin(s, [kind |-> "profile", at |-> "callsign", user |-> u, name |-> n,
                    new |-> u \notin Profiled, about |-> {}, heeds |-> {}])
    /\ UNCHANGED socialVars

CheckCallsign(s) ==
    /\ At(s, "profile", "callsign")
    /\ Pass(s, \A u \in People : callsign[u] # doing[s].name, "writing")
    /\ UNCHANGED socialVars

\* User and callsign are unique: the slower of two calls gets an error.
SaveProfile(s) ==
    LET c == doing[s] IN
    /\ At(s, "profile", "writing")
    /\ callsign' = IF /\ \A u \in People \ {c.user} : callsign[u] # c.name
                      /\ c.new => c.user \notin Profiled
                   THEN [callsign EXCEPT ![c.user] = c.name] ELSE callsign
    /\ Leave(s)
    /\ UNCHANGED <<friendship, post, like, comment, code, referrer, contended>>

-----------------------------------------------------------------------------
(* Friends *)

Rows == {i \in DOMAIN friendship : friendship[i].status # "deleted"}
Pair(i) == {friendship[i].from, friendship[i].to}
Sending == {s \in Slots : doing[s] # Idle /\ doing[s].kind = "befriend"}

\* sendRequest finds the receiver by callsign, which is not the sender's own.
AskFriend(s) ==
    /\ Len(friendship) + Cardinality(Sending) < MaxRequests
    /\ \E u, v \in Profiled :
          /\ u # v
          /\ Begin(s, [kind |-> "befriend", at |-> "pair", from |-> u, to |-> v,
                       about |-> {<<u, v>>, <<v, u>>}, heeds |-> {}])
    /\ UNCHANGED socialVars

\* Mutant of StrangersYet: "the inverse pair" is not looked for.
StrangersYetOneWay(c) ==
    \A i \in Rows : <<friendship[i].from, friendship[i].to>> # <<c.from, c.to>>

\* "Also reject if the inverse pair already exists."
StrangersYet(c) == \A i \in Rows : Pair(i) # {c.from, c.to}

CheckPair(s) ==
    /\ At(s, "befriend", "pair")
    /\ Pass(s, StrangersYet(doing[s]), "writing")
    /\ UNCHANGED socialVars

\* Only the ordered pair is unique.
SaveFriend(s) ==
    LET c == doing[s] IN
    /\ At(s, "befriend", "writing")
    /\ friendship' =
          IF \A i \in Rows : <<friendship[i].from, friendship[i].to>> # <<c.from, c.to>>
          THEN Append(friendship, [from |-> c.from, to |-> c.to, status |-> "PENDING"])
          ELSE friendship
    /\ Leave(s)
    /\ UNCHANGED <<callsign, post, like, comment, code, referrer, contended>>

\* respondToRequest: the row is PENDING when it is read; its receiver calls.
AskAnswer(s) ==
    /\ \E i \in Rows, answer \in {"ACCEPTED", "BLOCKED", "deleted"} :
          /\ friendship[i].status = "PENDING"
          /\ Begin(s, [kind |-> "answer", at |-> "writing", id |-> i, status |-> answer,
                       about |-> {<<i>>}, heeds |-> {}])
    /\ UNCHANGED socialVars

SaveAnswer(s) ==
    LET c == doing[s] IN
    /\ At(s, "answer", "writing")
    /\ friendship' = IF c.id \in Rows THEN [friendship EXCEPT ![c.id].status = c.status]
                     ELSE friendship
    /\ Leave(s)
    /\ UNCHANGED <<callsign, post, like, comment, code, referrer, contended>>

\* listFriends, and the posts listFeed shows.
Related(u, st) == {v \in People : \E i \in Rows : Pair(i) = {u, v} /\ friendship[i].status = st}
Feed(u) == {p \in Posts : Posted(p) /\ post[p].author \in {u} \cup Related(u, "ACCEPTED")}

-----------------------------------------------------------------------------
(* The feed.  Each of these is one insert or one transaction, and what it  *)
(* reads before does not change.                                           *)

CreatePost(u, p) ==
    /\ ~Posted(p)
    /\ post' = [post EXCEPT ![p].author = u]
    /\ UNCHANGED <<callsign, friendship, like, comment, code, referrer>>

\* Mutant of LikePost: a second like is counted.
LikePostAgain(u, p) ==
    /\ Posted(p) /\ post[p].likes <= Cardinality(People)
    /\ like' = like \cup {<<p, u>>}
    /\ post' = [post EXCEPT ![p].likes = @ + 1]
    /\ UNCHANGED <<callsign, friendship, comment, code, referrer>>

\* A second like changes nothing.
LikePost(u, p) ==
    /\ Posted(p) /\ <<p, u>> \notin like
    /\ like' = like \cup {<<p, u>>}
    /\ post' = [post EXCEPT ![p].likes = @ + 1]
    /\ UNCHANGED <<callsign, friendship, comment, code, referrer>>

UnlikePost(u, p) ==
    /\ <<p, u>> \in like
    /\ like' = like \ {<<p, u>>}
    /\ post' = [post EXCEPT ![p].likes = @ - 1]
    /\ UNCHANGED <<callsign, friendship, comment, code, referrer>>

CommentOnPost(u, p) ==
    /\ Posted(p) /\ comment[p] < MaxComments
    /\ comment' = [comment EXCEPT ![p] = @ + 1]
    /\ post' = [post EXCEPT ![p].comments = @ + 1]
    /\ UNCHANGED <<callsign, friendship, like, code, referrer>>

FeedStep(u) ==
    \E p \in Posts :
        CreatePost(u, p) \/ LikePost(u, p) \/ UnlikePost(u, p) \/ CommentOnPost(u, p)

-----------------------------------------------------------------------------
(* Referrals.  The reward of a redemption is never paid (a TODO).          *)

\* getOrCreateMyCode: operator_id is unique, so two calls make one code.
AskCode(s) ==
    /\ \E u \in Profiled \ code :
          Begin(s, [kind |-> "code", at |-> "writing", user |-> u, about |-> {}, heeds |-> {}])
    /\ UNCHANGED socialVars

SaveCode(s) ==
    /\ At(s, "code", "writing")
    /\ code' = code \cup {doing[s].user}
    /\ Leave(s)
    /\ UNCHANGED <<callsign, friendship, post, like, comment, referrer, contended>>

\* redeem finds the code, which is somebody else's.
AskRedeem(s) ==
    /\ \E u \in Profiled : \E v \in code \ {u} :
          Begin(s, [kind |-> "redeem", at |-> "already", user |-> u, by |-> v,
                    about |-> {}, heeds |-> {}])
    /\ UNCHANGED socialVars

CheckRedeemed(s) ==
    /\ At(s, "redeem", "already")
    /\ Pass(s, referrer[doing[s].user] = NoName, "writing")
    /\ UNCHANGED socialVars

SaveRedeem(s) ==
    LET u == doing[s].user IN
    /\ At(s, "redeem", "writing")
    /\ referrer' = [referrer EXCEPT ![u] = IF @ = NoName THEN doing[s].by ELSE @]
    /\ Leave(s)
    /\ UNCHANGED <<callsign, friendship, post, like, comment, code, contended>>

\* myStats
Referred(u) == {v \in People : referrer[v] = u}

SocialStep(s) ==
    \/ AskProfile(s) \/ CheckCallsign(s) \/ SaveProfile(s)
    \/ AskFriend(s) \/ CheckPair(s) \/ SaveFriend(s) \/ AskAnswer(s) \/ SaveAnswer(s)
    \/ AskCode(s) \/ SaveCode(s)
    \/ AskRedeem(s) \/ CheckRedeemed(s) \/ SaveRedeem(s)

-----------------------------------------------------------------------------
(* Properties *)

\* The counters of a post are the numbers of its rows, everything belongs to a
\* profile, callsigns are unique, and nobody was referred by himself or by
\* somebody without a code.
SocialIsSound ==
    /\ \A p \in Posts :
          /\ post[p].likes = Cardinality({l \in like : l[1] = p})
          /\ post[p].comments = comment[p]
          /\ ~Posted(p) => post[p] = NoPost
    /\ \A u, v \in Profiled : callsign[u] = callsign[v] => u = v
    /\ code \cup {post[p].author : p \in {q \in Posts : Posted(q)}} \subseteq Profiled
    /\ \A i \in DOMAIN friendship : Cardinality(Pair(i)) = 2 /\ Pair(i) \subseteq Profiled
    /\ \A u \in People : referrer[u] # NoName => referrer[u] \in code \ {u}

\* "Friendship already exists", "can only act on PENDING": two operators have
\* one friendship whoever asked first, its answer stands, and who blocked the
\* other does not find his posts in the feed; unless the two asked each other at
\* once, or one answered twice at once.
FriendsUnlessCrossed ==
    [][/\ \A i, j \in Rows' : Pair(i)' = Pair(j)' /\ i # j =>
             <<friendship'[i].from, friendship'[i].to>> \in contended'
       /\ \A i \in Rows :
             friendship[i].status # "PENDING" /\ friendship'[i] # friendship[i] =>
                 <<i>> \in contended
       /\ \A u, v \in People :
             v \in Related(u, "BLOCKED")' /\ (\E p \in Feed(u)' : post[p].author = v) =>
                 <<u, v>> \in contended']_friendship
=============================================================================
