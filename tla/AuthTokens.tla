----------------------------- MODULE AuthTokens -----------------------------
(***************************************************************************)
(* Accounts and tokens of the backend (services/auth.service.js,           *)
(* routes/auth.routes.js, utils/tokens.js, middleware/auth.js).  Requests  *)
(* interleave wherever a handler awaits the database or Redis.             *)
(*                                                                         *)
(* A refresh token has a number of its own (jti).  An access token has     *)
(* none: two of one user that were signed in the same second are one.      *)
(* Revocations are in a map of the process, which is written first and     *)
(* asked first, and in a Redis if there is one: of that all that shows is  *)
(* which of them survive a restart (any, whether because there is no       *)
(* Redis, a write failed or it was under way).                             *)
(***************************************************************************)
EXTENDS Integers, Sequences, FiniteSets

CONSTANTS
  Accounts,              \* e-mail addresses
  Requests,              \* handlers that may run at the same time
  MaxTokens,             \* bound: refresh tokens
  AccessTTL, RefreshTTL, \* JWT_ACCESS_TTL, JWT_REFRESH_TTL, in seconds of the model
  MaxSeconds             \* bound

ASSUME TokenAssumption ==
  {MaxTokens, AccessTTL, RefreshTTL, MaxSeconds} \subseteq Nat /\ AccessTTL <= RefreshTTL

VARIABLES
  role,        \* the users collection: account -> role
  registering, \* accounts whose registration has counted the users -> how many
  refresh,     \* refresh tokens in the order they were signed: owner, role, second
  access,      \* access tokens signed: owner, role, second
  revoked,     \* tokenBlacklist
  rotating,    \* refresh handlers past the check: request -> token number or 0
  second,
  spent,       \* history: how often each refresh token was exchanged
  excused,     \* history: those two requests held, or whose revocation was lost
  companions   \* history: accounts whose registration overlapped another

tokenVars == <<role, registering, refresh, access, revoked, rotating, second,
               spent, excused, companions>>

Token(owner, r) == [owner |-> owner, role |-> r, born |-> second]

\* f with k mapped to v
With(f, k, v) == [x \in DOMAIN f \cup {k} |-> IF x = k THEN v ELSE f[x]]
Without(f, k) == [x \in DOMAIN f \ {k} |-> f[x]]

TokensInit ==
  /\ role = <<>> /\ registering = <<>>
  /\ refresh = <<>> /\ access = {}
  /\ revoked = {}
  /\ rotating = [r \in Requests |-> 0]
  /\ second = 0
  /\ spent = <<>> /\ excused = {} /\ companions = {}

AccessKey(a) == <<"access", a.owner, a.born>>
RefreshKey(n) == <<"refresh", n>>

Fresh(token, ttl) == second - token.born < ttl

\* isBlacklisted
Blacklisted(key) == key \in revoked

\* protect: the request is let through with this access token.
Protected(a) == a \in access /\ ~Blacklisted(AccessKey(a)) /\ Fresh(a, AccessTTL)

\* protect and authorize('admin')
Authorized(a) == Protected(a) /\ a.role = "admin"

\* signAccessToken and signRefreshToken, for a user or a decoded token
SignPair(owner, r) ==
  /\ Len(refresh) < MaxTokens
  /\ access' = access \cup {Token(owner, r)}
  /\ refresh' = Append(refresh, Token(owner, r))

\* addToBlacklist
Revoke(keys) == revoked' = revoked \cup keys

\* register: is the address taken, how many users are there?
CountUsers(u) ==
  /\ u \notin DOMAIN role /\ u \notin DOMAIN registering
  /\ registering' = With(registering, u, Cardinality(DOMAIN role))
  /\ companions' = IF DOMAIN registering = {} THEN companions
                   ELSE companions \cup {u} \cup DOMAIN registering
  /\ UNCHANGED <<role, refresh, access, revoked, rotating, second, spent, excused>>

\* Mutant: whoever registers before there is a second user is first.
FirstUser_Alone(n) == n <= 1

FirstUser(n) == n = 0

\* ... and is then created, with both tokens.
CreateUser(u) ==
  /\ u \in DOMAIN registering
  /\ LET r == IF FirstUser(registering[u]) THEN "admin" ELSE "analyst"
     IN role' = With(role, u, r) /\ SignPair(u, r)
  /\ registering' = Without(registering, u)
  /\ spent' = Append(spent, 0)
  /\ UNCHANGED <<revoked, rotating, second, excused, companions>>

Login(u) ==
  /\ u \in DOMAIN role
  /\ SignPair(u, role[u])
  /\ spent' = Append(spent, 0)
  /\ UNCHANGED <<role, registering, revoked, rotating, second, excused, companions>>

\* POST /refresh up to the await of isBlacklistedPub
CheckRefresh(r, n) ==
  /\ rotating[r] = 0 /\ n \in DOMAIN refresh /\ ~Blacklisted(RefreshKey(n))
  /\ rotating' = [rotating EXCEPT ![r] = n]
  /\ excused' = IF \E x \in Requests : rotating[x] = n THEN excused \cup {n} ELSE excused
  /\ UNCHANGED <<role, registering, refresh, access, revoked, second, spent, companions>>

\* Mutant: the token is not revoked when it is exchanged.
Rotated_Kept(n) == {}

\* What an exchange revokes.
Rotated(n) == {RefreshKey(n)}

\* ... and after it: the pair is signed from the token, which is then revoked.
Rotate(r) ==
  /\ rotating[r] # 0 /\ rotating' = [rotating EXCEPT ![r] = 0]
  /\ LET n == rotating[r]
     IN \/ /\ ~Fresh(refresh[n], RefreshTTL)
           /\ UNCHANGED <<access, refresh, spent, revoked>>
        \/ /\ Fresh(refresh[n], RefreshTTL)
           /\ SignPair(refresh[n].owner, refresh[n].role)
           /\ spent' = Append([spent EXCEPT ![n] = @ + 1], 0)
           /\ Revoke(Rotated(n))
  /\ UNCHANGED <<role, registering, second, excused, companions>>

Cookies(a) == {n \in DOMAIN refresh : refresh[n].owner = a.owner} \cup {0}

\* POST /logout with an access token and a cookie of its owner, or none (0)
Logout(a, n) ==
  /\ Protected(a)
  /\ Revoke({AccessKey(a)} \cup
            (IF n # 0 /\ Fresh(refresh[n], RefreshTTL) THEN {RefreshKey(n)} ELSE {}))
  /\ UNCHANGED <<role, registering, refresh, access, rotating, second, spent,
                 excused, companions>>

TokensTick ==
  /\ second < MaxSeconds /\ second' = second + 1
  /\ UNCHANGED <<role, registering, refresh, access, revoked, rotating, spent,
                 excused, companions>>

\* The process restarts: its handlers and what the Redis does not have are gone.
TokensRestart ==
  /\ revoked' \in SUBSET revoked
  /\ excused' = excused \cup {n \in DOMAIN refresh : RefreshKey(n) \in revoked \ revoked'}
  /\ registering' = <<>> /\ rotating' = [r \in Requests |-> 0]
  /\ UNCHANGED <<role, refresh, access, second, spent, companions>>

TokensNext ==
  \/ \E u \in Accounts : CountUsers(u) \/ CreateUser(u) \/ Login(u)
  \/ \E r \in Requests : Rotate(r) \/ \E n \in DOMAIN refresh : CheckRefresh(r, n)
  \/ \E a \in access : \E n \in Cookies(a) : Logout(a, n)
  \/ TokensTick

(* tokens.js:5 calls refresh tokens single-use.  One is exchanged twice    *)
(* only by requests that both held it between the check and the exchange,  *)
(* or after a restart that its revocation did not survive (29-52).         *)
SpentOnce ==
  \A n \in DOMAIN refresh : spent[n] > 1 => n \in excused

(* There is one administrator unless two first registrations overlapped,   *)
(* the count of one being older than the insertion of the other (11-20);   *)
(* and there is one as soon as there is a user.                            *)
OneAdmin ==
  LET admins == {u \in DOMAIN role : role[u] = "admin"}
  IN /\ DOMAIN role # {} => admins # {}
     /\ Cardinality(admins) > 1 => admins \subseteq companions
==============================================================================
