---------------------------- MODULE ResponseProofs ----------------------------
(***************************************************************************)
(* For any accounts, requests, playbooks, findings and bounds: a refresh   *)
(* token is exchanged once, there is one administrator, the human gate     *)
(* holds, and the three places of a pseudo-lock agree - each with the      *)
(* exceptions that its property names.                                     *)
(***************************************************************************)
EXTENDS Response, FiniteSetTheorems, TLAPS

Roles == {"admin", "analyst"}
Tokens == [owner : Accounts, role : Roles, born : Nat]

\* Every token speaks the truth about its owner.
Truthful(t) == t.owner \in DOMAIN role /\ t.role = role[t.owner]

TokenType ==
  /\ DOMAIN role \subseteq Accounts /\ role \in [DOMAIN role -> Roles]
  /\ IsFiniteSet(DOMAIN role)
  /\ DOMAIN registering \subseteq Accounts /\ registering \in [DOMAIN registering -> Nat]
  /\ refresh \in Seq(Tokens) /\ access \subseteq Tokens
  /\ spent \in Seq(Nat) /\ Len(spent) = Len(refresh)
  /\ rotating \in [Requests -> 0..Len(refresh)]
  /\ second \in Nat

TokensAreTrue ==
  /\ \A a \in access : Truthful(a)
  /\ \A n \in 1..Len(refresh) : Truthful(refresh[n])

\* A token that two requests never held and whose revocation is not lost: it is
\* unspent while a request holds it, and revoked once it is spent.
Accounted(n) ==
  /\ spent[n] <= 1
  /\ spent[n] = 1 => RefreshKey(n) \in revoked
  /\ \A r \in Requests : rotating[r] = n => spent[n] = 0
  /\ \A r, q \in Requests : rotating[r] = n /\ rotating[q] = n => r = q

\* What a registration that counted nobody, or has company, says of the others.
Registrations ==
  /\ DOMAIN registering \cap DOMAIN role = {}
  /\ \A u \in DOMAIN registering :
       /\ registering[u] <= Cardinality(DOMAIN role)
       /\ \A v \in DOMAIN registering : u # v => u \in companions
       /\ registering[u] = 0 /\ DOMAIN role # {} =>
            /\ u \in companions
            /\ \A v \in DOMAIN role : role[v] = "admin" => v \in companions

OnlyFirst ==
  \A u, v \in DOMAIN role :
    role[u] = "admin" /\ role[v] = "admin" /\ u # v => u \in companions

SomeAdmin == DOMAIN role # {} => \E u \in DOMAIN role : role[u] = "admin"

TokenInv ==
  /\ TokenType /\ TokensAreTrue
  /\ \A n \in 1..Len(refresh) : n \in excused \/ Accounted(n)
  /\ Registrations /\ OnlyFirst /\ SomeAdmin

-----------------------------------------------------------------------------
(* Signing *)

LEMMA SignPairType ==
  ASSUME TokenType, NEW o \in Accounts, NEW r \in Roles, SignPair(o, r)
  PROVE  /\ access' \subseteq Tokens /\ refresh' \in Seq(Tokens)
         /\ Len(refresh') = Len(refresh) + 1
         /\ refresh'[Len(refresh) + 1] = Token(o, r)
         /\ \A n \in 1..Len(refresh) : refresh'[n] = refresh[n]
         /\ \A a \in access' : a \in access \/ a = Token(o, r)
<1>1. Token(o, r) \in Tokens
  BY DEF Token, Tokens, TokenType
<1>2. QED
  BY <1>1 DEF SignPair, TokenType

LEMMA TokensBegin == TokensInit => TokenInv
<1>1. SUFFICES ASSUME TokensInit PROVE TokenInv
  OBVIOUS
<1>2. DOMAIN role = {} /\ DOMAIN registering = {} /\ Len(refresh) = 0 /\ Len(spent) = 0
  BY <1>1 DEF TokensInit
<1>3. IsFiniteSet(DOMAIN role)
  BY <1>2, FS_EmptySet
<1>4. role \in [DOMAIN role -> Roles] /\ registering \in [DOMAIN registering -> Nat]
  BY <1>1, <1>2 DEF TokensInit
<1>5. TokenType
  BY <1>1, <1>2, <1>3, <1>4 DEF TokensInit, TokenType
<1>6. QED
  BY <1>1, <1>2, <1>5 DEF TokensInit, TokenInv, TokensAreTrue, Registrations, OnlyFirst,
                          SomeAdmin

LEMMA SignedInBegin == SignedIn => TokenInv
<1>1. SUFFICES ASSUME SignedIn PROVE TokenInv
  OBVIOUS
<1>2. /\ DOMAIN role = Accounts /\ DOMAIN registering = {}
      /\ Len(refresh) = 0 /\ Len(spent) = 0
      /\ \A u \in Accounts : role[u] = IF u = Admin THEN "admin" ELSE "analyst"
  BY <1>1 DEF SignedIn
<1>3. role \in [DOMAIN role -> Roles]
  BY <1>1, <1>2 DEF SignedIn, Roles
<1>4. registering \in [DOMAIN registering -> Nat]
  BY <1>1, <1>2 DEF SignedIn
<1>5. \A a \in access : a \in Tokens /\ Truthful(a)
  BY <1>1, <1>2 DEF SignedIn, Token, Tokens, Roles, Truthful
<1>6. TokenType
  BY <1>1, <1>2, <1>3, <1>4, <1>5, ResponseAssumption DEF SignedIn, TokenType
<1>7. OnlyFirst /\ SomeAdmin
  BY <1>2, ResponseAssumption DEF OnlyFirst, SomeAdmin
<1>8. QED
  BY <1>2, <1>5, <1>6, <1>7 DEF TokenInv, TokensAreTrue, Registrations

-----------------------------------------------------------------------------
(* Registration and login *)

LEMMA CountUsersStep ==
  ASSUME TokenInv, NEW u \in Accounts, CountUsers(u)
  PROVE  TokenInv'
<1>1. /\ DOMAIN registering' = DOMAIN registering \cup {u}
      /\ \A v \in DOMAIN registering : registering'[v] = registering[v]
      /\ registering'[u] = Cardinality(DOMAIN role)
  BY DEF CountUsers, With
<1>2. Cardinality(DOMAIN role) \in Nat
  BY FS_CardinalityType DEF TokenInv, TokenType
<1>3. registering' \in [DOMAIN registering' -> Nat]
  BY <1>2 DEF CountUsers, With, TokenInv, TokenType
<1>4. TokenType'
  BY <1>1, <1>3 DEF CountUsers, TokenInv, TokenType
<1>5. /\ TokensAreTrue' /\ SomeAdmin'
      /\ \A n \in 1..Len(refresh') : n \in excused' \/ Accounted(n)'
  BY DEF TokenInv, TokensAreTrue, Truthful, SomeAdmin, Accounted, CountUsers
<1>6. /\ companions \subseteq companions'
      /\ DOMAIN registering # {} => {u} \cup DOMAIN registering \subseteq companions'
  BY DEF CountUsers
<1>7. OnlyFirst'
  BY <1>6 DEF TokenInv, OnlyFirst, CountUsers
<1>8. Registrations'
  <2>1. DOMAIN role # {} => Cardinality(DOMAIN role) # 0
    BY FS_EmptySet DEF TokenInv, TokenType
  <2>2. registering'[u] = 0 => DOMAIN role = {}
    BY <1>1, <2>1
  <2>3. ASSUME NEW v \in DOMAIN registering'
        PROVE  /\ registering'[v] <= Cardinality(DOMAIN role)
               /\ \A w \in DOMAIN registering' : v # w => v \in companions'
               /\ registering'[v] = 0 /\ DOMAIN role # {} =>
                    /\ v \in companions'
                    /\ \A w \in DOMAIN role : role[w] = "admin" => w \in companions'
    <3>1. CASE v = u
      BY <1>1, <1>2, <1>6, <2>2, <3>1
    <3>2. CASE v \in DOMAIN registering
      BY <1>1, <1>6, <3>2 DEF TokenInv, Registrations
    <3>3. QED
      BY <1>1, <3>1, <3>2
  <2>4. DOMAIN registering' \cap DOMAIN role = {}
    BY <1>1 DEF TokenInv, Registrations, CountUsers
  <2>5. QED
    BY <2>3, <2>4 DEF Registrations, CountUsers
<1>9. QED
  BY <1>4, <1>5, <1>7, <1>8 DEF TokenInv

\* A new pair: the refresh token is unspent and nobody holds it.
LEMMA Issued ==
  ASSUME TokenInv, NEW o \in Accounts, NEW k \in Roles, SignPair(o, k),
         spent' = Append(spent, 0), UNCHANGED <<revoked, rotating, excused>>
  PROVE  /\ spent' \in Seq(Nat) /\ Len(spent') = Len(refresh')
         /\ rotating' \in [Requests -> 0..Len(refresh')]
         /\ \A n \in 1..Len(refresh') : n \in excused' \/ Accounted(n)'
<1>1. TokenType
  BY DEF TokenInv
<1>2. Len(refresh') = Len(refresh) + 1
  BY <1>1, SignPairType
<1>3. /\ spent' \in Seq(Nat) /\ Len(spent') = Len(spent) + 1
      /\ spent'[Len(spent) + 1] = 0
      /\ \A n \in 1..Len(spent) : spent'[n] = spent[n]
  BY <1>1 DEF TokenType
<1>4. rotating' \in [Requests -> 0..Len(refresh')]
  BY <1>1, <1>2 DEF TokenType
<1>5. \A n \in 1..Len(refresh) : n \in excused' \/ Accounted(n)'
  BY <1>1, <1>3 DEF TokenInv, TokenType, Accounted
<1>6. ASSUME NEW n \in 1..Len(refresh'), n = Len(refresh) + 1
      PROVE  Accounted(n)'
  <2>1. \A q \in Requests : rotating'[q] # n
    BY <1>1, <1>6 DEF TokenType
  <2>2. spent'[n] = 0
    BY <1>1, <1>3, <1>6 DEF TokenType
  <2>3. spent'[n] <= 1 /\ spent'[n] # 1
    <3>1. 0 <= 1 /\ 0 # 1
      OBVIOUS
    <3>2. QED
      BY <2>2, <3>1, Zenon
  <2>4. \A q, p \in Requests : rotating'[q] = n /\ rotating'[p] = n => q = p
    BY <2>1
  <2>5. QED
    BY <2>1, <2>3, <2>4 DEF Accounted
<1>7. \A n \in 1..Len(refresh') : n \in 1..Len(refresh) \/ n = Len(refresh) + 1
  BY <1>1, <1>2 DEF TokenType
<1>8. QED
  BY <1>1, <1>2, <1>3, <1>4, <1>5, <1>6, <1>7 DEF TokenType

LEMMA CreateUserStep ==
  ASSUME TokenInv, NEW u \in Accounts, CreateUser(u)
  PROVE  TokenInv' /\ \A v \in DOMAIN role : v \in DOMAIN role' /\ role'[v] = role[v]
<1> DEFINE r == IF FirstUser(registering[u]) THEN "admin" ELSE "analyst"
<1>1. /\ u \in DOMAIN registering /\ u \notin DOMAIN role
      /\ SignPair(u, r) /\ r \in Roles
  BY DEF CreateUser, TokenInv, Registrations, Roles
<1>2. /\ DOMAIN role' = DOMAIN role \cup {u} /\ role'[u] = r
      /\ \A v \in DOMAIN role : role'[v] = role[v]
      /\ role' \in [DOMAIN role' -> Roles]
  BY <1>1 DEF CreateUser, With, TokenInv, TokenType
<1>3. /\ DOMAIN registering' = DOMAIN registering \ {u}
      /\ \A v \in DOMAIN registering' : registering'[v] = registering[v]
      /\ registering' \in [DOMAIN registering' -> Nat]
  BY DEF CreateUser, Without, TokenInv, TokenType
<1>4. /\ IsFiniteSet(DOMAIN role')
      /\ Cardinality(DOMAIN role') = Cardinality(DOMAIN role) + 1
      /\ Cardinality(DOMAIN role) \in Nat
  BY <1>1, <1>2, FS_AddElement, FS_CardinalityType DEF TokenInv, TokenType
<1>5. /\ access' \subseteq Tokens /\ refresh' \in Seq(Tokens)
      /\ Len(refresh') = Len(refresh) + 1
      /\ refresh'[Len(refresh) + 1] = Token(u, r)
      /\ \A n \in 1..Len(refresh) : refresh'[n] = refresh[n]
      /\ \A a \in access' : a \in access \/ a = Token(u, r)
  BY <1>1, SignPairType DEF TokenInv
<1>6. /\ spent' \in Seq(Nat) /\ Len(spent') = Len(refresh')
      /\ rotating' \in [Requests -> 0..Len(refresh')]
      /\ \A n \in 1..Len(refresh') : n \in excused' \/ Accounted(n)'
  BY <1>1, Issued DEF CreateUser
<1>7. TokenType'
  BY <1>2, <1>3, <1>4, <1>5, <1>6 DEF CreateUser, TokenInv, TokenType
<1>8. TokensAreTrue'
  <2>1. \A t : Truthful(t) => Truthful(t)'
    BY <1>2 DEF Truthful
  <2>4. ASSUME NEW a \in access' PROVE Truthful(a)'
    BY <1>5, <2>1, <1>2 DEF TokenInv, TokensAreTrue, Token, Truthful
  <2>5. ASSUME NEW n \in 1..Len(refresh') PROVE Truthful(refresh[n])'
    <3>1. CASE n \in 1..Len(refresh)
      BY <1>5, <1>2, <3>1 DEF TokenInv, TokensAreTrue, Truthful
    <3>2. CASE n = Len(refresh) + 1
      BY <1>5, <1>2, <3>2 DEF Truthful, Token
    <3>3. QED
      BY <1>5, <3>1, <3>2 DEF TokenInv, TokenType
  <2>6. QED
    BY <2>4, <2>5 DEF TokensAreTrue
<1>9. r = "admin" /\ DOMAIN role # {} =>
        /\ u \in companions
        /\ \A v \in DOMAIN role : role[v] = "admin" => v \in companions
  BY <1>1 DEF TokenInv, Registrations, FirstUser
<1>10. OnlyFirst'
  BY <1>2, <1>9 DEF TokenInv, OnlyFirst, CreateUser
<1>11. SomeAdmin'
  <2>1. CASE DOMAIN role = {}
    <3>1. registering[u] = 0
      BY <1>1, <1>4, <2>1, FS_EmptySet DEF TokenInv, Registrations, TokenType
    <3>2. QED
      BY <1>2, <3>1 DEF SomeAdmin, FirstUser
  <2>2. CASE DOMAIN role # {}
    BY <1>2, <2>2 DEF TokenInv, SomeAdmin
  <2>3. QED
    BY <2>1, <2>2
<1>12. Registrations'
  <2>1. ASSUME NEW v \in DOMAIN registering'
        PROVE  /\ registering'[v] <= Cardinality(DOMAIN role')
               /\ \A w \in DOMAIN registering' : v # w => v \in companions
    BY <1>3, <1>4 DEF TokenInv, Registrations, TokenType
  <2>2. ASSUME NEW v \in DOMAIN registering'
        PROVE  v \in companions /\ u \in companions
    BY <1>1, <1>3 DEF TokenInv, Registrations
  <2>3. ASSUME NEW v \in DOMAIN registering', registering'[v] = 0,
               NEW w \in DOMAIN role', role'[w] = "admin"
        PROVE  w \in companions
    BY <1>2, <1>3, <2>2, <2>3 DEF TokenInv, Registrations
  <2>4. DOMAIN registering' \cap DOMAIN role' = {}
    BY <1>2, <1>3 DEF TokenInv, Registrations
  <2>5. QED
    BY <2>1, <2>2, <2>3, <2>4 DEF Registrations, CreateUser
<1>13. QED
  BY <1>2, <1>6, <1>7, <1>8, <1>10, <1>11, <1>12 DEF TokenInv

\* What a new pair of an account says, when roles and registrations stay.
LEMMA PairStep ==
  ASSUME TokenInv, NEW o \in DOMAIN role, SignPair(o, role[o]),
         UNCHANGED <<role, registering, second, companions>>,
         spent' \in Seq(Nat), Len(spent') = Len(refresh'),
         rotating' \in [Requests -> 0..Len(refresh')],
         \A n \in 1..Len(refresh') : n \in excused' \/ Accounted(n)'
  PROVE  TokenInv'
<1>1. o \in Accounts /\ role[o] \in Roles
  BY DEF TokenInv, TokenType
<1>2. /\ access' \subseteq Tokens /\ refresh' \in Seq(Tokens)
      /\ Len(refresh') = Len(refresh) + 1
      /\ refresh'[Len(refresh) + 1] = Token(o, role[o])
      /\ \A n \in 1..Len(refresh) : refresh'[n] = refresh[n]
      /\ \A a \in access' : a \in access \/ a = Token(o, role[o])
  BY <1>1, SignPairType DEF TokenInv
<1>3. TokenType'
  BY <1>2 DEF TokenInv, TokenType
<1>4. TokensAreTrue'
  <2>1. ASSUME NEW a \in access' PROVE Truthful(a)'
    BY <1>2 DEF TokenInv, TokensAreTrue, Token, Truthful
  <2>2. ASSUME NEW n \in 1..Len(refresh') PROVE Truthful(refresh[n])'
    <3>1. CASE n \in 1..Len(refresh)
      BY <1>2, <3>1 DEF TokenInv, TokensAreTrue, Truthful
    <3>2. CASE n = Len(refresh) + 1
      BY <1>2, <3>2 DEF Truthful, Token
    <3>3. QED
      BY <1>2, <3>1, <3>2 DEF TokenInv, TokenType
  <2>3. QED
    BY <2>1, <2>2 DEF TokensAreTrue
<1>5. Registrations' /\ OnlyFirst' /\ SomeAdmin'
  BY DEF TokenInv, Registrations, OnlyFirst, SomeAdmin
<1>6. QED
  BY <1>3, <1>4, <1>5 DEF TokenInv

LEMMA LoginStep ==
  ASSUME TokenInv, NEW u \in Accounts, Login(u)
  PROVE  TokenInv'
<1>1. u \in DOMAIN role /\ role[u] \in Roles
  BY DEF Login, TokenInv, TokenType
<1>2. /\ spent' \in Seq(Nat) /\ Len(spent') = Len(refresh')
      /\ rotating' \in [Requests -> 0..Len(refresh')]
      /\ \A n \in 1..Len(refresh') : n \in excused' \/ Accounted(n)'
  BY <1>1, Issued DEF Login
<1>3. QED
  BY <1>1, <1>2, PairStep DEF Login

-----------------------------------------------------------------------------
(* The exchange of a refresh token, and revocation *)

LEMMA CheckRefreshStep ==
  ASSUME TokenInv, NEW r \in Requests, NEW n \in DOMAIN refresh, CheckRefresh(r, n)
  PROVE  TokenInv'
<1>1. n \in 1..Len(refresh) /\ Len(refresh) \in Nat
  BY DEF TokenInv, TokenType
<1>2. TokenType'
  BY <1>1 DEF CheckRefresh, TokenInv, TokenType
<1>3. /\ TokensAreTrue' /\ Registrations' /\ OnlyFirst' /\ SomeAdmin'
  BY DEF CheckRefresh, TokenInv, TokensAreTrue, Truthful, Registrations, OnlyFirst, SomeAdmin
<1>4. \A q \in Requests : rotating'[q] = IF q = r THEN n ELSE rotating[q]
  BY DEF CheckRefresh, TokenInv, TokenType
<1>5. ASSUME NEW m \in 1..Len(refresh), m \notin excused' PROVE Accounted(m)'
  <2>1. Accounted(m)
    BY <1>5 DEF CheckRefresh, TokenInv
  <2>2. CASE m = n
    <3>1. \A q \in Requests : rotating[q] # n
      BY <1>5, <2>2 DEF CheckRefresh
    <3>2. spent[n] = 0
      BY <1>1, <2>1, <2>2 DEF CheckRefresh, Accounted, Blacklisted, TokenInv, TokenType
    <3>3. QED
      BY <1>4, <2>2, <3>1, <3>2 DEF CheckRefresh, Accounted
  <2>3. CASE m # n
    BY <1>4, <2>1, <2>3 DEF CheckRefresh, Accounted
  <2>4. QED
    BY <2>2, <2>3
<1>6. QED
  BY <1>2, <1>3, <1>5 DEF CheckRefresh, TokenInv

LEMMA RotateStep ==
  ASSUME TokenInv, NEW r \in Requests, Rotate(r)
  PROVE  TokenInv'
<1> DEFINE n == rotating[r]
<1>1. n \in 1..Len(refresh) /\ Len(refresh) \in Nat
  BY DEF Rotate, TokenInv, TokenType
<1>2. \A q \in Requests : rotating'[q] = IF q = r THEN 0 ELSE rotating[q]
  BY DEF Rotate, TokenInv, TokenType
<1>3. CASE UNCHANGED <<access, refresh, spent, revoked>>
  <2>1. TokenType'
    BY <1>1, <1>3 DEF Rotate, TokenInv, TokenType
  <2>2. /\ TokensAreTrue' /\ Registrations' /\ OnlyFirst' /\ SomeAdmin'
    BY <1>3 DEF Rotate, TokenInv, TokensAreTrue, Truthful, Registrations, OnlyFirst, SomeAdmin
  <2>3. \A m \in 1..Len(refresh) : m \in excused' \/ Accounted(m)'
    BY <1>2, <1>3 DEF Rotate, TokenInv, Accounted
  <2>4. QED
    BY <1>3, <2>1, <2>2, <2>3 DEF TokenInv
<1>4. CASE /\ SignPair(refresh[n].owner, refresh[n].role)
           /\ spent' = Append([spent EXCEPT ![n] = @ + 1], 0)
           /\ Revoke(Rotated(n))
  <2>1. /\ refresh[n].owner \in DOMAIN role /\ refresh[n].role = role[refresh[n].owner]
        /\ refresh[n].owner \in Accounts /\ refresh[n].role \in Roles
    BY <1>1 DEF TokenInv, TokensAreTrue, Truthful, TokenType, Tokens
  <2>2. Len(refresh') = Len(refresh) + 1
    BY <1>4, <2>1, SignPairType DEF TokenInv
  <2>3. /\ spent' \in Seq(Nat) /\ Len(spent') = Len(refresh')
        /\ spent'[Len(refresh) + 1] = 0
        /\ \A m \in 1..Len(refresh) :
             spent'[m] = IF m = n THEN spent[n] + 1 ELSE spent[m]
    BY <1>1, <1>4, <2>2 DEF TokenInv, TokenType
  <2>4. rotating' \in [Requests -> 0..Len(refresh')]
    BY <1>1, <2>2 DEF Rotate, TokenInv, TokenType
  <2>5. ASSUME NEW m \in 1..Len(refresh'), m \notin excused' PROVE Accounted(m)'
    <3>1. \A q \in Requests : rotating'[q] = m => rotating[q] = m /\ q # r
      BY <1>2, <2>5, <1>1, <2>2
    <3>2. CASE m \in 1..Len(refresh) /\ m # n
      <4>1. Accounted(m)
        BY <2>5, <3>2 DEF Rotate, TokenInv
      <4>2. spent'[m] = spent[m] /\ revoked \subseteq revoked'
        BY <1>4, <2>3, <3>2 DEF Revoke
      <4>3. QED
        BY <3>1, <4>1, <4>2 DEF Accounted
    <3>3. CASE m = n
      <4>1. Accounted(n)
        BY <1>1, <2>5, <3>3 DEF Rotate, TokenInv
      <4>2. spent[n] = 0 /\ \A q \in Requests : rotating[q] = n => q = r
        BY <4>1 DEF Accounted
      <4>3. spent'[n] = 1 /\ RefreshKey(n) \in revoked'
        BY <1>1, <1>4, <2>3, <4>2 DEF Revoke, Rotated
      <4>4. QED
        BY <3>1, <3>3, <4>2, <4>3 DEF Accounted
    <3>4. CASE m = Len(refresh) + 1
      <4>1. \A q \in Requests : rotating[q] # m
        BY <1>1, <3>4 DEF TokenInv, TokenType
      <4>2. QED
        BY <2>3, <3>1, <3>4, <4>1 DEF Accounted
    <3>5. QED
      BY <1>1, <2>2, <3>2, <3>3, <3>4
  <2>6. QED
    BY <1>4, <2>1, <2>3, <2>4, <2>5, PairStep DEF Rotate
<1>5. QED
  BY <1>3, <1>4 DEF Rotate

LEMMA LogoutStep ==
  ASSUME TokenInv, NEW a, NEW n, Logout(a, n)
  PROVE  TokenInv'
<1>1. revoked \subseteq revoked'
  BY DEF Logout, Revoke
<1>2. \A m : Accounted(m) => Accounted(m)'
  BY <1>1 DEF Logout, Accounted
<1>3. QED
  BY <1>2 DEF Logout, TokenInv, TokenType, TokensAreTrue, Truthful, Registrations,
              OnlyFirst, SomeAdmin

LEMMA TickStep == TokenInv /\ TokensTick => TokenInv'
<1>1. SUFFICES ASSUME TokenInv, TokensTick PROVE TokenInv'
  OBVIOUS
<1>2. TokenType'
  BY <1>1 DEF TokensTick, TokenInv, TokenType
<1>3. QED
  BY <1>1, <1>2 DEF TokensTick, TokenInv, TokensAreTrue, Truthful, Accounted,
                    Registrations, OnlyFirst, SomeAdmin

LEMMA RestartStep == TokenInv /\ TokensRestart => TokenInv'
<1>1. SUFFICES ASSUME TokenInv, TokensRestart PROVE TokenInv'
  OBVIOUS
<1>2. DOMAIN registering' = {} /\ registering' \in [DOMAIN registering' -> Nat]
  BY <1>1 DEF TokensRestart
<1>3. /\ Len(refresh) \in Nat /\ DOMAIN refresh = 1..Len(refresh)
      /\ \A q \in Requests : rotating'[q] = 0
      /\ rotating' \in [Requests -> 0..Len(refresh)]
  BY <1>1 DEF TokensRestart, TokenInv, TokenType
<1>4. TokenType'
  BY <1>1, <1>2, <1>3 DEF TokensRestart, TokenInv, TokenType
<1>5. ASSUME NEW m \in 1..Len(refresh), m \notin excused' PROVE Accounted(m)'
  <2>1. Accounted(m) /\ (RefreshKey(m) \in revoked => RefreshKey(m) \in revoked')
    BY <1>1, <1>3, <1>5 DEF TokensRestart, TokenInv
  <2>2. \A q \in Requests : rotating'[q] # m
    BY <1>3
  <2>3. QED
    BY <1>1, <2>1, <2>2 DEF TokensRestart, Accounted
<1>6. TokensAreTrue' /\ Registrations' /\ OnlyFirst' /\ SomeAdmin'
  BY <1>1, <1>2 DEF TokensRestart, TokenInv, TokensAreTrue, Truthful, Registrations,
                    OnlyFirst, SomeAdmin
<1>7. QED
  BY <1>1, <1>4, <1>5, <1>6 DEF TokensRestart, TokenInv

LEMMA TokensStep == TokenInv /\ TokensNext => TokenInv'
<1>1. SUFFICES ASSUME TokenInv, TokensNext PROVE TokenInv'
  OBVIOUS
<1>2. ASSUME NEW u \in Accounts, CountUsers(u) \/ CreateUser(u) \/ Login(u) PROVE TokenInv'
  BY <1>1, <1>2, CountUsersStep, CreateUserStep, LoginStep
<1>3. ASSUME NEW r \in Requests, Rotate(r) \/ \E n \in DOMAIN refresh : CheckRefresh(r, n)
      PROVE TokenInv'
  BY <1>1, <1>3, RotateStep, CheckRefreshStep
<1>4. ASSUME NEW a \in access, NEW n \in Cookies(a), Logout(a, n) PROVE TokenInv'
  BY <1>1, <1>4, LogoutStep
<1>5. QED
  BY <1>1, <1>2, <1>3, <1>4, TickStep DEF TokensNext

LEMMA TokensUntouched == TokenInv /\ UNCHANGED tokenVars => TokenInv'
BY DEF tokenVars, TokenInv, TokenType, TokensAreTrue, Truthful, Accounted, Registrations,
       OnlyFirst, SomeAdmin

LEMMA TokenInductive == TokenInv /\ [Next]_vars => TokenInv'
<1>1. SUFFICES ASSUME TokenInv, [Next]_vars PROVE TokenInv'
  OBVIOUS
<1>2. CASE TokensMove
  BY <1>1, <1>2, TokensStep DEF TokensMove
<1>3. CASE LogsOut
  BY <1>1, <1>3, LogoutStep DEF LogsOut
<1>4. CASE Restarts
  BY <1>1, <1>4, RestartStep DEF Restarts, Restart
<1>5. CASE UNCHANGED tokenVars
  BY <1>1, <1>5, TokensUntouched
<1>6. QED
  BY <1>1, <1>2, <1>3, <1>4, <1>5 DEF Next, Serves, LocksMove, vars, accessVars

LEMMA TokenInvHolds == Spec => []TokenInv
<1>1. Init => TokenInv
  BY TokensBegin, SignedInBegin DEF Init
<1>2. QED
  BY <1>1, TokenInductive, PTL DEF Spec

(* A refresh token is exchanged twice only if two requests held it at once *)
(* or its revocation was lost in a restart, for any number of requests,    *)
(* accounts, tokens and restarts (routes/auth.routes.js 29-52).            *)
THEOREM RefreshIsSpentOnce == Spec => []SpentOnce
<1>1. TokenInv => SpentOnce
  BY DEF TokenInv, TokenType, Accounted, SpentOnce
<1>2. QED
  BY <1>1, TokenInvHolds, PTL

(* There is an administrator as soon as there is a user, and a second one  *)
(* only if the registrations of all of them overlapped another             *)
(* (services/auth.service.js 11-20).                                       *)
THEOREM OneAdministrator == Spec => []OneAdmin
<1>1. ASSUME TokenInv PROVE OneAdmin
  <2> DEFINE admins == {u \in DOMAIN role : role[u] = "admin"}
  <2>1. DOMAIN role # {} => admins # {}
    BY <1>1 DEF TokenInv, SomeAdmin
  <2>2. ASSUME Cardinality(admins) > 1, NEW u \in admins PROVE u \in companions
    <3>1. CASE admins = {u}
      BY <2>2, <3>1, FS_Singleton
    <3>2. CASE \E v \in admins : v # u
      BY <1>1, <3>2 DEF TokenInv, OnlyFirst
    <3>3. QED
      BY <3>1, <3>2
  <2>3. QED
    BY <2>1, <2>2 DEF OneAdmin
<1>2. QED
  BY <1>1, TokenInvHolds, PTL

-----------------------------------------------------------------------------
(* The human gate *)

Books == {Playbooks[k] : k \in DOMAIN Playbooks}
Statuses == {"pending", "approved", "rejected", "executed", "failed"}
Stages == [stage : {"idle", "loaded", "executing"}, kind : {"none", "approve", "reject"},
           inc : Nat, by : Accounts \cup {"none"}, dec : Nat, next : Nat, ok : BOOLEAN]
Verdicts == [kind : {"auto", "approve", "reject"}, by : Accounts \cup {System}, ran : Nat]

GateType ==
  /\ incident \in Seq([playbook : Books, status : Statuses])
  /\ decisions \in Seq(Seq(Verdicts)) /\ Len(decisions) = Len(incident)
  /\ worker \in [Workers -> Stages]
  /\ left \subseteq DOMAIN Playbooks

IsAdmin(u) == u \in DOMAIN role /\ role[u] = "admin"

LoadedWell(w) ==
  worker[w].stage = "loaded" =>
    /\ worker[w].kind \in {"approve", "reject"}
    /\ worker[w].inc \in 1..Len(incident)
    /\ w \in Requests /\ IsAdmin(worker[w].by)

\* It has not recorded more for its decision than it has come past.
ExecutesWell(w) ==
  LET i == worker[w].inc
      d == worker[w].dec
  IN worker[w].stage = "executing" =>
       /\ i \in 1..Len(incident) /\ d \in 1..Len(decisions[i])
       /\ decisions[i][d].kind # "reject"
       /\ decisions[i][d].ran < worker[w].next

Alone ==
  \A v, w \in Workers :
    /\ worker[v].stage = "executing" /\ worker[w].stage = "executing"
    /\ worker[v].inc = worker[w].inc /\ worker[v].dec = worker[w].dec
    => v = w

DecidedWell(i, k) ==
  /\ decisions[i][k].ran <= incident[i].playbook.actions
  /\ decisions[i][k].kind = "auto" => incident[i].playbook.mode = "auto"
  /\ decisions[i][k].kind = "reject" => decisions[i][k].ran = 0
  /\ decisions[i][k].kind # "auto" => IsAdmin(decisions[i][k].by)

\* Of an incident that no two requests loaded: it is pending up to its decision,
\* which is the last, and one request at the most has it loaded.
LoadedOnce(i) ==
  /\ \A k \in 1..Len(decisions[i]) : decisions[i][k].kind # "auto" =>
       k = Len(decisions[i]) /\ incident[i].status # "pending"
  /\ \A w \in Requests : HasLoaded(w, i) =>
       /\ \A k \in 1..Len(decisions[i]) : decisions[i][k].kind = "auto"
       /\ \A v \in Requests : HasLoaded(v, i) => v = w

GateInv ==
  /\ GateType
  /\ \A w \in Workers : LoadedWell(w) /\ ExecutesWell(w)
  /\ Alone
  /\ \A i \in 1..Len(incident) :
       /\ \A k \in 1..Len(decisions[i]) : DecidedWell(i, k)
       /\ i \in both \/ LoadedOnce(i)

LEMMA GateBegin == IncidentsInit => GateInv
<1>1. SUFFICES ASSUME IncidentsInit PROVE GateInv
  OBVIOUS
<1>2. Off \in Stages
  BY DEF Off, At, Stages
<1>3. \A w \in Workers : worker[w].stage = "idle"
  BY <1>1 DEF IncidentsInit, Off, At
<1>4. GateType /\ Len(incident) = 0
  BY <1>1, <1>2 DEF IncidentsInit, GateType
<1>5. QED
  BY <1>3, <1>4 DEF GateInv, LoadedWell, ExecutesWell, Alone

LEMMA GateRoles ==
  ASSUME GateInv, UNCHANGED incidentVars,
         \A u \in DOMAIN role : u \in DOMAIN role' /\ role'[u] = role[u]
  PROVE  GateInv'
<1>1. \A u : IsAdmin(u) => IsAdmin(u)'
  BY DEF IsAdmin
<1>2. GateType' /\ Alone'
  BY DEF GateInv, GateType, Alone, incidentVars
<1>3. \A w \in Workers : LoadedWell(w)' /\ ExecutesWell(w)'
  BY <1>1 DEF GateInv, LoadedWell, ExecutesWell, incidentVars
<1>4. ASSUME NEW i \in 1..Len(incident)
      PROVE  /\ \A k \in 1..Len(decisions[i]) : DecidedWell(i, k)'
             /\ i \in both \/ LoadedOnce(i)'
  BY <1>1 DEF GateInv, DecidedWell, LoadedOnce, HasLoaded, incidentVars
<1>5. QED
  BY <1>2, <1>3, <1>4 DEF GateInv, incidentVars

LEMMA GateStays ==
  ASSUME GateInv, UNCHANGED <<role, incident, worker, decisions, both>>,
         left' \subseteq DOMAIN Playbooks
  PROVE  GateInv'
BY DEF GateInv, GateType, LoadedWell, ExecutesWell, Alone, DecidedWell, LoadedOnce,
       HasLoaded, IsAdmin

LEMMA WorkerIsSet ==
  ASSUME GateType, NEW w \in Workers, NEW state \in Stages, Set(w, state)
  PROVE  /\ worker' \in [Workers -> Stages]
         /\ \A v \in Workers : worker'[v] = IF v = w THEN state ELSE worker[v]
BY DEF GateType, Set

LEMMA OffIsIdle == Off \in Stages /\ Off.stage = "idle"
BY DEF Off, At, Stages

LEMMA LoadedKept ==
  ASSUME NEW w, LoadedWell(w), worker'[w] = worker[w], UNCHANGED role,
         Len(incident) \in Nat, Len(incident') \in Nat, Len(incident) <= Len(incident')
  PROVE  LoadedWell(w)'
BY DEF LoadedWell, IsAdmin

\* Its decision is still there, with as many actions.
Kept(i, d) ==
  /\ d \in 1..Len(decisions'[i])
  /\ decisions'[i][d].kind = decisions[i][d].kind
  /\ decisions'[i][d].ran = decisions[i][d].ran

LEMMA ExecutingKept ==
  ASSUME NEW w, ExecutesWell(w), worker'[w] = worker[w],
         Len(incident) \in Nat, Len(incident') \in Nat, Len(incident) <= Len(incident'),
         worker[w].stage = "executing" => Kept(worker[w].inc, worker[w].dec)
  PROVE  ExecutesWell(w)'
<1> DEFINE i == worker[w].inc
           d == worker[w].dec
<1>1. CASE worker[w].stage = "executing"
  <2>1. /\ i \in 1..Len(incident) /\ decisions[i][d].kind # "reject"
        /\ decisions[i][d].ran < worker[w].next
    BY <1>1 DEF ExecutesWell
  <2>2. i \in 1..Len(incident')
    BY <2>1
  <2>3. /\ d \in 1..Len(decisions'[i]) /\ decisions'[i][d].kind # "reject"
        /\ decisions'[i][d].ran < worker'[w].next
    BY <1>1, <2>1 DEF Kept
  <2>4. QED
    BY <2>2, <2>3 DEF ExecutesWell
<1>2. CASE worker[w].stage # "executing"
  BY <1>2 DEF ExecutesWell
<1>3. QED
  BY <1>1, <1>2

LEMMA DecidedKept ==
  ASSUME NEW i, NEW k, DecidedWell(i, k), decisions'[i][k] = decisions[i][k],
         incident'[i].playbook = incident[i].playbook, UNCHANGED role
  PROVE  DecidedWell(i, k)'
BY DEF DecidedWell, IsAdmin

LEMMA OnceKept ==
  ASSUME NEW i, LoadedOnce(i), decisions'[i] = decisions[i],
         incident'[i].status = incident[i].status \/ incident'[i].status # "pending",
         \A w \in Requests : HasLoaded(w, i)' => HasLoaded(w, i)
  PROVE  LoadedOnce(i)'
BY DEF LoadedOnce

LEMMA Executed ==
  ASSUME NEW i \in Nat, NEW d \in Nat
  PROVE  /\ Executing(i, d) \in Stages /\ Executing(i, d).stage = "executing"
         /\ Executing(i, d).inc = i /\ Executing(i, d).dec = d
         /\ Executing(i, d).next = 1
BY DEF Executing, At, Stages

LEMMA CreateStep ==
  ASSUME GateInv, NEW k \in left, CreateIncident(k), UNCHANGED role
  PROVE  GateInv'
<1> DEFINE N == Len(incident)
           new == [playbook |-> Playbooks[k], status |-> "pending"]
<1>1. /\ N \in Nat /\ Len(decisions) = N /\ k \in DOMAIN Playbooks
      /\ new \in [playbook : Books, status : Statuses]
  BY DEF GateInv, GateType, Books, Statuses
<1>2. /\ incident' \in Seq([playbook : Books, status : Statuses])
      /\ Len(incident') = N + 1 /\ incident'[N + 1] = new
      /\ \A i \in 1..N : incident'[i] = incident[i]
  BY <1>1 DEF CreateIncident, GateInv, GateType
<1>3. PICK ds \in Seq(Verdicts) :
        /\ decisions' = Append(decisions, ds)
        /\ \/ ds = <<>> /\ UNCHANGED worker
           \/ /\ Automatic(Playbooks[k]) /\ ds = <<Decision("auto", System)>>
              /\ Set(System, Executing(N + 1, 1))
  <2>1. Decision("auto", System) \in Verdicts
    BY DEF Decision, Verdicts
  <2>2. <<>> \in Seq(Verdicts) /\ <<Decision("auto", System)>> \in Seq(Verdicts)
    BY <2>1
  <2>3. QED
    BY <2>2 DEF CreateIncident
<1>4. /\ decisions' \in Seq(Seq(Verdicts)) /\ Len(decisions') = N + 1
      /\ decisions'[N + 1] = ds
      /\ \A i \in 1..N : decisions'[i] = decisions[i]
  BY <1>1, <1>3 DEF GateInv, GateType
<1>5. CASE ds = <<>> /\ UNCHANGED worker
  <2>1. GateType'
    BY <1>1, <1>2, <1>4, <1>5 DEF CreateIncident, GateInv, GateType
  <2>2. ASSUME NEW w \in Workers PROVE LoadedWell(w)' /\ ExecutesWell(w)'
    <3>1. /\ LoadedWell(w) /\ ExecutesWell(w)
          /\ N <= Len(incident') /\ Len(incident') \in Nat
      BY <1>1, <1>2 DEF GateInv
    <3>2. worker[w].stage = "executing" => Kept(worker[w].inc, worker[w].dec)
      BY <1>4, <3>1 DEF ExecutesWell, Kept
    <3>3. QED
      BY <1>1, <1>5, <3>1, <3>2, LoadedKept, ExecutingKept
  <2>3. Alone'
    BY <1>5 DEF GateInv, Alone
  <2>4. ASSUME NEW i \in 1..N
        PROVE  /\ \A j \in 1..Len(decisions'[i]) : DecidedWell(i, j)'
               /\ i \in both' \/ LoadedOnce(i)'
    <3>1. \A w \in Requests : HasLoaded(w, i)' => HasLoaded(w, i)
      BY <1>5 DEF HasLoaded
    <3>2. /\ \A j \in 1..Len(decisions[i]) : DecidedWell(i, j)
          /\ i \in both \/ LoadedOnce(i)
      BY <2>4 DEF GateInv
    <3>3. decisions'[i] = decisions[i] /\ incident'[i] = incident[i]
      BY <1>2, <1>4, <2>4
    <3>4. \A j \in 1..Len(decisions'[i]) : DecidedWell(i, j)'
      BY <3>2, <3>3, DecidedKept
    <3>5. i \in both' \/ LoadedOnce(i)'
      BY <3>1, <3>2, <3>3, OnceKept DEF CreateIncident
    <3>6. QED
      BY <3>4, <3>5
  <2>5. ASSUME NEW i, i = N + 1
        PROVE  /\ \A j \in 1..Len(decisions'[i]) : DecidedWell(i, j)'
               /\ LoadedOnce(i)'
    <3>1. Len(decisions'[i]) = 0
      BY <1>4, <1>5, <2>5
    <3>2. \A w \in Requests : ~HasLoaded(w, i)'
      BY <1>1, <1>5, <2>5 DEF GateInv, LoadedWell, HasLoaded, Workers
    <3>3. QED
      BY <3>1, <3>2 DEF LoadedOnce
  <2>6. \A i \in 1..Len(incident') : i \in 1..N \/ i = N + 1
    BY <1>1, <1>2
  <2>7. ASSUME NEW i \in 1..Len(incident')
        PROVE  (/\ \A j \in 1..Len(decisions[i]) : DecidedWell(i, j)
                /\ i \in both \/ LoadedOnce(i))'
    BY <2>4, <2>5, <2>6
  <2>8. QED
    BY <2>1, <2>2, <2>3, <2>7 DEF GateInv
<1>6. CASE /\ Automatic(Playbooks[k]) /\ ds = <<Decision("auto", System)>>
           /\ Set(System, Executing(N + 1, 1))
  <2>1. /\ Executing(N + 1, 1) \in Stages /\ Executing(N + 1, 1).stage = "executing"
        /\ Executing(N + 1, 1).inc = N + 1 /\ Executing(N + 1, 1).dec = 1
        /\ Executing(N + 1, 1).next = 1
    <3>1. N + 1 \in Nat /\ 1 \in Nat
      BY <1>1
    <3>2. QED
      BY <3>1, Executed, Zenon
  <2>2. /\ worker' \in [Workers -> Stages]
        /\ \A v \in Workers :
             worker'[v] = IF v = System THEN Executing(N + 1, 1) ELSE worker[v]
    BY <1>6, <2>1, WorkerIsSet DEF GateInv, Workers
  <2>3. /\ Len(ds) = 1 /\ ds[1].kind = "auto" /\ ds[1].ran = 0
    BY <1>6 DEF Decision
  <2>4. GateType'
    BY <1>1, <1>2, <1>4, <2>2 DEF CreateIncident, GateInv, GateType
  <2>5. ASSUME NEW w \in Workers PROVE LoadedWell(w)' /\ ExecutesWell(w)'
    <3>1. CASE w = System
      <4>1. /\ worker'[w].stage = "executing" /\ worker'[w].inc = N + 1
            /\ worker'[w].dec = 1 /\ worker'[w].next = 1
        BY <2>1, <2>2, <3>1
      <4>2. /\ N + 1 \in 1..Len(incident')
            /\ Len(decisions'[N + 1]) = 1
            /\ decisions'[N + 1][1].kind = "auto"
            /\ decisions'[N + 1][1].ran = 0
        BY <1>1, <1>2, <1>4, <2>3
      <4>3. LoadedWell(w)'
        BY <4>1 DEF LoadedWell
      <4>4. ExecutesWell(w)'
        BY <4>1, <4>2 DEF ExecutesWell
      <4>5. QED
        BY <4>3, <4>4
    <3>2. CASE w # System
      <4>1. /\ LoadedWell(w) /\ ExecutesWell(w) /\ worker'[w] = worker[w]
            /\ N <= Len(incident') /\ Len(incident') \in Nat
        BY <1>1, <1>2, <2>2, <3>2 DEF GateInv
      <4>2. worker[w].stage = "executing" => Kept(worker[w].inc, worker[w].dec)
        BY <1>4, <4>1 DEF ExecutesWell, Kept
      <4>3. QED
        BY <1>1, <4>1, <4>2, LoadedKept, ExecutingKept
    <3>3. QED
      BY <3>1, <3>2
  <2>6. Alone'
    BY <1>1, <2>1, <2>2 DEF GateInv, Alone, ExecutesWell
  <2>7. ASSUME NEW i \in 1..N
        PROVE  /\ \A j \in 1..Len(decisions'[i]) : DecidedWell(i, j)'
               /\ i \in both' \/ LoadedOnce(i)'
    <3>1. \A w \in Requests : HasLoaded(w, i)' => HasLoaded(w, i)
      BY <2>1, <2>2 DEF HasLoaded, Workers
    <3>2. /\ \A j \in 1..Len(decisions[i]) : DecidedWell(i, j)
          /\ i \in both \/ LoadedOnce(i)
      BY <2>7 DEF GateInv
    <3>3. decisions'[i] = decisions[i] /\ incident'[i] = incident[i]
      BY <1>2, <1>4, <2>7
    <3>4. \A j \in 1..Len(decisions'[i]) : DecidedWell(i, j)'
      BY <3>2, <3>3, DecidedKept
    <3>5. i \in both' \/ LoadedOnce(i)'
      BY <3>1, <3>2, <3>3, OnceKept DEF CreateIncident
    <3>6. QED
      BY <3>4, <3>5
  <2>8. ASSUME NEW i, i = N + 1
        PROVE  /\ \A j \in 1..Len(decisions'[i]) : DecidedWell(i, j)'
               /\ LoadedOnce(i)'
    <3>1. ASSUME NEW j \in 1..Len(decisions'[i]) PROVE DecidedWell(i, j)'
      <4>1. j = 1 /\ decisions'[i][j] = ds[1]
        BY <1>4, <2>3, <2>8, <3>1
      <4>2. Playbooks[k].actions \in Nat /\ Playbooks[k].mode = "auto"
        BY <1>1, <1>6, IncidentAssumption DEF Automatic
      <4>3. incident'[i].playbook = Playbooks[k]
        BY <1>2, <2>8
      <4>4. QED
        BY <2>3, <4>1, <4>2, <4>3 DEF DecidedWell
    <3>2. \A w \in Requests : ~HasLoaded(w, i)'
      BY <1>1, <2>1, <2>2, <2>8 DEF GateInv, LoadedWell, HasLoaded, Workers
    <3>3. QED
      BY <1>4, <2>3, <2>8, <3>1, <3>2 DEF LoadedOnce
  <2>9. \A i \in 1..Len(incident') : i \in 1..N \/ i = N + 1
    BY <1>1, <1>2
  <2>10. ASSUME NEW i \in 1..Len(incident')
         PROVE  (/\ \A j \in 1..Len(decisions[i]) : DecidedWell(i, j)
                 /\ i \in both \/ LoadedOnce(i))'
    BY <2>7, <2>8, <2>9
  <2>11. QED
    BY <2>4, <2>5, <2>6, <2>10 DEF GateInv
<1>7. QED
  BY <1>3, <1>5, <1>6

LEMMA LoadStep ==
  ASSUME TokenInv, GateInv, UNCHANGED role, NEW r \in Requests,
         NEW kind \in {"approve", "reject"}, NEW i \in DOMAIN incident, NEW a \in access,
         LoadIncident(r, kind, i, a)
  PROVE  GateInv'
<1> DEFINE new == At("loaded", kind, i, a.owner, 0)
<1>1. /\ i \in 1..Len(incident) /\ Len(incident) \in Nat /\ r \in Workers
      /\ IsAdmin(a.owner) /\ a.owner \in Accounts
  BY DEF GateInv, GateType, Workers, LoadIncident, Authorized, Protected, TokenInv,
         TokenType, TokensAreTrue, Truthful, IsAdmin
<1>2. /\ new \in Stages /\ new.stage = "loaded" /\ new.kind = kind
      /\ new.inc = i /\ new.by = a.owner
  BY <1>1 DEF At, Stages
<1>3. /\ worker' \in [Workers -> Stages]
      /\ \A v \in Workers : worker'[v] = IF v = r THEN new ELSE worker[v]
  BY <1>1, <1>2, WorkerIsSet DEF GateInv, LoadIncident
<1>4. GateType'
  BY <1>3 DEF GateInv, GateType, LoadIncident
<1>5. ASSUME NEW w \in Workers PROVE LoadedWell(w)' /\ ExecutesWell(w)'
  <2>1. CASE w = r
    BY <1>1, <1>2, <1>3, <2>1 DEF LoadedWell, ExecutesWell, LoadIncident, IsAdmin
  <2>2. CASE w # r
    BY <1>3, <2>2 DEF GateInv, LoadedWell, ExecutesWell, LoadIncident, IsAdmin
  <2>3. QED
    BY <2>1, <2>2
<1>6. Alone'
  BY <1>2, <1>3 DEF GateInv, Alone
<1>7. ASSUME NEW j \in 1..Len(incident)
      PROVE  (/\ \A k \in 1..Len(decisions[j]) : DecidedWell(j, k)
              /\ j \in both \/ LoadedOnce(j))'
  <2>1. (\A k \in 1..Len(decisions[j]) : DecidedWell(j, k))'
    BY <1>7 DEF GateInv, DecidedWell, LoadIncident, IsAdmin
  <2>2. CASE j # i
    <3>1. \A w \in Requests : HasLoaded(w, j)' => HasLoaded(w, j)
      BY <1>2, <1>3, <2>2 DEF HasLoaded, Workers
    <3>2. j \in both' \/ LoadedOnce(j)'
      BY <3>1, OnceKept DEF GateInv, LoadIncident
    <3>3. QED
      BY <2>1, <3>2
  <2>3. CASE j = i /\ j \notin both'
    <3>1. LoadedOnce(i) /\ \A w \in Requests : ~HasLoaded(w, i)
      BY <1>1, <2>3 DEF GateInv, LoadIncident
    <3>2. \A k \in 1..Len(decisions[i]) : decisions[i][k].kind = "auto"
      BY <3>1 DEF LoadedOnce, LoadIncident, Open
    <3>3. \A w \in Requests : HasLoaded(w, i)' => w = r
      BY <1>3, <3>1 DEF HasLoaded, Workers
    <3>4. LoadedOnce(i)'
      BY <3>2, <3>3 DEF LoadedOnce, LoadIncident
    <3>5. QED
      BY <2>1, <2>3, <3>4
  <2>4. CASE j \in both'
    BY <2>1, <2>4
  <2>5. QED
    BY <2>2, <2>3, <2>4
<1>8. QED
  BY <1>4, <1>5, <1>6, <1>7 DEF GateInv, LoadIncident

LEMMA ElementOf ==
  ASSUME NEW S, NEW s \in Seq(S), NEW i \in 1..Len(s)
  PROVE  s[i] \in S
OBVIOUS

LEMMA Appended ==
  ASSUME NEW S, NEW s \in Seq(S), NEW x \in S, NEW t, t = Append(s, x)
  PROVE  /\ t \in Seq(S) /\ Len(t) = Len(s) + 1 /\ t[Len(s) + 1] = x
         /\ \A k \in 1..Len(s) : t[k] = s[k]
OBVIOUS

LEMMA AtChanged ==
  ASSUME NEW S, NEW s \in Seq(S), NEW i \in 1..Len(s), NEW x \in S, NEW t,
         t = [s EXCEPT ![i] = x]
  PROVE  /\ t \in Seq(S) /\ Len(t) = Len(s) /\ t[i] = x
         /\ \A j \in 1..Len(s) : j # i => t[j] = s[j]
OBVIOUS

LEMMA StatusIsSet ==
  ASSUME GateType, NEW i \in 1..Len(incident), NEW status \in Statuses,
         incident' = [incident EXCEPT ![i].status = status]
  PROVE  /\ incident' \in Seq([playbook : Books, status : Statuses])
         /\ Len(incident') = Len(incident)
         /\ \A j \in 1..Len(incident) :
              /\ incident'[j].playbook = incident[j].playbook
              /\ incident'[j].status = IF j = i THEN status ELSE incident[j].status
<1>1. incident[i] \in [playbook : Books, status : Statuses]
  BY ElementOf DEF GateType
<1>2. PICK x : x = [incident[i] EXCEPT !.status = status]
  OBVIOUS
<1>3. /\ x \in [playbook : Books, status : Statuses]
      /\ x.playbook = incident[i].playbook /\ x.status = status
  BY <1>1, <1>2
<1>4. incident' = [incident EXCEPT ![i] = x]
  BY <1>2
<1>5. /\ incident' \in Seq([playbook : Books, status : Statuses])
      /\ Len(incident') = Len(incident) /\ incident'[i] = x
      /\ \A j \in 1..Len(incident) : j # i => incident'[j] = incident[j]
  BY <1>3, <1>4, AtChanged DEF GateType
<1>6. QED
  BY <1>3, <1>5

LEMMA NumberOfActions ==
  ASSUME GateType, NEW i \in 1..Len(incident)
  PROVE  incident[i].playbook.actions \in Nat
<1>1. incident[i] \in [playbook : Books, status : Statuses]
  BY ElementOf DEF GateType
<1>2. incident[i].playbook \in Books
  BY <1>1
<1>3. QED
  BY <1>2, IncidentAssumption DEF Books

LEMMA SaveStep ==
  ASSUME TokenInv, GateInv, UNCHANGED role, NEW r \in Requests, SaveDecision(r)
  PROVE  GateInv'
<1>a. PICK i : i = worker[r].inc
  OBVIOUS
<1>b. PICK kind : kind = worker[r].kind
  OBVIOUS
<1>c. PICK N : N = Len(decisions[i])
  OBVIOUS
<1>d. PICK verdict : verdict = Decision(kind, worker[r].by)
  OBVIOUS
<1>e. PICK state : state = IF kind = "approve" THEN Executing(i, N + 1) ELSE Off
  OBVIOUS
<1>f. PICK status : status = IF kind = "approve" THEN "approved" ELSE "rejected"
  OBVIOUS
<1>1. /\ r \in Workers /\ worker[r].stage = "loaded" /\ i \in 1..Len(incident)
      /\ kind \in {"approve", "reject"} /\ IsAdmin(worker[r].by)
      /\ worker[r].by \in Accounts
  BY <1>a, <1>b DEF SaveDecision, GateInv, LoadedWell, Workers, IsAdmin, TokenInv, TokenType
<1>2. /\ Len(incident) \in Nat /\ Len(decisions) = Len(incident)
      /\ decisions[i] \in Seq(Verdicts) /\ N \in Nat
  BY <1>1, <1>c DEF GateInv, GateType
<1>3. /\ verdict \in Verdicts /\ verdict.kind = kind /\ verdict.ran = 0
      /\ verdict.by = worker[r].by
  BY <1>1, <1>d DEF Decision, Verdicts
<1>4. /\ incident' = [incident EXCEPT ![i].status = status]
      /\ decisions' = [decisions EXCEPT ![i] = Append(@, verdict)]
      /\ Set(r, state)
  BY <1>a, <1>b, <1>c, <1>d, <1>e, <1>f DEF SaveDecision
<1>5. /\ decisions' \in Seq(Seq(Verdicts)) /\ Len(decisions') = Len(incident)
      /\ \A j \in 1..Len(incident) : j # i => decisions'[j] = decisions[j]
      /\ Len(decisions'[i]) = N + 1 /\ decisions'[i][N + 1] = verdict
      /\ \A k \in 1..N : decisions'[i][k] = decisions[i][k]
  <2>1. PICK ds : ds = Append(decisions[i], verdict)
    OBVIOUS
  <2>a. /\ ds \in Seq(Verdicts) /\ Len(ds) = N + 1 /\ ds[N + 1] = verdict
        /\ \A k \in 1..N : ds[k] = decisions[i][k]
    BY <1>2, <1>3, <1>c, <2>1, Appended
  <2>2. decisions' = [decisions EXCEPT ![i] = ds]
    BY <1>4, <2>1
  <2>3. /\ decisions' \in Seq(Seq(Verdicts)) /\ Len(decisions') = Len(decisions)
        /\ decisions'[i] = ds
        /\ \A j \in 1..Len(decisions) : j # i => decisions'[j] = decisions[j]
    BY <1>1, <1>2, <2>a, <2>2, AtChanged DEF GateInv, GateType
  <2>4. QED
    BY <1>2, <2>a, <2>3
<1>6. /\ incident' \in Seq([playbook : Books, status : Statuses])
      /\ Len(incident') = Len(incident)
      /\ \A j \in 1..Len(incident) :
           /\ incident'[j].playbook = incident[j].playbook
           /\ incident'[j].status = IF j = i THEN status ELSE incident[j].status
  <2>1. status \in Statuses
    BY <1>f DEF Statuses
  <2>2. incident' = [incident EXCEPT ![i].status = status]
    BY <1>4
  <2>3. QED
    BY <1>1, <2>1, <2>2, StatusIsSet DEF GateInv
<1>g. ASSUME NEW j \in 1..Len(incident), NEW k \in 1..Len(decisions[j])
      PROVE  k \in 1..Len(decisions'[j]) /\ decisions'[j][k] = decisions[j][k]
  <2>1. CASE j = i
    BY <1>2, <1>5, <1>c, <1>g, <2>1
  <2>2. CASE j # i
    <3>1. decisions'[j] = decisions[j]
      BY <1>5, <2>2
    <3>2. QED
      BY <1>g, <3>1
  <2>3. QED
    BY <2>1, <2>2
<1>7. /\ state \in Stages /\ state.stage # "loaded"
      /\ kind = "approve" =>
           /\ state.stage = "executing" /\ state.inc = i /\ state.dec = N + 1
           /\ state.next = 1
      /\ kind # "approve" => state.stage = "idle"
  BY <1>1, <1>2, <1>e, Executed, OffIsIdle
<1>8. /\ worker' \in [Workers -> Stages]
      /\ \A v \in Workers : worker'[v] = IF v = r THEN state ELSE worker[v]
  BY <1>1, <1>4, <1>7, WorkerIsSet DEF GateInv
<1>9. GateType'
  BY <1>5, <1>6, <1>8 DEF GateInv, GateType, SaveDecision
<1>10. ASSUME NEW w \in Workers PROVE LoadedWell(w)' /\ ExecutesWell(w)'
  <2>1. CASE w = r
    <3>1. LoadedWell(w)'
      BY <1>7, <1>8, <2>1 DEF LoadedWell
    <3>2. CASE kind = "approve"
      <4>1. /\ worker'[w].stage = "executing" /\ worker'[w].inc = i
            /\ worker'[w].dec = N + 1 /\ worker'[w].next = 1
        BY <1>7, <1>8, <2>1, <3>2
      <4>2. QED
        BY <1>1, <1>2, <1>3, <1>5, <1>6, <3>1, <3>2, <4>1 DEF ExecutesWell
    <3>3. CASE kind # "approve"
      BY <1>7, <1>8, <2>1, <3>1, <3>3 DEF ExecutesWell
    <3>4. QED
      BY <3>2, <3>3
  <2>2. CASE w # r
    <3>1. LoadedWell(w) /\ ExecutesWell(w) /\ worker'[w] = worker[w]
      BY <1>8, <2>2 DEF GateInv
    <3>2. worker[w].stage = "executing" => Kept(worker[w].inc, worker[w].dec)
      BY <1>g, <3>1 DEF ExecutesWell, Kept
    <3>3. QED
      BY <1>2, <1>6, <3>1, <3>2, LoadedKept, ExecutingKept
  <2>3. QED
    BY <2>1, <2>2
<1>11. Alone'
  <2>1. ASSUME NEW v \in Workers, v # r, worker[v].stage = "executing", worker[v].inc = i
        PROVE  worker[v].dec # N + 1
    <3>1. worker[v].dec \in 1..Len(decisions[i])
      BY <2>1 DEF GateInv, ExecutesWell
    <3>2. QED
      BY <1>2, <1>c, <3>1
  <2>2. QED
    BY <1>7, <1>8, <2>1 DEF GateInv, Alone
<1>12. ASSUME NEW j \in 1..Len(incident)
       PROVE  (/\ \A k \in 1..Len(decisions[j]) : DecidedWell(j, k)
               /\ j \in both \/ LoadedOnce(j))'
  <2>1. \A w \in Requests : HasLoaded(w, j)' => HasLoaded(w, j) /\ w # r
    BY <1>7, <1>8 DEF HasLoaded, Workers
  <2>2. CASE j # i
    <3>1. ASSUME NEW k \in 1..Len(decisions'[j]) PROVE DecidedWell(j, k)'
      <4>1. k \in 1..Len(decisions[j]) /\ decisions'[j] = decisions[j]
        BY <1>5, <2>2, <3>1
      <4>2. DecidedWell(j, k)
        BY <4>1 DEF GateInv
      <4>3. QED
        BY <1>6, <4>1, <4>2, DecidedKept
    <3>2. j \in both' \/ LoadedOnce(j)'
      <4>1. j \in both \/ LoadedOnce(j)
        BY DEF GateInv
      <4>2. decisions'[j] = decisions[j] /\ incident'[j].status = incident[j].status
        BY <1>5, <1>6, <2>2
      <4>3. LoadedOnce(j) => LoadedOnce(j)'
        BY <2>1, <4>2, OnceKept
      <4>4. both' = both
        BY DEF SaveDecision
      <4>5. QED
        BY <4>1, <4>3, <4>4
    <3>3. QED
      BY <3>1, <3>2
  <2>3. CASE j = i
    <3>1. ASSUME NEW k \in 1..Len(decisions'[j]) PROVE DecidedWell(j, k)'
      <4>1. CASE k \in 1..N
        <5>1. DecidedWell(j, k) /\ decisions'[j][k] = decisions[j][k]
          BY <1>c, <1>g, <2>3, <4>1 DEF GateInv
        <5>2. QED
          BY <1>6, <5>1, DecidedKept
      <4>2. CASE k = N + 1
        <5>1. incident[i].playbook.actions \in Nat
          BY <1>1, NumberOfActions DEF GateInv
        <5>2. decisions'[j][k] = verdict
          BY <1>5, <2>3, <4>2
        <5>3. QED
          BY <1>1, <1>3, <1>6, <2>3, <5>1, <5>2 DEF DecidedWell, IsAdmin
      <4>3. QED
        BY <1>2, <1>5, <2>3, <4>1, <4>2
    <3>2. ASSUME j \notin both PROVE LoadedOnce(j)'
      <4>1. LoadedOnce(i) /\ HasLoaded(r, i)
        BY <1>1, <1>a, <2>3, <3>2 DEF GateInv, HasLoaded
      <4>2. /\ \A k \in 1..N : decisions[i][k].kind = "auto"
            /\ \A w \in Requests : HasLoaded(w, i) => w = r
        BY <1>c, <4>1 DEF LoadedOnce
      <4>3. \A w \in Requests : ~HasLoaded(w, i)'
        BY <2>1, <2>3, <4>2
      <4>4. ASSUME NEW k \in 1..Len(decisions'[i]), decisions'[i][k].kind # "auto"
            PROVE  k = N + 1
        <5>1. k \in 1..N \/ k = N + 1
          BY <1>2, <1>5, <4>4
        <5>2. QED
          BY <1>5, <4>2, <4>4, <5>1
      <4>5. incident'[i].status # "pending"
        BY <1>1, <1>6, <1>f
      <4>6. QED
        BY <1>5, <2>3, <4>3, <4>4, <4>5 DEF LoadedOnce
    <3>3. QED
      BY <3>1, <3>2 DEF SaveDecision
  <2>4. QED
    BY <2>2, <2>3
<1>13. QED
  BY <1>6, <1>9, <1>10, <1>11, <1>12 DEF GateInv

\* Handlers end, and an incident may get a status that is not pending.
LEMMA EndsStep ==
  ASSUME GateInv, UNCHANGED <<role, decisions, both>>, left' \subseteq DOMAIN Playbooks,
         worker' \in [Workers -> Stages],
         \A v \in Workers : worker'[v].stage = "idle" \/ worker'[v] = worker[v],
         incident' \in Seq([playbook : Books, status : Statuses]),
         Len(incident') = Len(incident),
         \A i \in 1..Len(incident) :
           /\ incident'[i].playbook = incident[i].playbook
           /\ incident'[i].status = incident[i].status \/ incident'[i].status # "pending"
  PROVE  GateInv'
<1>1. Len(incident) \in Nat /\ GateType'
  BY DEF GateInv, GateType
<1>2. ASSUME NEW w \in Workers PROVE LoadedWell(w)' /\ ExecutesWell(w)'
  <2>1. CASE worker'[w].stage = "idle"
    BY <2>1 DEF LoadedWell, ExecutesWell
  <2>2. CASE worker'[w] = worker[w]
    <3>1. LoadedWell(w) /\ ExecutesWell(w)
      BY DEF GateInv
    <3>2. worker[w].stage = "executing" => Kept(worker[w].inc, worker[w].dec)
      BY <3>1 DEF ExecutesWell, Kept
    <3>3. QED
      BY <1>1, <2>2, <3>1, <3>2, LoadedKept, ExecutingKept
  <2>3. QED
    BY <2>1, <2>2
<1>3. Alone'
  BY DEF GateInv, Alone
<1>4. ASSUME NEW i \in 1..Len(incident)
      PROVE  (/\ \A k \in 1..Len(decisions[i]) : DecidedWell(i, k)
              /\ i \in both \/ LoadedOnce(i))'
  <2>1. /\ \A k \in 1..Len(decisions[i]) : DecidedWell(i, k)
        /\ i \in both \/ LoadedOnce(i)
    BY DEF GateInv
  <2>2. \A k \in 1..Len(decisions[i]) : DecidedWell(i, k)'
    BY <2>1, DecidedKept
  <2>3. \A w \in Requests : HasLoaded(w, i)' => HasLoaded(w, i)
    BY DEF HasLoaded, Workers
  <2>4. LoadedOnce(i) => LoadedOnce(i)'
    BY <2>3, OnceKept
  <2>5. QED
    BY <2>1, <2>2, <2>4
<1>5. QED
  BY <1>1, <1>2, <1>3, <1>4 DEF GateInv

LEMMA SaveFailsStep ==
  ASSUME GateInv, UNCHANGED role, NEW r \in Requests, SaveFails(r)
  PROVE  GateInv'
<1>1. /\ worker' \in [Workers -> Stages]
      /\ \A v \in Workers : worker'[v] = IF v = r THEN Off ELSE worker[v]
  BY OffIsIdle, WorkerIsSet DEF GateInv, SaveFails, Workers
<1>2. \A v \in Workers : worker'[v].stage = "idle" \/ worker'[v] = worker[v]
  BY <1>1, OffIsIdle
<1>3. /\ UNCHANGED <<decisions, both, incident>> /\ left' \subseteq DOMAIN Playbooks
      /\ incident \in Seq([playbook : Books, status : Statuses])
  BY DEF SaveFails, GateInv, GateType
<1>4. QED
  BY <1>1, <1>2, <1>3, EndsStep

LEMMA FinishStep ==
  ASSUME GateInv, UNCHANGED role, NEW w \in Workers, FinishExecution(w)
  PROVE  GateInv'
<1>1. /\ worker' \in [Workers -> Stages]
      /\ \A v \in Workers : worker'[v] = IF v = w THEN Off ELSE worker[v]
  BY OffIsIdle, WorkerIsSet DEF GateInv, FinishExecution
<1>2. \A v \in Workers : worker'[v].stage = "idle" \/ worker'[v] = worker[v]
  BY <1>1, OffIsIdle
<1>3. /\ UNCHANGED <<decisions, both>> /\ left' \subseteq DOMAIN Playbooks
      /\ incident \in Seq([playbook : Books, status : Statuses])
  BY DEF FinishExecution, GateInv, GateType
<1>4. CASE UNCHANGED incident
  BY <1>1, <1>2, <1>3, <1>4, EndsStep
<1>5. ASSUME NEW i, i = worker[w].inc, NEW status \in {"executed", "failed"},
             incident' = [incident EXCEPT ![i].status = status]
      PROVE  GateInv'
  <2>1. i \in 1..Len(incident) /\ status \in Statuses /\ status # "pending"
    BY <1>5 DEF GateInv, ExecutesWell, FinishExecution, Statuses
  <2>2. /\ incident' \in Seq([playbook : Books, status : Statuses])
        /\ Len(incident') = Len(incident)
        /\ \A j \in 1..Len(incident) :
             /\ incident'[j].playbook = incident[j].playbook
             /\ incident'[j].status = IF j = i THEN status ELSE incident[j].status
    BY <1>5, <2>1, StatusIsSet DEF GateInv
  <2>3. \A j \in 1..Len(incident) :
          /\ incident'[j].playbook = incident[j].playbook
          /\ incident'[j].status = incident[j].status \/ incident'[j].status # "pending"
    BY <2>1, <2>2
  <2>4. QED
    BY <1>1, <1>2, <1>3, <2>2, <2>3, EndsStep
<1>6. PICK i, status : /\ i = worker[w].inc
                       /\ status = IF worker[w].ok THEN "executed" ELSE "failed"
  OBVIOUS
<1>7. \/ UNCHANGED incident
      \/ incident' = [incident EXCEPT ![i].status = status]
  BY <1>6 DEF FinishExecution
<1>8. status \in {"executed", "failed"}
  BY <1>6
<1>9. QED
  BY <1>4, <1>5, <1>6, <1>7, <1>8

LEMMA IncidentsRestartStep ==
  ASSUME GateInv, UNCHANGED role, IncidentsRestart
  PROVE  GateInv'
<1>1. /\ worker' \in [Workers -> Stages]
      /\ \A v \in Workers : worker'[v].stage = "idle"
  BY OffIsIdle DEF IncidentsRestart
<1>2. /\ UNCHANGED <<decisions, both, incident>> /\ left' \subseteq DOMAIN Playbooks
      /\ incident \in Seq([playbook : Books, status : Statuses])
  <2>1. UNCHANGED <<decisions, both, incident>> /\ left' = {}
    BY Zenon DEF IncidentsRestart
  <2>2. incident \in Seq([playbook : Books, status : Statuses])
    BY Zenon DEF GateInv, GateType
  <2>3. QED
    BY <2>1, <2>2
<1>3. QED
  BY <1>1, <1>2, EndsStep

\* One more action is run for decision d on incident i, recorded or failed.
OneMoreRun(w, i, d) ==
  /\ UNCHANGED <<role, incident, left, both>>
  /\ worker' \in [Workers -> Stages]
  /\ \A v \in Workers : v # w => worker'[v] = worker[v]
  /\ worker'[w].stage = "executing" /\ worker'[w].inc = i /\ worker'[w].dec = d
  /\ worker'[w].next = worker[w].next + 1
  /\ decisions' \in Seq(Seq(Verdicts)) /\ Len(decisions') = Len(decisions)
  /\ \A j \in 1..Len(incident) : j # i => decisions'[j] = decisions[j]
  /\ Len(decisions'[i]) = Len(decisions[i])
  /\ \A k \in 1..Len(decisions[i]) : k # d => decisions'[i][k] = decisions[i][k]
  /\ decisions'[i][d].kind = decisions[i][d].kind
  /\ decisions'[i][d].by = decisions[i][d].by
  /\ decisions'[i][d].ran \in {decisions[i][d].ran, decisions[i][d].ran + 1}

LEMMA RunsStep ==
  ASSUME GateInv, NEW w \in Workers, worker[w].stage = "executing", MoreActions(w),
         NEW i, i = worker[w].inc, NEW d, d = worker[w].dec, OneMoreRun(w, i, d)
  PROVE  GateInv'
<1>a. role' = role /\ incident' = incident /\ left' = left /\ both' = both
  BY Zenon DEF OneMoreRun
<1>b. /\ worker' \in [Workers -> Stages]
      /\ \A v \in Workers : v # w => worker'[v] = worker[v]
  BY Zenon DEF OneMoreRun
<1>c. /\ worker'[w].stage = "executing" /\ worker'[w].inc = i /\ worker'[w].dec = d
      /\ worker'[w].next = worker[w].next + 1
  BY Zenon DEF OneMoreRun
<1>d. /\ decisions' \in Seq(Seq(Verdicts)) /\ Len(decisions') = Len(decisions)
      /\ \A j \in 1..Len(incident) : j # i => decisions'[j] = decisions[j]
  BY Zenon DEF OneMoreRun
<1>e. /\ Len(decisions'[i]) = Len(decisions[i])
      /\ \A k \in 1..Len(decisions[i]) : k # d => decisions'[i][k] = decisions[i][k]
  BY Zenon DEF OneMoreRun
<1>f. /\ decisions'[i][d].kind = decisions[i][d].kind
      /\ decisions'[i][d].by = decisions[i][d].by
  BY Zenon DEF OneMoreRun
<1>g. decisions'[i][d].ran \in {decisions[i][d].ran, decisions[i][d].ran + 1}
  BY Zenon DEF OneMoreRun
<1>1. /\ i \in 1..Len(incident) /\ d \in 1..Len(decisions[i])
      /\ decisions[i][d].kind # "reject" /\ decisions[i][d].ran < worker[w].next
      /\ worker[w].next <= incident[i].playbook.actions
  BY DEF GateInv, ExecutesWell, MoreActions
<1>2. /\ Len(incident) \in Nat /\ worker[w].next \in Nat /\ decisions[i][d].ran \in Nat
      /\ incident[i].playbook.actions \in Nat /\ Len(decisions) = Len(incident)
  <2>1. worker[w] \in Stages /\ decisions[i] \in Seq(Verdicts)
    BY <1>1 DEF GateInv, GateType
  <2>2. decisions[i][d] \in Verdicts
    BY <1>1, <2>1
  <2>3. QED
    <3>1. worker[w].next \in Nat
      BY <2>1 DEF Stages
    <3>2. decisions[i][d].ran \in Nat
      BY <2>2 DEF Verdicts
    <3>3. incident[i].playbook.actions \in Nat
      BY <1>1, NumberOfActions DEF GateInv
    <3>4. Len(incident) \in Nat /\ Len(decisions) = Len(incident)
      BY DEF GateInv, GateType
    <3>5. QED
      BY <3>1, <3>2, <3>3, <3>4
<1>3. /\ decisions'[i][d].ran < worker'[w].next
      /\ decisions'[i][d].ran <= incident[i].playbook.actions
  <2> DEFINE a == decisions[i][d].ran
             n == worker[w].next
             p == incident[i].playbook.actions
             q == decisions'[i][d].ran
  <2>1. a \in Nat /\ n \in Nat /\ p \in Nat /\ q \in {a, a + 1} /\ a < n /\ n <= p
    BY Zenon, <1>1, <1>2, <1>g
  <2>2. worker'[w].next = n + 1
    BY Zenon, <1>c
  <2> HIDE DEF a, n, p, q
  <2>3. q < n + 1 /\ q <= p
    BY <2>1
  <2>4. QED
    BY Zenon, <2>2, <2>3 DEF p, q
<1>4. GateType'
  BY <1>2, <1>a, <1>b, <1>d DEF GateInv, GateType
<1>5. ASSUME NEW v \in Workers, v # w, worker[v].stage = "executing"
      PROVE  Kept(worker[v].inc, worker[v].dec)
  <2>1. PICK j, e : j = worker[v].inc /\ e = worker[v].dec
    OBVIOUS
  <2>2. /\ j \in 1..Len(incident) /\ e \in 1..Len(decisions[j])
        /\ ~(j = i /\ e = d)
    <3>1. ExecutesWell(v) /\ Alone
      BY DEF GateInv
    <3>2. j \in 1..Len(incident) /\ e \in 1..Len(decisions[j])
      BY <1>5, <2>1, <3>1 DEF ExecutesWell
    <3>3. ~(j = i /\ e = d)
      BY <1>5, <2>1, <3>1 DEF Alone
    <3>4. QED
      BY <3>2, <3>3
  <2>3. e \in 1..Len(decisions'[j]) /\ decisions'[j][e] = decisions[j][e]
    <3>1. CASE j = i
      BY <1>e, <2>2, <3>1
    <3>2. CASE j # i
      <4>1. decisions'[j] = decisions[j]
        BY <1>d, <2>2, <3>2
      <4>2. QED
        BY <2>2, <4>1
    <3>3. QED
      BY <3>1, <3>2
  <2>4. QED
    BY <2>1, <2>3 DEF Kept
<1>6. ASSUME NEW v \in Workers PROVE LoadedWell(v)' /\ ExecutesWell(v)'
  <2>1. CASE v = w
    <3>1. LoadedWell(v)'
      BY <1>c, <2>1 DEF LoadedWell
    <3>2. ExecutesWell(v)'
      <4>1. /\ i \in 1..Len(incident') /\ d \in 1..Len(decisions'[i])
            /\ decisions'[i][d].kind # "reject"
        BY <1>1, <1>a, <1>e, <1>f
      <4>2. QED
        BY <1>3, <1>c, <2>1, <4>1 DEF ExecutesWell
    <3>3. QED
      BY <3>1, <3>2
  <2>2. CASE v # w
    <3>1. LoadedWell(v) /\ ExecutesWell(v) /\ worker'[v] = worker[v]
      BY <1>b, <2>2 DEF GateInv
    <3>2. worker[v].stage = "executing" => Kept(worker[v].inc, worker[v].dec)
      BY <1>5, <2>2
    <3>3. QED
      BY <1>2, <1>a, <3>1, <3>2, LoadedKept, ExecutingKept
  <2>3. QED
    BY <2>1, <2>2
<1>7. Alone'
  <2>1. Alone
    BY DEF GateInv
  <2>2. \A v \in Workers : /\ worker'[v].stage = worker[v].stage
                           /\ worker'[v].inc = worker[v].inc
                           /\ worker'[v].dec = worker[v].dec
    BY <1>b, <1>c
  <2>3. QED
    BY ONLY <2>1, <2>2 DEF Alone
<1>8. ASSUME NEW j \in 1..Len(incident)
      PROVE  (/\ \A k \in 1..Len(decisions[j]) : DecidedWell(j, k)
              /\ j \in both \/ LoadedOnce(j))'
  <2>1. /\ \A k \in 1..Len(decisions[j]) : DecidedWell(j, k)
        /\ j \in both \/ LoadedOnce(j)
    BY DEF GateInv
  <2>2. \A v \in Requests : HasLoaded(v, j)' <=> HasLoaded(v, j)
    <3>1. \A v \in Workers : v # w => (HasLoaded(v, j)' <=> HasLoaded(v, j))
      BY <1>b DEF HasLoaded
    <3>2. ~HasLoaded(w, j)' /\ ~HasLoaded(w, j)
      BY <1>c DEF HasLoaded
    <3>3. QED
      BY <3>1, <3>2 DEF Workers
  <2>3. CASE j # i
    <3>1. decisions'[j] = decisions[j] /\ incident'[j] = incident[j]
      BY <1>a, <1>d, <2>3
    <3>2. \A k \in 1..Len(decisions'[j]) : DecidedWell(j, k)'
      <4>1. ASSUME NEW k \in 1..Len(decisions'[j]) PROVE DecidedWell(j, k)'
        <5>1. DecidedWell(j, k) /\ decisions'[j][k] = decisions[j][k]
          BY Zenon, <2>1, <3>1, <4>1
        <5>2. QED
          BY Zenon, <1>a, <3>1, <5>1, DecidedKept
      <4>2. QED
        BY Zenon, <4>1
    <3>3. LoadedOnce(j) => LoadedOnce(j)'
      BY Zenon, <1>a, <2>2, <3>1, OnceKept
    <3>4. QED
      BY Zenon, <1>a, <2>1, <3>2, <3>3
  <2>4. CASE j = i
    <3>1. ASSUME NEW k \in 1..Len(decisions[i]) PROVE decisions'[i][k].kind = decisions[i][k].kind
      BY <1>e, <1>f
    <3>2. ASSUME NEW k \in 1..Len(decisions'[j]) PROVE DecidedWell(j, k)'
      <4>1. CASE k = d
        <5>1. DecidedWell(i, d)
          BY Zenon, <1>1, <2>1, <2>4
        <5>2. /\ decisions'[i][d].ran <= incident'[i].playbook.actions
              /\ decisions'[i][d].kind # "reject"
              /\ decisions'[i][d].kind # "auto" => IsAdmin(decisions[i][d].by)'
              /\ decisions'[i][d].kind = "auto" => incident'[i].playbook.mode = "auto"
          BY Zenon, <1>1, <1>3, <1>a, <1>f, <5>1 DEF DecidedWell, IsAdmin
        <5>3. QED
          BY Zenon, <2>4, <4>1, <5>2 DEF DecidedWell
      <4>2. CASE k # d
        <5>1. DecidedWell(i, k) /\ decisions'[i][k] = decisions[i][k]
          BY Zenon, <1>e, <2>1, <2>4, <3>2, <4>2
        <5>2. QED
          BY Zenon, <1>a, <2>4, <5>1, DecidedKept
      <4>3. QED
        BY <4>1, <4>2
    <3>3. ASSUME LoadedOnce(j) PROVE LoadedOnce(j)'
      <4>1. \A k \in 1..Len(decisions[j]) : decisions[j][k].kind # "auto" =>
              k = Len(decisions[j]) /\ incident[j].status # "pending"
        BY <3>3 DEF LoadedOnce
      <4>2. \A v \in Requests : HasLoaded(v, j) =>
              /\ \A k \in 1..Len(decisions[j]) : decisions[j][k].kind = "auto"
              /\ \A u \in Requests : HasLoaded(u, j) => u = v
        BY <3>3 DEF LoadedOnce
      <4>3. QED
        <5>1. /\ Len(decisions'[j]) = Len(decisions[j]) /\ incident'[j] = incident[j]
              /\ \A k \in 1..Len(decisions[j]) : decisions'[j][k].kind = decisions[j][k].kind
          BY Zenon, <1>a, <1>e, <2>4, <3>1
        <5>2. \A k \in 1..Len(decisions'[j]) : decisions'[j][k].kind # "auto" =>
                k = Len(decisions'[j]) /\ incident'[j].status # "pending"
          BY Zenon, <4>1, <5>1
        <5>3. \A v \in Requests : HasLoaded(v, j)' =>
                /\ \A k \in 1..Len(decisions'[j]) : decisions'[j][k].kind = "auto"
                /\ \A u \in Requests : HasLoaded(u, j)' => u = v
          BY Zenon, <2>2, <4>2, <5>1
        <5>4. QED
          BY Zenon, <5>2, <5>3 DEF LoadedOnce
    <3>4. QED
      BY Zenon, <1>a, <2>1, <3>2, <3>3
  <2>5. QED
    BY <2>3, <2>4
<1>9. QED
  BY Zenon, <1>4, <1>6, <1>7, <1>8, <1>a DEF GateInv

\* One more action is recorded for a decision.
LEMMA RanIsSet ==
  ASSUME GateType, NEW i \in 1..Len(decisions), NEW d \in 1..Len(decisions[i]),
         decisions' = [decisions EXCEPT ![i][d].ran = @ + 1]
  PROVE  /\ decisions' \in Seq(Seq(Verdicts)) /\ Len(decisions') = Len(decisions)
         /\ \A j \in 1..Len(decisions) : j # i => decisions'[j] = decisions[j]
         /\ Len(decisions'[i]) = Len(decisions[i])
         /\ \A k \in 1..Len(decisions[i]) : k # d => decisions'[i][k] = decisions[i][k]
         /\ decisions'[i][d].kind = decisions[i][d].kind
         /\ decisions'[i][d].by = decisions[i][d].by
         /\ decisions'[i][d].ran = decisions[i][d].ran + 1
<1>1. decisions \in Seq(Seq(Verdicts)) /\ decisions[i] \in Seq(Verdicts)
  BY ElementOf DEF GateType
<1>2. decisions[i][d] \in Verdicts
  BY <1>1, ElementOf
<1>3. PICK n : n = decisions[i][d].ran + 1
  OBVIOUS
<1>4. PICK x : x = [decisions[i][d] EXCEPT !.ran = n]
  OBVIOUS
<1>5. /\ x \in Verdicts /\ x.kind = decisions[i][d].kind /\ x.by = decisions[i][d].by
      /\ x.ran = n
  <2>1. n \in Nat
    BY <1>2, <1>3 DEF Verdicts
  <2>2. PICK v \in Verdicts : v = decisions[i][d]
    BY <1>2
  <2>3. x = [v EXCEPT !.ran = n]
    BY <1>4, <2>2
  <2>4. x \in Verdicts /\ x.kind = v.kind /\ x.by = v.by /\ x.ran = n
    BY <2>1, <2>2, <2>3 DEF Verdicts
  <2>5. QED
    BY <2>2, <2>4
<1>6. PICK ds : ds = [decisions[i] EXCEPT ![d] = x]
  OBVIOUS
<1>7. /\ ds \in Seq(Verdicts) /\ Len(ds) = Len(decisions[i]) /\ ds[d] = x
      /\ \A k \in 1..Len(decisions[i]) : k # d => ds[k] = decisions[i][k]
  BY <1>1, <1>5, <1>6, AtChanged
<1>8. decisions' = [decisions EXCEPT ![i] = ds]
  BY <1>3, <1>4, <1>6
<1>9. /\ decisions' \in Seq(Seq(Verdicts)) /\ Len(decisions') = Len(decisions)
      /\ decisions'[i] = ds
      /\ \A j \in 1..Len(decisions) : j # i => decisions'[j] = decisions[j]
  BY ONLY <1>1, <1>7, <1>8, AtChanged, i \in 1..Len(decisions)
<1>10. QED
  BY <1>3, <1>5, <1>7, <1>9

LEMMA RunActionStep ==
  ASSUME GateInv, UNCHANGED role, NEW w \in Workers, RunAction(w)
  PROVE  GateInv'
<1>1. PICK i, d : i = worker[w].inc /\ d = worker[w].dec
  OBVIOUS
<1>2. /\ worker[w].stage = "executing" /\ MoreActions(w) /\ worker[w] \in Stages
      /\ UNCHANGED <<incident, left, both>>
  BY DEF RunAction, GateInv, GateType
<1>3. /\ i \in 1..Len(incident) /\ d \in 1..Len(decisions[i])
      /\ Len(decisions) = Len(incident) /\ decisions \in Seq(Seq(Verdicts))
  BY <1>1, <1>2 DEF GateInv, GateType, ExecutesWell
<1>4. PICK state : /\ Set(w, state)
                   /\ \/ state = [worker[w] EXCEPT !.next = @ + 1]
                      \/ state = [worker[w] EXCEPT !.next = @ + 1, !.ok = FALSE]
  BY DEF RunAction, AfterFailure
<1>5. /\ state \in Stages /\ state.stage = "executing" /\ state.inc = i
      /\ state.dec = d /\ state.next = worker[w].next + 1
  <2>1. PICK s \in Stages : s = worker[w]
    BY <1>2
  <2>2. s.next \in Nat
    BY DEF Stages
  <2>3. PICK n \in Nat : n = s.next + 1
    BY <2>2
  <2>4. state = [s EXCEPT !.next = n] \/ state = [s EXCEPT !.next = n, !.ok = FALSE]
    BY <1>4, <2>1, <2>3
  <2>5. /\ state \in Stages /\ state.stage = s.stage /\ state.inc = s.inc
        /\ state.dec = s.dec /\ state.next = n
    BY <2>3, <2>4 DEF Stages
  <2>6. QED
    BY <1>1, <1>2, <2>1, <2>3, <2>5
<1>6. /\ worker' \in [Workers -> Stages]
      /\ \A v \in Workers : worker'[v] = IF v = w THEN state ELSE worker[v]
  BY <1>4, <1>5, WorkerIsSet DEF GateInv
<1>7. \/ UNCHANGED decisions
      \/ decisions' = [decisions EXCEPT ![i][d].ran = @ + 1]
  BY <1>1 DEF RunAction
<1>8. /\ decisions' \in Seq(Seq(Verdicts)) /\ Len(decisions') = Len(decisions)
      /\ \A j \in 1..Len(incident) : j # i => decisions'[j] = decisions[j]
      /\ Len(decisions'[i]) = Len(decisions[i])
      /\ \A k \in 1..Len(decisions[i]) : k # d => decisions'[i][k] = decisions[i][k]
      /\ decisions'[i][d].kind = decisions[i][d].kind
      /\ decisions'[i][d].by = decisions[i][d].by
      /\ decisions'[i][d].ran \in {decisions[i][d].ran, decisions[i][d].ran + 1}
  <2>1. CASE UNCHANGED decisions
    BY <1>3, <2>1
  <2>2. CASE decisions' = [decisions EXCEPT ![i][d].ran = @ + 1]
    <3>1. GateType /\ i \in 1..Len(decisions) /\ d \in 1..Len(decisions[i])
      BY <1>3 DEF GateInv
    <3>2. /\ decisions' \in Seq(Seq(Verdicts)) /\ Len(decisions') = Len(decisions)
          /\ \A j \in 1..Len(decisions) : j # i => decisions'[j] = decisions[j]
          /\ Len(decisions'[i]) = Len(decisions[i])
          /\ \A k \in 1..Len(decisions[i]) : k # d => decisions'[i][k] = decisions[i][k]
          /\ decisions'[i][d].kind = decisions[i][d].kind
          /\ decisions'[i][d].by = decisions[i][d].by
          /\ decisions'[i][d].ran = decisions[i][d].ran + 1
      BY ONLY <2>2, <3>1, RanIsSet
    <3>3. QED
      BY <1>3, <3>2
  <2>3. QED
    BY <1>7, <2>1, <2>2
<1>9. QED
  <2>1. OneMoreRun(w, i, d)
    BY <1>2, <1>5, <1>6, <1>8 DEF OneMoreRun
  <2>2. QED
    BY <1>1, <1>2, <2>1, RunsStep

LEMMA IncidentsStep ==
  ASSUME TokenInv, GateInv, UNCHANGED tokenVars, IncidentsNext
  PROVE  GateInv'
<1>1. UNCHANGED role
  BY DEF tokenVars
<1>2. ASSUME NEW a \in Alerts, Alert(a) PROVE GateInv'
  BY <1>1, <1>2, GateStays DEF Alert
<1>3. ASSUME NEW k \in left, CreateIncident(k) PROVE GateInv'
  BY <1>1, <1>3, CreateStep
<1>4. CASE CreateFails
  BY <1>1, <1>4, GateStays DEF CreateFails
<1>5. ASSUME NEW r \in Requests, SaveDecision(r) PROVE GateInv'
  BY <1>1, <1>5, SaveStep
<1>6. ASSUME NEW r \in Requests, SaveFails(r) PROVE GateInv'
  BY <1>1, <1>6, SaveFailsStep
<1>7. ASSUME NEW r \in Requests, NEW kind \in {"approve", "reject"},
             NEW i \in DOMAIN incident, NEW a \in access, LoadIncident(r, kind, i, a)
      PROVE  GateInv'
  BY <1>1, <1>7, LoadStep
<1>8. ASSUME NEW w \in Workers, RunAction(w) PROVE GateInv'
  BY <1>1, <1>8, RunActionStep
<1>9. ASSUME NEW w \in Workers, FinishExecution(w) PROVE GateInv'
  BY <1>1, <1>9, FinishStep
<1>10. QED
  BY <1>2, <1>3, <1>4, <1>5, <1>6, <1>7, <1>8, <1>9 DEF IncidentsNext

\* Whoever has a role keeps it.
RolesStay == \A u \in DOMAIN role : u \in DOMAIN role' /\ role'[u] = role[u]

LEMMA RolesAreKept ==
  ASSUME TokenInv, TokensMove
  PROVE  RolesStay
<1>1. ASSUME NEW u \in Accounts, CreateUser(u) PROVE RolesStay
  BY <1>1 DEF CreateUser, With, TokenInv, Registrations, RolesStay
<1>2. CASE UNCHANGED role
  BY <1>2 DEF RolesStay
<1>3. QED
  BY <1>1, <1>2 DEF TokensMove, TokensNext, CountUsers, Login, CheckRefresh, Rotate,
                    Logout, TokensTick

LEMMA GateInductive == TokenInv /\ GateInv /\ [Next]_vars => GateInv'
<1>1. SUFFICES ASSUME TokenInv, GateInv, [Next]_vars PROVE GateInv'
  OBVIOUS
<1>2. CASE TokensMove
  BY <1>1, <1>2, RolesAreKept, GateRoles DEF TokensMove, RolesStay
<1>3. CASE LogsOut
  BY <1>1, <1>3, GateRoles DEF LogsOut, Logout
<1>4. CASE Serves(IncidentsNext)
  BY <1>1, <1>4, IncidentsStep DEF Serves
<1>5. CASE Restarts
  BY <1>1, <1>5, IncidentsRestartStep DEF Restarts, Restart, TokensRestart
<1>6. CASE LocksMove
  BY <1>1, <1>6, GateRoles DEF LocksMove, accessVars, tokenVars
<1>7. CASE UNCHANGED vars
  BY <1>1, <1>7, GateRoles DEF vars, accessVars, tokenVars
<1>8. QED
  BY <1>1, <1>2, <1>3, <1>4, <1>5, <1>6, <1>7 DEF Next

(* No action of a playbook that asks for approval is recorded before an    *)
(* administrator approved the incident, nor more than once per approval,   *)
(* and an incident has two decisions only if two requests had loaded it    *)
(* while it was pending: for any playbooks, alerts, requests and restarts  *)
(* (services/soar.service.js 62-139).                                      *)
THEOREM GateIsHuman == Spec => []HumanGate
<1>1. Init => GateInv
  BY GateBegin DEF Init
<1>2. GateInv => HumanGate
  <2>1. SUFFICES ASSUME GateInv, NEW i \in DOMAIN incident, NEW k \in DOMAIN decisions[i]
                 PROVE  LET d == decisions[i][k]
                        IN /\ d.ran <= incident[i].playbook.actions
                           /\ d.ran > 0 /\ incident[i].playbook.mode = "approval" =>
                                d.kind = "approve"
                           /\ d.kind # "auto" => role[d.by] = "admin"
                           /\ d.kind # "auto" /\ k < Len(decisions[i]) => i \in both
    BY DEF HumanGate
  <2>2. /\ i \in 1..Len(incident) /\ decisions[i] \in Seq(Verdicts)
        /\ k \in 1..Len(decisions[i])
    BY <2>1 DEF GateInv, GateType
  <2>3. DecidedWell(i, k) /\ (i \in both \/ LoadedOnce(i))
    BY <2>1, <2>2 DEF GateInv
  <2>4. decisions[i][k] \in Verdicts
    BY <2>2
  <2>5. decisions[i][k].kind \in {"auto", "approve", "reject"}
    BY <2>4 DEF Verdicts
  <2>6. decisions[i][k].kind # "auto" /\ k < Len(decisions[i]) => i \in both
    BY <2>2, <2>3 DEF LoadedOnce
  <2>7. QED
    BY <2>3, <2>5, <2>6 DEF DecidedWell, IsAdmin
<1>3. QED
  BY <1>1, <1>2, TokenInvHolds, GateInductive, PTL DEF Spec

-----------------------------------------------------------------------------
(* Locks *)

ItemRoles == {"finding", "confirmation"}

LockType ==
  /\ published \subseteq Findings
  /\ bridging \subseteq [finding : published, role : ItemRoles]
  /\ rows \in [Events -> Nat]
  /\ store \in [Events -> {"absent", "active", "restored"}]
  /\ applying \subseteq published

Wanted(e) == \E f \in published : f.event = e /\ f.locks /\ f.loud

\* Whatever posts a lock was asked for.
Founded ==
  /\ \A f \in applying : f.locks
  /\ \A item \in bridging : item.role = "confirmation" => item.finding.locks
  /\ \A e \in Events : rows[e] > 0 \/ e \in copied \/ store[e] = "active" => Wanted(e)

\* Nothing of an event that rests after a restore is under way.
Rests(e) == store[e] # "active" /\ ~UnderWay(e)

\* A finding that asks for a lock is on its way to registry and store, or there.
Pursued(f) ==
  /\ f \in applying \/ f.event \in registry
  /\ f.loud => \/ f \in applying \/ Item(f, "confirmation") \in bridging
               \/ rows[f.event] > 0 \/ store[f.event] = "active"

LockInv ==
  /\ LockType /\ Founded
  /\ \A e \in quiet : e \in Events /\ Rests(e)
  /\ \A f \in published : f.locks /\ f.event \notin upset => Pursued(f)

LEMMA LocksBegin == LocksInit => LockInv
BY DEF LocksInit, LockInv, LockType, Founded, Rests, UnderWay

LEMMA LocksUntouched == LockInv /\ UNCHANGED lockVars => LockInv'
BY DEF lockVars, LockInv, LockType, Founded, Rests, UnderWay, Wanted, Pursued

LEMMA PublishStep ==
  ASSUME LockInv, NEW f \in Findings, Publish(f)
  PROVE  LockInv'
<1>1. LockType'
  BY DEF LockInv, LockType, Publish, Item, ItemRoles
<1>2. Founded'
  BY DEF LockInv, LockType, Founded, Publish, Item, Wanted
<1>3. ASSUME NEW e \in quiet' PROVE e \in Events /\ Rests(e)'
  <2>1. e \in quiet /\ e \in Events /\ Rests(e)
    BY <1>3 DEF Publish, LockInv
  <2>2. ~f.locks \/ f.event # e
    BY <1>3 DEF Publish
  <2>3. ASSUME NEW item \in bridging', item.finding.event = e PROVE ~PostsLock(item)
    BY <2>1, <2>2, <2>3 DEF Publish, Rests, UnderWay, PostsLock, Item
  <2>4. ASSUME NEW g \in applying' PROVE g.event # e
    BY <2>1, <2>2 DEF Publish, Rests, UnderWay
  <2>5. QED
    BY <2>1, <2>3, <2>4 DEF Publish, Rests, UnderWay
<1>4. ASSUME NEW g \in published', g.locks, g.event \notin upset' PROVE Pursued(g)'
  BY <1>4 DEF LockInv, Publish, Pursued
<1>5. QED
  BY <1>1, <1>2, <1>3, <1>4 DEF LockInv

LEMMA BridgeStep ==
  ASSUME LockInv, NEW item \in bridging, BridgeQueues(item)
  PROVE  LockInv'
<1> DEFINE ev == item.finding.event
<1>1. item.finding \in published /\ ev \in Events /\ item.role \in ItemRoles
  BY DEF LockInv, LockType, Events
<1>2. \A e \in Events : rows'[e] = IF PostsLock(item) /\ e = ev THEN rows[e] + 1 ELSE rows[e]
  BY <1>1 DEF BridgeQueues, LockInv, LockType
<1>3. LockType'
  BY <1>1 DEF LockInv, LockType, BridgeQueues
<1>4. PostsLock(item) => Wanted(ev)
  BY <1>1 DEF LockInv, Founded, PostsLock, Wanted
<1>5. Founded'
  BY <1>2, <1>4 DEF LockInv, Founded, BridgeQueues, Wanted
<1>6. ASSUME NEW e \in quiet' PROVE e \in Events /\ Rests(e)'
  <2>1. e \in Events /\ Rests(e)
    BY <1>6 DEF BridgeQueues, LockInv
  <2>2. rows'[e] = rows[e]
    BY <1>2, <2>1 DEF Rests, UnderWay
  <2>3. QED
    BY <2>1, <2>2 DEF BridgeQueues, Rests, UnderWay
<1>7. ASSUME NEW g \in published', g.locks, g.event \notin upset' PROVE Pursued(g)'
  <2>1. Pursued(g) /\ g.event \in Events
    BY <1>7 DEF LockInv, LockType, BridgeQueues, Events
  <2>2. CASE item = Item(g, "confirmation") /\ g.loud
    <3>1. PostsLock(item) /\ ev = g.event
      BY <2>2 DEF PostsLock, Item
    <3>2. rows'[g.event] > 0
      BY <1>2, <2>1, <3>1 DEF LockInv, LockType
    <3>3. QED
      BY <2>1, <3>2 DEF Pursued, BridgeQueues
  <2>3. CASE ~(item = Item(g, "confirmation") /\ g.loud)
    <3>1. rows[g.event] > 0 => rows'[g.event] > 0
      BY <1>2, <2>1 DEF LockInv, LockType
    <3>2. QED
      BY <2>1, <2>3, <3>1 DEF Pursued, BridgeQueues
  <2>4. QED
    BY <2>2, <2>3
<1>8. QED
  BY <1>3, <1>5, <1>6, <1>7 DEF LockInv

LEMMA BridgeFailsStep ==
  ASSUME LockInv, NEW item \in bridging, BridgeFails(item)
  PROVE  LockInv'
<1>1. LockType' /\ Founded'
  BY DEF LockInv, LockType, Founded, BridgeFails, Wanted
<1>2. ASSUME NEW e \in quiet' PROVE e \in Events /\ Rests(e)'
  BY <1>2 DEF LockInv, BridgeFails, Rests, UnderWay
<1>3. ASSUME NEW g \in published', g.locks, g.event \notin upset' PROVE Pursued(g)'
  <2>1. Pursued(g)
    BY <1>3 DEF LockInv, BridgeFails
  <2>2. item = Item(g, "confirmation") /\ g.loud => PostsLock(item) /\ item.finding = g
    BY DEF PostsLock, Item
  <2>3. ~(item = Item(g, "confirmation") /\ g.loud)
    BY <1>3, <2>2 DEF BridgeFails
  <2>4. QED
    BY <2>1, <2>3 DEF Pursued, BridgeFails
<1>4. QED
  BY <1>1, <1>2, <1>3 DEF LockInv

LEMMA ApplyStep ==
  ASSUME LockInv, NEW f \in Findings, Apply(f)
  PROVE  LockInv'
<1>1. f \in published /\ f.locks /\ f \in applying
  BY DEF Apply, LockInv, LockType, Founded
<1>2. LockType'
  BY <1>1 DEF LockInv, LockType, Apply, Item, ItemRoles
<1>3. Founded'
  BY <1>1 DEF LockInv, Founded, Apply, Item, Wanted
<1>4. ASSUME NEW e \in quiet' PROVE e \in Events /\ Rests(e)'
  <2>1. e \in Events /\ Rests(e) /\ f.event # e
    BY <1>1, <1>4 DEF Apply, LockInv, Rests, UnderWay
  <2>2. QED
    BY <2>1 DEF Apply, Rests, UnderWay, Item
<1>5. ASSUME NEW g \in published', g.locks, g.event \notin upset' PROVE Pursued(g)'
  BY <1>5 DEF LockInv, Apply, Pursued
<1>6. QED
  BY <1>2, <1>3, <1>4, <1>5 DEF LockInv

LEMMA DeliverStep ==
  ASSUME LockInv, NEW e \in Events, Deliver(e)
  PROVE  LockInv'
<1>1. /\ rows[e] > 0 /\ rows' \in [Events -> Nat]
      /\ \A x \in Events : rows'[x] <= rows[x] /\ (x # e => rows'[x] = rows[x])
      /\ \A x \in Events : store'[x] = IF x = e THEN "active" ELSE store[x]
      /\ copied' \in {copied, copied \cup {e}}
  BY DEF Deliver, RowGoes, LockInv, LockType
<1>2. LockType'
  BY <1>1 DEF LockInv, LockType, Deliver
<1>3. Founded'
  BY <1>1 DEF LockInv, LockType, Founded, Deliver, Wanted
<1>4. ASSUME NEW x \in quiet' PROVE x \in Events /\ Rests(x)'
  <2>1. x \in Events /\ Rests(x) /\ x # e
    BY <1>1, <1>4 DEF Deliver, LockInv, Rests, UnderWay
  <2>2. QED
    BY <1>1, <2>1 DEF Deliver, Rests, UnderWay
<1>5. ASSUME NEW g \in published', g.locks, g.event \notin upset' PROVE Pursued(g)'
  <2>1. Pursued(g) /\ g.event \in Events
    BY <1>5 DEF LockInv, LockType, Deliver, Events
  <2>2. QED
    BY <1>1, <2>1 DEF Pursued, Deliver
<1>6. QED
  BY <1>2, <1>3, <1>4, <1>5 DEF LockInv

LEMMA GiveUpStep ==
  ASSUME LockInv, NEW e \in Events, GiveUp(e)
  PROVE  LockInv'
<1>1. /\ rows[e] > 0 /\ rows' \in [Events -> Nat]
      /\ \A x \in Events : rows'[x] <= rows[x] /\ (x # e => rows'[x] = rows[x])
      /\ copied' \in {copied, copied \cup {e}}
  <2>1. /\ rows[e] > 0 /\ rows' = [rows EXCEPT ![e] = @ - 1]
        /\ copied' \in {copied, copied \cup {e}}
    BY DEF GiveUp, RowGoes
  <2>2. rows \in [Events -> Nat]
    BY DEF LockInv, LockType
  <2>3. QED
    BY <2>1, <2>2
<1>2. LockType'
  BY <1>1 DEF LockInv, LockType, GiveUp
<1>3. Founded'
  BY <1>1 DEF LockInv, LockType, Founded, GiveUp, Wanted
<1>4. ASSUME NEW x \in quiet' PROVE x \in Events /\ Rests(x)'
  <2>1. x \in Events /\ Rests(x) /\ x # e
    BY <1>1, <1>4 DEF GiveUp, LockInv, Rests, UnderWay
  <2>2. QED
    BY <1>1, <2>1 DEF GiveUp, Rests, UnderWay
<1>5. ASSUME NEW g \in published', g.locks, g.event \notin upset' PROVE Pursued(g)'
  <2>1. Pursued(g) /\ g.event \in Events /\ g.event # e
    BY <1>5 DEF LockInv, LockType, GiveUp, Events
  <2>2. QED
    BY <1>1, <2>1 DEF Pursued, GiveUp
<1>6. QED
  BY <1>2, <1>3, <1>4, <1>5 DEF LockInv

\* A copy is of a lock that was asked for, and nothing rests that it is of.
LEMMA CopyStep ==
  ASSUME LockInv, NEW e \in Events, DeliverCopy(e) \/ CopiesEnd(e)
  PROVE  LockInv'
<1>1. /\ e \in copied /\ copied' \subseteq copied
      /\ \A x \in Events : x # e => (x \in copied' <=> x \in copied)
      /\ \A x \in Events : x # e \/ store'[x] # "active" => store'[x] = store[x]
      /\ store' \in [Events -> {"absent", "active", "restored"}]
  <2>1. e \in copied /\ copied' \in {copied, copied \ {e}}
        /\ store' \in {store, [store EXCEPT ![e] = "active"]}
    BY DEF DeliverCopy, CopiesEnd
  <2>2. store \in [Events -> {"absent", "active", "restored"}]
    BY DEF LockInv, LockType
  <2>3. copied' \subseteq copied /\ \A x : x # e => (x \in copied' <=> x \in copied)
    BY ONLY <2>1
  <2>4. /\ \A x \in Events : x # e \/ store'[x] # "active" => store'[x] = store[x]
        /\ store' \in [Events -> {"absent", "active", "restored"}]
    <3>1. store' = store \/ store' = [store EXCEPT ![e] = "active"]
      BY <2>1
    <3>2. CASE store' = store
      BY <2>2, <3>2
    <3>3. CASE store' = [store EXCEPT ![e] = "active"]
      BY <2>2, <3>3
    <3>4. QED
      BY ONLY <3>1, <3>2, <3>3
  <2>5. QED
    BY <2>1, <2>3, <2>4
<1>2. UNCHANGED <<published, applying, bridging, registry, rows, quiet, upset>>
  BY DEF DeliverCopy, CopiesEnd
<1>3. LockType'
  BY <1>1, <1>2 DEF LockInv, LockType
<1>4. Founded'
  BY <1>1, <1>2 DEF LockInv, Founded, Wanted
<1>5. ASSUME NEW x \in quiet' PROVE x \in Events /\ Rests(x)'
  <2>1. x \in Events /\ Rests(x) /\ x # e
    BY <1>1, <1>2, <1>5 DEF LockInv, Rests, UnderWay
  <2>2. QED
    BY <1>1, <1>2, <2>1 DEF Rests, UnderWay
<1>6. ASSUME NEW g \in published', g.locks, g.event \notin upset' PROVE Pursued(g)'
  <2>1. Pursued(g) /\ g.event \in Events
    BY <1>2, <1>6 DEF LockInv, LockType, Events
  <2>2. QED
    BY <1>1, <1>2, <2>1 DEF Pursued
<1>7. QED
  BY <1>3, <1>4, <1>5, <1>6 DEF LockInv

LEMMA RestoreStep ==
  ASSUME LockInv, NEW e \in Events, Restore(e)
  PROVE  LockInv'
<1>1. \A x \in Events : store'[x] = IF x = e THEN "restored" ELSE store[x]
  BY DEF Restore, LockInv, LockType
<1>2. LockType'
  BY DEF LockInv, LockType, Restore
<1>3. Founded'
  BY <1>1 DEF LockInv, Founded, Restore, Wanted
<1>4. ASSUME NEW x \in quiet' PROVE x \in Events /\ Rests(x)'
  <2>1. x \in Events /\ ~UnderWay(x) /\ (x # e => store[x] # "active")
    BY <1>4 DEF Restore, LockInv, Rests
  <2>2. QED
    BY <1>1, <2>1 DEF Restore, Rests, UnderWay
<1>5. ASSUME NEW g \in published', g.locks, g.event \notin upset' PROVE Pursued(g)'
  <2>1. Pursued(g) /\ g.event \in Events /\ g.event # e
    BY <1>5 DEF LockInv, LockType, Restore, Events
  <2>2. QED
    BY <1>1, <2>1 DEF Pursued, Restore
<1>6. QED
  BY <1>2, <1>3, <1>4, <1>5 DEF LockInv

LEMMA OutagesStep ==
  ASSUME LockInv, AgentRestarts \/ BackendRestarts
  PROVE  LockInv'
<1>1. LockType' /\ Founded'
  BY DEF LockInv, LockType, Founded, AgentRestarts, BackendRestarts, Wanted
<1>2. ASSUME NEW x \in quiet' PROVE x \in Events /\ Rests(x)'
  BY <1>2 DEF LockInv, Rests, UnderWay, AgentRestarts, BackendRestarts
<1>3. ASSUME NEW g \in published', g.locks, g.event \notin upset' PROVE Pursued(g)'
  BY <1>3 DEF LockInv, LockType, AgentRestarts, BackendRestarts, Events
<1>4. QED
  BY <1>1, <1>2, <1>3 DEF LockInv

LEMMA LocksInductive == LockInv /\ [Next]_vars => LockInv'
<1>1. SUFFICES ASSUME LockInv, [Next]_vars PROVE LockInv'
  OBVIOUS
<1>2. CASE LocksNext
  BY <1>1, <1>2, PublishStep, BridgeStep, BridgeFailsStep, ApplyStep, DeliverStep,
     GiveUpStep, CopyStep, RestoreStep, OutagesStep DEF LocksNext
<1>3. CASE UNCHANGED lockVars
  BY <1>1, <1>3, LocksUntouched
<1>4. QED
  BY <1>1, <1>2, <1>3 DEF Next, TokensMove, LogsOut, Serves, Restarts, LocksMove, vars

(* Dashboard and agent agree about a lock once nothing of it is under way, *)
(* no row and no copy of a row, and a lock restored in that state stays    *)
(* restored until the event is found again: for any findings, failing      *)
(* inserts, deliveries and late repeats of them, restores and restarts     *)
(* (pseudo_lock_agent.py 81-119, backend_bridge.py 160-201, alert_queue.py *)
(* 144-179, agent.routes.js 289-302).                                      *)
THEOREM LocksDoAgree == Spec => []LocksAgree
<1>1. Init => LockInv
  BY LocksBegin DEF Init
<1>2. LockInv => LocksAgree
  <2>1. SUFFICES ASSUME LockInv, NEW e \in Events \ upset, ~UnderWay(e)
                 PROVE  /\ store[e] = "active" <=> Wanted(e)
                        /\ store[e] = "active" => e \in registry
    BY DEF LocksAgree, LockInv, Rests, Wanted
  <2>2. ASSUME NEW f \in published, f.event = e, f.locks, f.loud
        PROVE  store[e] = "active" /\ e \in registry
    <3>1. Pursued(f)
      BY <2>1, <2>2 DEF LockInv
    <3>2. PostsLock(Item(f, "confirmation")) /\ Item(f, "confirmation").finding = f
      BY <2>2 DEF PostsLock, Item
    <3>3. /\ f \notin applying /\ Item(f, "confirmation") \notin bridging
          /\ ~(rows[e] > 0)
      BY <2>1, <2>2, <3>2 DEF UnderWay
    <3>4. QED
      BY <2>2, <3>1, <3>3 DEF Pursued
  <2>3. store[e] = "active" => Wanted(e)
    BY <2>1 DEF LockInv, Founded
  <2>4. QED
    BY <2>2, <2>3 DEF Wanted
<1>3. QED
  BY <1>1, <1>2, LocksInductive, PTL DEF Spec
===============================================================================
