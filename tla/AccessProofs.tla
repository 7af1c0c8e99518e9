---------------------------- MODULE AccessProofs -----------------------------
(***************************************************************************)
(* Accounts that were confirmed stay, as far as no start has met a file    *)
(* that was cut short, and tokens stay out in the run of the program in    *)
(* which they were revoked, for any number of users, tokens, handlers and  *)
(* restarts.  For the tokens the invariant says what the map of revoked    *)
(* tokens still holds: the entry of a token revoked in this run is there,  *)
(* with no expiry time or with the token's, or the token has expired       *)
(* (Remembered); a handler that has seen a token carries one that was      *)
(* issued, and that is out if it was when the request came (AtHand).       *)
(*                                                                         *)
(* The rate limit holds for every size of the bucket, every rate, and any  *)
(* requests at any times.  RateBound compares two requests and says        *)
(* nothing of the bucket, so that it is not inductive: Paid is, which says *)
(* that what is left in the bucket and what got through since any request  *)
(* is together no more than a full bucket and what has flowed in since.    *)
(***************************************************************************)
EXTENDS Access, FiniteSetTheorems, TLAPS

UsersOK ==
    /\ made \in 0..MaxAccounts
    /\ account \in [Emails -> Account \cup {None}]
    /\ file \in [Emails -> Account \cup {None}]
    /\ confirmed \in [Emails -> Account \cup {None}]
    /\ torn \in BOOLEAN /\ lost \subseteq Emails

UserInv == UsersOK /\ ConfirmedAccount

TokensOK ==
    /\ now \in Nat /\ now > 0
    /\ tokens \subseteq Token /\ IsFiniteSet(tokens)
    /\ revoked \in [Jtis -> Nat \cup {None}]
    /\ starts \in Nat \ {0} /\ barred \in [Jtis -> 0..starts]

\* The tokens that were revoked in this run of the program.
Out == {j \in Jtis : barred[j] = starts}

\* Token ids count up.
Numbered ==
    /\ \A t \in tokens : t.jti <= Cardinality(tokens)
    /\ \A j \in Out : j <= Cardinality(tokens)
    /\ \A t, u \in tokens : t.jti = u.jti => t = u

Remembered ==
    \A t \in tokens : t.jti \in Out =>
        revoked[t.jti] = 0 \/ revoked[t.jti] = t.exp \/ t.exp < now

Seen == [at : {"verify", "in"}, token : tokens, barred : Nat]

AtHand ==
    /\ thread \in [Handlers -> {Idle} \cup Seen]
    /\ \A h \in Handlers : thread[h] \in Seen /\ thread[h].barred = starts =>
          thread[h].token.jti \in Out

TokenInv == TokensOK /\ Numbered /\ Remembered /\ AtHand /\ RevokedStaysOut

-----------------------------------------------------------------------------
(* Accounts *)

LEMMA InitUserInv == Init => UserInv
<1> SUFFICES ASSUME Init PROVE UserInv
  OBVIOUS
<1>1. MaxAccounts \in Nat
  BY AccessAssumption
<1>2. /\ account = [e \in Emails |-> None] /\ file = account /\ confirmed = account
      /\ made = 0 /\ torn = FALSE /\ lost = {}
  BY DEF Init
<1>3. UsersOK
  <2>1. made \in 0..MaxAccounts /\ account \in [Emails -> Account \cup {None}]
    BY <1>1, <1>2
  <2>2. torn \in BOOLEAN /\ lost \subseteq Emails
    BY <1>2
  <2> QED BY <1>2, <2>1, <2>2 DEF UsersOK
<1>4. \A e \in Emails : confirmed[e] = None
  BY <1>2
<1> QED BY <1>3, <1>4 DEF UserInv, ConfirmedAccount

LEMMA RegisterUserInv ==
    ASSUME UserInv, NEW e \in Emails, NEW p \in Passwords, PostRegister(e, p)
    PROVE  UserInv'
<1> DEFINE a == [id |-> made + 1, password |-> p]
<1>1. /\ account[e] = None /\ made < MaxAccounts /\ made' = made + 1
      /\ account' = [account EXCEPT ![e] = a]
      /\ SaveLocked(e)
  BY DEF PostRegister, RegisterUser
<1>2. a \in Account /\ made' \in 0..MaxAccounts
  BY <1>1, AccessAssumption DEF UserInv, UsersOK, Account, UserIds
<1> HIDE DEF a
<1>3. /\ account' \in [Emails -> Account \cup {None}]
      /\ account'[e] = a
      /\ \A d \in Emails \ {e} : account'[d] = account[d]
  BY <1>1, <1>2 DEF UserInv, UsersOK
\* Nobody was told of an account that is not there, or it was lost.
<1>4. e \in lost \/ confirmed[e] = None
  BY <1>1 DEF UserInv, ConfirmedAccount
<1>5. ASSUME Confirm(e)
      PROVE  /\ confirmed' \in [Emails -> Account \cup {None}] /\ lost' \subseteq Emails
             /\ \A d \in Emails \ lost' : confirmed'[d] # None => account'[d] = confirmed'[d]
  <2>1. confirmed' = [confirmed EXCEPT ![e] = a] /\ lost' = lost \ {e}
    BY <1>3, <1>5 DEF Confirm
  <2>2. ASSUME NEW d \in Emails \ lost', confirmed'[d] # None
        PROVE  account'[d] = confirmed'[d]
    <3>1. CASE d = e
      BY <1>3, <2>1, <3>1 DEF UserInv, UsersOK
    <3>2. CASE d # e
      BY <1>3, <2>1, <2>2, <3>2 DEF UserInv, UsersOK, ConfirmedAccount
    <3> QED BY <3>1, <3>2
  <2> QED BY <1>2, <2>1, <2>2 DEF UserInv, UsersOK
<1>6. CASE file' = account' /\ torn' = FALSE /\ Confirm(e)
  BY <1>2, <1>3, <1>5, <1>6 DEF UserInv, UsersOK, ConfirmedAccount
<1>7. CASE file' = [d \in Emails |-> None] /\ torn' = TRUE /\ Confirm(e)
  BY <1>2, <1>3, <1>5, <1>7 DEF UserInv, UsersOK, ConfirmedAccount
<1>8. CASE UNCHANGED <<file, torn, confirmed, lost>>
  <2>1. UsersOK'
    BY <1>2, <1>3, <1>8 DEF UserInv, UsersOK
  <2>2. ASSUME NEW d \in Emails \ lost, confirmed[d] # None
        PROVE  account'[d] = confirmed[d] /\ (~torn => file[d] = confirmed[d])
    BY <1>3, <1>4, <2>2 DEF UserInv, ConfirmedAccount
  <2> QED BY <1>8, <2>1, <2>2 DEF UserInv, ConfirmedAccount
<1> QED BY <1>1, <1>6, <1>7, <1>8 DEF SaveLocked

\* The memory is the file again, and a file cut short loses what was confirmed.
LEMMA RestartUserInv == ASSUME UserInv, Restart PROVE UserInv'
<1>1. /\ account' = file /\ UNCHANGED <<made, file, torn, confirmed>>
      /\ lost' = IF torn THEN {e \in Emails : confirmed[e] # None} ELSE lost
  BY DEF Restart
<1> QED BY <1>1 DEF UserInv, UsersOK, ConfirmedAccount

LEMMA SameUsers == ASSUME UserInv, UNCHANGED userVars PROVE UserInv'
BY DEF UserInv, UsersOK, ConfirmedAccount, userVars

LEMMA NextUserInv == UserInv /\ [Next]_vars => UserInv'
<1> SUFFICES ASSUME UserInv, [Next]_vars PROVE UserInv'
  OBVIOUS
<1>1. ASSUME NEW e \in Emails, NEW p \in Passwords, PostRegister(e, p) PROVE UserInv'
  BY <1>1, RegisterUserInv
<1>2. ASSUME NEW e \in Emails, NEW p \in Passwords, PostLogin(e, p) PROVE UserInv'
  BY <1>2, SameUsers DEF PostLogin
<1>3. ASSUME NEW h \in Handlers, NEW t \in tokens, CheckExpiry(h, t) PROVE UserInv'
  BY <1>3, SameUsers DEF CheckExpiry
<1>4. ASSUME NEW h \in Handlers, IsRevoked(h) \/ Serve(h) PROVE UserInv'
  BY <1>4, SameUsers DEF IsRevoked, Serve
<1>5. ASSUME NEW t \in tokens, RevokeToken(t) PROVE UserInv'
  BY <1>5, SameUsers DEF RevokeToken
<1>6. ASSUME NEW k \in HeaderKeys, KeyRequest(k) PROVE UserInv'
  BY <1>6, SameUsers DEF KeyRequest
<1>7. CASE Clock
  BY <1>7, SameUsers DEF Clock
<1>8. CASE Restart
  BY <1>8, RestartUserInv
<1>9. CASE UNCHANGED vars
  BY <1>9, SameUsers DEF vars
<1> QED BY <1>1, <1>2, <1>3, <1>4, <1>5, <1>6, <1>7, <1>8, <1>9 DEF Next

\* A confirmed account is there for good, with the exceptions of ConfirmedAccount
\* (UserStore.hpp:72-78, 103, 144-147).
THEOREM AccountsStay == Spec => []ConfirmedAccount
<1>1. UserInv => ConfirmedAccount
  BY DEF UserInv
<1> QED BY InitUserInv, NextUserInv, <1>1, PTL DEF Spec

-----------------------------------------------------------------------------
(* Tokens *)

LEMMA IdleIsNoSight == Idle \notin Seen
BY DEF Idle, Seen

LEMMA InitTokenInv == Init => TokenInv
<1> SUFFICES ASSUME Init PROVE TokenInv
  OBVIOUS
<1>1. TokensOK
  BY FS_EmptySet DEF Init, RateInit, TokensOK
<1>2. Numbered /\ Remembered
  BY DEF Init, Numbered, Remembered, Out
<1>3. AtHand
  BY IdleIsNoSight DEF Init, AtHand
<1>4. RevokedStaysOut
  BY DEF Init, Idle, RevokedStaysOut
<1> QED BY <1>1, <1>2, <1>3, <1>4 DEF TokenInv

\* A new token has a number of its own.
LEMMA LoginTokenInv ==
    ASSUME TokenInv, UserInv, NEW e \in Emails, NEW p \in Passwords, PostLogin(e, p)
    PROVE  TokenInv'
<1> DEFINE t == CreateToken(account[e])
           n == Cardinality(tokens)
<1>1. /\ account[e] # None /\ n < MaxTokens
      /\ tokens' = tokens \cup {t}
      /\ UNCHANGED <<now, revoked, thread, barred, starts>> /\ Out' = Out
  BY DEF PostLogin, FindByEmail, rateVars, Out
<1>2. n \in Nat
  BY FS_CardinalityType DEF TokenInv, TokensOK
<1>3. account[e] \in Account
  BY <1>1 DEF UserInv, UsersOK
<1>4. t.jti = n + 1 /\ t \in Token
  <2>1. account[e].id \in UserIds
    BY <1>3 DEF Account
  <2>2. now + Expiry \in Nat /\ n + 1 \in Jtis
    BY <1>1, <1>2, AccessAssumption DEF TokenInv, TokensOK, Jtis
  <2> QED BY <2>1, <2>2 DEF CreateToken, Token
<1>5. \A u \in tokens : u.jti \in Nat /\ u.jti <= n
  BY <1>2 DEF TokenInv, TokensOK, Numbered, Token, Jtis
<1>6. t \notin tokens
  BY <1>2, <1>4, <1>5
<1>7. IsFiniteSet(tokens') /\ Cardinality(tokens') = n + 1
  BY <1>1, <1>6, FS_AddElement DEF TokenInv, TokensOK
<1>8. t.jti \notin Out
  BY <1>2, <1>4 DEF TokenInv, TokensOK, Numbered, Jtis, Out
<1> HIDE DEF t
<1>9. TokensOK'
  BY <1>1, <1>4, <1>7 DEF TokenInv, TokensOK
<1>10. Numbered'
  <2>1. \A j \in Out : j \in Nat /\ j <= n
    BY DEF TokenInv, TokensOK, Numbered, Jtis, Out
  <2>2. \A u \in tokens' : u.jti <= n + 1
    BY <1>1, <1>2, <1>4, <1>5
  <2>3. \A u, v \in tokens' : u.jti = v.jti => u = v
    BY <1>1, <1>2, <1>4, <1>5 DEF TokenInv, Numbered
  <2>4. \A j \in Out : j <= n + 1
    BY <1>2, <2>1
  <2> QED BY <1>1, <1>7, <2>2, <2>3, <2>4 DEF Numbered
<1>11. Remembered'
  BY <1>1, <1>8 DEF TokenInv, Remembered
<1>12. AtHand'
  <2>1. Seen \subseteq Seen'
    BY <1>1 DEF Seen
  <2>2. thread \in [Handlers -> {Idle} \cup Seen]
    BY DEF TokenInv, AtHand
  <2>3. thread \in [Handlers -> {Idle} \cup Seen']
    BY <2>1, <2>2
  <2>4. ASSUME NEW h \in Handlers, thread[h] \in Seen', thread[h].barred = starts
        PROVE  thread[h].token.jti \in Out
    BY <2>2, <2>4, IdleIsNoSight DEF TokenInv, AtHand, Seen, Idle
  <2> QED BY <1>1, <2>3, <2>4 DEF AtHand
<1>13. RevokedStaysOut'
  BY <1>1 DEF TokenInv, RevokedStaysOut
<1> QED BY <1>9, <1>10, <1>11, <1>12, <1>13 DEF TokenInv

LEMMA CheckTokenInv ==
    ASSUME TokenInv, NEW h \in Handlers, NEW t \in tokens, CheckExpiry(h, t)
    PROVE  TokenInv'
<1> DEFINE r == [at |-> "verify", token |-> t, barred |-> barred[t.jti]]
<1>1. thread' = [thread EXCEPT ![h] = r] /\ UNCHANGED <<now, tokens, revoked, barred, starts>>
      /\ Out' = Out
  BY DEF CheckExpiry, rateVars, Out
<1>2. /\ r \in Seen /\ r.at = "verify" /\ r.token = t
      /\ r.barred = starts => t.jti \in Out
  BY AccessAssumption DEF Seen, TokenInv, TokensOK, Token, Out
<1> HIDE DEF r
<1>3. thread' \in [Handlers -> {Idle} \cup Seen] /\ thread'[h] = r
      /\ \A g \in Handlers \ {h} : thread'[g] = thread[g]
  BY <1>1, <1>2 DEF TokenInv, AtHand
<1>4. TokensOK' /\ Numbered' /\ Remembered'
  BY <1>1 DEF TokenInv, TokensOK, Numbered, Remembered
<1>5. AtHand'
  <2>1. Seen' = Seen
    BY <1>1 DEF Seen
  <2>2. ASSUME NEW g \in Handlers, thread'[g] \in Seen, thread'[g].barred = starts
        PROVE  thread'[g].token.jti \in Out
    <3>1. CASE g = h
      BY <1>2, <1>3, <2>2, <3>1
    <3>2. CASE g # h
      BY <1>3, <2>2, <3>2 DEF TokenInv, AtHand
    <3> QED BY <3>1, <3>2
  <2> QED BY <1>1, <1>3, <2>1, <2>2 DEF AtHand
<1>6. RevokedStaysOut'
  BY <1>1, <1>2, <1>3 DEF TokenInv, RevokedStaysOut
<1> QED BY <1>4, <1>5, <1>6 DEF TokenInv

\* The map forgets only tokens that have expired.
LEMMA VerifyTokenInv ==
    ASSUME TokenInv, NEW h \in Handlers, IsRevoked(h)
    PROVE  TokenInv'
<1> DEFINE r == [thread[h] EXCEPT !.at = "in"]
           gone == Pruned[thread[h].token.jti] = None
<1>1. /\ thread[h].at = "verify" /\ revoked' = Pruned
      /\ thread' = [thread EXCEPT ![h] = IF ~gone THEN Idle ELSE r]
      /\ UNCHANGED <<now, tokens, barred, starts>> /\ Out' = Out
  BY DEF IsRevoked, rateVars, Out
<1>2. thread[h] \in Seen
  BY <1>1 DEF TokenInv, AtHand, Idle
<1>3. r \in Seen /\ r.at = "in" /\ r.token = thread[h].token /\ r.barred = thread[h].barred
  BY <1>2 DEF Seen
<1>4. thread[h].token \in tokens /\ thread[h].token \in Token
  BY <1>2 DEF Seen, TokenInv, TokensOK
<1>5. TokensOK' /\ Numbered'
  <2>1. Pruned \in [Jtis -> Nat \cup {None}]
    BY DEF TokenInv, TokensOK, Pruned
  <2> QED BY <1>1, <2>1 DEF TokenInv, TokensOK, Numbered
<1>6. \A t \in tokens : t.jti \in Out =>
          Pruned[t.jti] = 0 \/ Pruned[t.jti] = t.exp \/ t.exp < now
  <2> SUFFICES ASSUME NEW t \in tokens, t.jti \in Out
               PROVE  Pruned[t.jti] = 0 \/ Pruned[t.jti] = t.exp \/ t.exp < now
    OBVIOUS
  <2>1. t.jti \in Jtis /\ t.exp \in Nat /\ now \in Nat
    BY DEF TokenInv, TokensOK, Token
  <2>2. revoked[t.jti] = 0 \/ revoked[t.jti] = t.exp \/ t.exp < now
    BY DEF TokenInv, Remembered
  <2>3. revoked[t.jti] = 0 => Pruned[t.jti] = 0
    BY <2>1 DEF Pruned
  <2>4. revoked[t.jti] = t.exp => Pruned[t.jti] = t.exp \/ t.exp < now
    BY <2>1 DEF Pruned
  <2> QED BY <2>2, <2>3, <2>4
<1>7. Remembered'
  BY <1>1, <1>6 DEF Remembered
<1>8. thread' \in [Handlers -> {Idle} \cup Seen]
      /\ (~gone => thread'[h] = Idle) /\ (gone => thread'[h] = r)
      /\ \A g \in Handlers \ {h} : thread'[g] = thread[g]
  <2> HIDE DEF gone, r
  <2> QED BY <1>1, <1>3 DEF TokenInv, AtHand
<1>9. AtHand'
  <2>1. Seen' = Seen
    BY <1>1 DEF Seen
  <2>2. ASSUME NEW g \in Handlers, thread'[g] \in Seen, thread'[g].barred = starts
        PROVE  thread'[g].token.jti \in Out
    <3>1. CASE g = h
      BY <1>2, <1>3, <1>8, <2>2, <3>1, IdleIsNoSight DEF TokenInv, AtHand
    <3>2. CASE g # h
      BY <1>8, <2>2, <3>2 DEF TokenInv, AtHand
    <3> QED BY <3>1, <3>2
  <2> QED BY <1>1, <1>8, <2>1, <2>2 DEF AtHand
<1>10. RevokedStaysOut'
  <2> SUFFICES ASSUME NEW g \in Handlers, thread'[g].at = "in", thread'[g].barred = starts
               PROVE  thread'[g].token.exp < now
    BY <1>1 DEF RevokedStaysOut
  <2>1. CASE g = h
    <3>1. gone /\ thread'[h] = r
      BY <1>8, <2>1 DEF Idle
    <3>2. thread[h].token.jti \in Out
      BY <1>2, <1>3, <2>1, <3>1 DEF TokenInv, AtHand
    <3>3. thread[h].token.exp \in Nat
      BY <1>4 DEF Token
    <3>4. None # 0 /\ None # thread[h].token.exp
      BY <3>3, AccessAssumption
    <3> QED BY <1>3, <1>4, <1>6, <2>1, <3>1, <3>2, <3>4
  <2>2. CASE g # h
    BY <1>8, <2>2 DEF TokenInv, RevokedStaysOut
  <2> QED BY <2>1, <2>2
<1> QED BY <1>5, <1>7, <1>9, <1>10 DEF TokenInv

LEMMA ServeTokenInv ==
    ASSUME TokenInv, NEW h \in Handlers, Serve(h)
    PROVE  TokenInv'
<1>1. thread' = [thread EXCEPT ![h] = Idle] /\ UNCHANGED <<now, tokens, revoked, barred, starts>>
      /\ Out' = Out
  BY DEF Serve, rateVars, Out
<1>2. thread' \in [Handlers -> {Idle} \cup Seen] /\ thread'[h] = Idle
      /\ \A g \in Handlers \ {h} : thread'[g] = thread[g]
  BY <1>1 DEF TokenInv, AtHand
<1>3. TokensOK' /\ Numbered' /\ Remembered'
  BY <1>1 DEF TokenInv, TokensOK, Numbered, Remembered
<1>4. AtHand'
  <2>1. Seen' = Seen
    BY <1>1 DEF Seen
  <2>2. \A g \in Handlers : thread'[g] \in Seen => g # h
    BY <1>2, IdleIsNoSight
  <2> QED BY <1>1, <1>2, <2>1, <2>2 DEF TokenInv, AtHand
<1>5. RevokedStaysOut'
  BY <1>1, <1>2 DEF TokenInv, RevokedStaysOut, Idle
<1> QED BY <1>3, <1>4, <1>5 DEF TokenInv

LEMMA RevokeTokenInv ==
    ASSUME TokenInv, NEW t \in tokens, RevokeToken(t)
    PROVE  TokenInv'
<1>1. PICK exp \in {0, t.exp} : revoked' = [revoked EXCEPT ![t.jti] = exp]
  BY DEF RevokeToken
<1>2. barred' = [barred EXCEPT ![t.jti] = starts] /\ UNCHANGED <<now, tokens, thread, starts>>
  BY DEF RevokeToken, rateVars
<1>3. t.jti \in Jtis /\ exp \in Nat
  BY DEF TokenInv, TokensOK, Token
<1>4. TokensOK' /\ Out' = Out \cup {t.jti}
  BY <1>1, <1>2, <1>3 DEF TokenInv, TokensOK, Out
<1>5. Numbered'
  BY <1>2, <1>4 DEF TokenInv, Numbered
<1>6. Remembered'
  <2>1. ASSUME NEW u \in tokens, u.jti \in Out'
        PROVE  revoked'[u.jti] = 0 \/ revoked'[u.jti] = u.exp \/ u.exp < now
    <3>1. CASE u.jti = t.jti
      <4>1. u = t
        BY <3>1 DEF TokenInv, Numbered
      <4> QED BY <1>1, <1>3, <4>1 DEF TokenInv, TokensOK
    <3>2. CASE u.jti # t.jti
      <4>1. u.jti \in Out /\ revoked'[u.jti] = revoked[u.jti]
        BY <1>1, <1>4, <2>1, <3>2 DEF TokenInv, TokensOK
      <4> QED BY <4>1 DEF TokenInv, Remembered
    <3> QED BY <3>1, <3>2
  <2> QED BY <1>2, <2>1 DEF Remembered
<1>7. AtHand'
  <2>1. Seen' = Seen
    BY <1>2 DEF Seen
  <2> QED BY <1>2, <1>4, <2>1 DEF TokenInv, AtHand
<1>8. RevokedStaysOut'
  BY <1>2 DEF TokenInv, RevokedStaysOut
<1> QED BY <1>4, <1>5, <1>6, <1>7, <1>8 DEF TokenInv

\* Time passes, and a token that had expired has expired.
LEMMA ClockTokenInv ==
    ASSUME TokenInv, now' \in Nat, now' >= now, UNCHANGED <<tokenVars, starts>>
    PROVE  TokenInv'
<1>1. /\ UNCHANGED <<tokens, revoked, thread, barred, starts>> /\ Out' = Out
      /\ now \in Nat /\ now > 0
  BY DEF tokenVars, TokenInv, TokensOK, Out
<1>2. TokensOK' /\ Numbered'
  BY <1>1 DEF TokenInv, TokensOK, Numbered
<1>3. \A t \in tokens : t.exp \in Nat /\ (t.exp < now => t.exp < now')
  BY <1>1 DEF TokenInv, TokensOK, Token
<1>4. Remembered'
  BY <1>1, <1>3 DEF TokenInv, Remembered
<1>5. AtHand'
  <2>1. Seen' = Seen
    BY <1>1 DEF Seen
  <2> QED BY <1>1, <2>1 DEF TokenInv, AtHand
<1>6. RevokedStaysOut'
  <2> SUFFICES ASSUME NEW h \in Handlers, thread[h].at = "in", thread[h].barred = starts
               PROVE  thread[h].token.exp < now'
    BY <1>1 DEF RevokedStaysOut
  <2>1. thread[h].token \in tokens
    BY DEF TokenInv, AtHand, Seen, Idle
  <2> QED BY <1>3, <2>1 DEF TokenInv, RevokedStaysOut
<1> QED BY <1>2, <1>4, <1>5, <1>6 DEF TokenInv

\* The entries are gone, and so is every token that was revoked in this run.
LEMMA RestartTokenInv == ASSUME TokenInv, Restart PROVE TokenInv'
<1>1. /\ revoked' = [j \in Jtis |-> None] /\ starts' = starts + 1
      /\ thread' = [h \in Handlers |-> Idle] /\ UNCHANGED <<now, tokens, barred>>
  BY DEF Restart
<1>2. TokensOK' /\ Out' = {}
  <2>1. starts \in Nat /\ \A j \in Jtis : barred[j] \in 0..starts
    BY DEF TokenInv, TokensOK
  <2>2. \A j \in Jtis : barred[j] \in 0..(starts + 1) /\ barred[j] # starts + 1
    BY <2>1
  <2> QED BY <1>1, <2>1, <2>2 DEF TokenInv, TokensOK, Out
<1>3. Numbered' /\ Remembered'
  BY <1>1, <1>2 DEF TokenInv, Numbered, Remembered
<1>4. AtHand'
  <2>1. Seen' = Seen
    BY <1>1 DEF Seen
  <2> QED BY <1>1, <2>1, IdleIsNoSight DEF AtHand
<1>5. RevokedStaysOut'
  BY <1>1 DEF RevokedStaysOut, Idle
<1> QED BY <1>2, <1>3, <1>4, <1>5 DEF TokenInv

LEMMA NextTokenInv == UserInv /\ TokenInv /\ [Next]_vars => TokenInv'
<1> SUFFICES ASSUME UserInv, TokenInv, [Next]_vars PROVE TokenInv'
  OBVIOUS
<1>0. now \in Nat
  BY DEF TokenInv, TokensOK
<1>1. ASSUME NEW e \in Emails, NEW p \in Passwords, PostRegister(e, p) PROVE TokenInv'
  BY <1>0, <1>1, ClockTokenInv DEF PostRegister, rateVars
<1>2. ASSUME NEW e \in Emails, NEW p \in Passwords, PostLogin(e, p) PROVE TokenInv'
  BY <1>2, LoginTokenInv
<1>3. ASSUME NEW h \in Handlers, NEW t \in tokens, CheckExpiry(h, t) PROVE TokenInv'
  BY <1>3, CheckTokenInv
<1>4. ASSUME NEW h \in Handlers, IsRevoked(h) PROVE TokenInv'
  BY <1>4, VerifyTokenInv
<1>5. ASSUME NEW h \in Handlers, Serve(h) PROVE TokenInv'
  BY <1>5, ServeTokenInv
<1>6. ASSUME NEW t \in tokens, RevokeToken(t) PROVE TokenInv'
  BY <1>6, RevokeTokenInv
<1>7. ASSUME NEW k \in HeaderKeys, KeyRequest(k) PROVE TokenInv'
  BY <1>0, <1>7, ClockTokenInv DEF KeyRequest, Authenticate, LimitIngest
<1>8. CASE Clock
  BY <1>0, <1>8, ClockTokenInv DEF Clock, Tick
<1>9. CASE Restart
  BY <1>9, RestartTokenInv
<1>10. CASE UNCHANGED vars
  BY <1>0, <1>10, ClockTokenInv DEF vars, rateVars
<1> QED BY <1>1, <1>2, <1>3, <1>4, <1>5, <1>6, <1>7, <1>8, <1>9, <1>10 DEF Next

\* A revoked token is let in only if it expired meanwhile, or after a restart
\* (AuthManager.hpp:149, 165, 173, 290).
THEOREM RevocationHolds == Spec => []RevokedStaysOut
<1>1. TokenInv => RevokedStaysOut
  BY DEF TokenInv
<1> QED BY InitUserInv, NextUserInv, InitTokenInv, NextTokenInv, <1>1, PTL DEF Spec
-----------------------------------------------------------------------------
(* The rate limit *)

\* For the requests since the i-th one that got through, up to the last use of the
\* bucket.
Paid(k) ==
    \A i \in DOMAIN passed[k] :
        (Len(passed[k]) - i + 1) * Cost + bucket[k].tokens
            <= Burst + Rate * (bucket[k].last - passed[k][i])

\* Requests get through one after the other, and not after the last use of the bucket.
InOrder(k) ==
    /\ \A i, j \in DOMAIN passed[k] : i <= j => passed[k][i] <= passed[k][j]
    /\ \A i \in DOMAIN passed[k] : passed[k][i] <= bucket[k].last
    /\ bucket[k].last <= now
    /\ passed[k] # <<>> => bucket[k].last > 0

Bound(k) ==
    \A i, j \in DOMAIN passed[k] :
        i <= j => (j - i + 1) * Cost <= Burst + Rate * (passed[k][j] - passed[k][i])

RInv ==
    /\ RateTypeOK
    /\ \A k \in HeaderKeys : Paid(k) /\ InOrder(k) /\ Bound(k)

\* Products with the two constants, of which the provers know little.
LEMMA MoreTime ==
    ASSUME NEW r \in Nat, NEW a \in Nat, NEW b \in Nat, NEW c \in Nat
    PROVE  r * (a - c) + r * (b - a) = r * (b - c)
OBVIOUS

LEMMA ProductInt == ASSUME NEW a \in Int, NEW b \in Int PROVE a * b \in Int
OBVIOUS

LEMMA OneMore ==
    ASSUME NEW c \in Nat, NEW n \in Int
    PROVE  (n + 1) * c = n * c + c
OBVIOUS

\* A bucket never holds more than is allowed, nor more than it held and what has
\* flowed in.
LEMMA RefilledBounds ==
    ASSUME RInv, NEW k \in HeaderKeys
    PROVE  LET t == Refilled(bucket[k])
           IN  /\ t \in 0..Burst
               /\ passed[k] # <<>> => t <= bucket[k].tokens + Rate * (now - bucket[k].last)
<1> DEFINE b == bucket[k]
           flow == Rate * (now - b.last)
<1>1. b.tokens \in 0..Burst /\ b.last \in Nat /\ now \in Nat /\ b.last <= now
  BY DEF RInv, RateTypeOK, InOrder
<1>2. flow \in Nat
  <2>1. now - b.last \in Nat
    BY <1>1
  <2> HIDE DEF b
  <2> QED BY <2>1, RateAssumption
<1>3. Burst \in Nat
  BY RateAssumption
<1>4. passed[k] # <<>> => b.last > 0
  BY DEF RInv, InOrder
<1>5. Refilled(b) = IF b.last > 0 THEN Lesser(Burst, b.tokens + flow) ELSE b.tokens
  BY DEF Refilled
<1> HIDE DEF b, flow
<1>6. Refilled(b) \in 0..Burst /\ (b.last > 0 => Refilled(b) <= b.tokens + flow)
  BY <1>1, <1>2, <1>3, <1>5 DEF Lesser
<1> QED BY <1>4, <1>6 DEF b, flow

LEMMA InitRInv == RateInit => RInv
<1> SUFFICES ASSUME RateInit PROVE RInv
  OBVIOUS
<1>1. RateTypeOK
  BY RateAssumption DEF RateInit, RateTypeOK, Fresh
<1>2. ASSUME NEW k \in HeaderKeys PROVE Paid(k) /\ InOrder(k) /\ Bound(k)
  <2>1. passed[k] = <<>> /\ bucket[k].last = 0 /\ now = 1
    BY DEF RateInit, Fresh
  <2> QED BY <2>1 DEF Paid, InOrder, Bound
<1> QED BY <1>1, <1>2 DEF RInv

\* What concerns another key stays as it is.
LEMMA Untouched ==
    ASSUME RInv, NEW k \in HeaderKeys,
           bucket'[k] = bucket[k], passed'[k] = passed[k], now' \in Nat, now' >= now
    PROVE  Paid(k)' /\ InOrder(k)' /\ Bound(k)'
<1>1. Paid(k) /\ InOrder(k) /\ Bound(k) /\ now \in Nat /\ bucket[k].last \in Nat
  BY DEF RInv, RateTypeOK
<1> QED BY <1>1 DEF Paid, InOrder, Bound

\* A request pays for itself, or is refused.
LEMMA ConsumeRInv ==
    ASSUME RInv, NEW k \in HeaderKeys, Consume(k), now' = now
    PROVE  RInv'
<1> DEFINE t == Refilled(bucket[k])
           s == passed[k]
           n == Len(s)
           last == bucket[k].last
<1>1. /\ now \in Nat \ {0} /\ bucket[k].tokens \in 0..Burst /\ last \in Nat
      /\ s \in Seq(Nat) /\ n \in Nat /\ DOMAIN s = 1..n
      /\ \A i \in 1..n : s[i] \in Nat
  BY DEF RInv, RateTypeOK
<1>2. Cost \in Nat /\ Rate \in Nat /\ Burst \in Nat /\ Cost > 0
  BY RateAssumption
<1>3. t \in 0..Burst /\ (s # <<>> => t <= bucket[k].tokens + Rate * (now - last))
  BY RefilledBounds
<1>4. /\ \A i \in 1..n : (n - i + 1) * Cost + bucket[k].tokens <= Burst + Rate * (last - s[i])
      /\ \A i, j \in 1..n : i <= j => s[i] <= s[j]
      /\ \A i \in 1..n : s[i] <= last
      /\ last <= now
      /\ \A i, j \in 1..n : i <= j => (j - i + 1) * Cost <= Burst + Rate * (s[j] - s[i])
  BY <1>1 DEF RInv, Paid, InOrder, Bound
\* The refill keeps the balance.
<1>5. ASSUME NEW i \in 1..n
      PROVE  (n - i + 1) * Cost + t <= Burst + Rate * (now - s[i])
  <2>1. s # <<>>
    BY <1>1
  <2>2. Rate * (last - s[i]) + Rate * (now - last) = Rate * (now - s[i])
    <3>1. Rate \in Nat /\ last \in Nat /\ now \in Nat /\ s[i] \in Nat
      BY <1>1, <1>2
    <3> HIDE DEF s, last
    <3> QED BY <3>1, MoreTime
  <2> DEFINE x == (n - i + 1) * Cost
             y == Rate * (last - s[i])
             z == Rate * (now - last)
  <2>3. x \in Int /\ y \in Int /\ z \in Int
    <3>1. n - i + 1 \in Int /\ last - s[i] \in Int /\ now - last \in Int
      BY <1>1
    <3> HIDE DEF s, n, last
    <3> QED BY <1>2, <3>1
  <2>4. x + bucket[k].tokens <= Burst + y /\ t <= bucket[k].tokens + z
    BY <1>3, <1>4, <2>1
  <2>5. Rate * (now - s[i]) = y + z
    BY <2>2
  <2> HIDE DEF x, y, z, t
  <2>6. x + t <= Burst + (y + z)
    BY <1>1, <1>2, <1>3, <2>3, <2>4
  <2> QED BY <2>5, <2>6 DEF x
<1> HIDE DEF t
<1>6. \A i \in 1..n : s[i] <= now
  <2>1. ASSUME NEW i \in 1..n PROVE s[i] <= now
    <3>1. s[i] \in Nat /\ s[i] <= last /\ last <= now /\ last \in Nat /\ now \in Nat
      BY <1>1, <1>4
    <3> HIDE DEF s, last
    <3> QED BY <3>1
  <2> QED BY <2>1
<1>7. CASE t < Cost /\ bucket' = [bucket EXCEPT ![k] = [tokens |-> t, last |-> now]]
           /\ UNCHANGED passed
  <2>1. bucket'[k].tokens = t /\ bucket'[k].last = now /\ passed'[k] = s
    BY <1>7 DEF RInv, RateTypeOK
  <2>2. RateTypeOK'
    BY <1>1, <1>3, <1>7 DEF RInv, RateTypeOK
  <2>3. Paid(k)' /\ InOrder(k)' /\ Bound(k)'
    <3>1. Paid(k)'
      BY <1>1, <1>5, <2>1 DEF Paid
    <3>2. InOrder(k)'
      <4>1. \A i, j \in DOMAIN s : i <= j => s[i] <= s[j]
        BY DEF RInv, InOrder
      <4>2. now' = now /\ now > 0 /\ now <= now /\ \A i \in DOMAIN s : s[i] <= now
        BY <1>1, <1>6
      <4> HIDE DEF s
      <4> QED BY <2>1, <4>1, <4>2 DEF InOrder
    <3>3. Bound(k)'
      BY <1>1, <1>4, <2>1 DEF Bound
    <3> QED BY <3>1, <3>2, <3>3
  <2>4. ASSUME NEW l \in HeaderKeys, l # k PROVE Paid(l)' /\ InOrder(l)' /\ Bound(l)'
    <3>1. bucket'[l] = bucket[l] /\ passed'[l] = passed[l]
      BY <1>7, <2>4 DEF RInv, RateTypeOK
    <3> QED BY <1>1, <3>1, Untouched
  <2> QED BY <2>2, <2>3, <2>4 DEF RInv
<1>8. CASE t >= Cost /\ bucket' = [bucket EXCEPT ![k] = [tokens |-> t - Cost, last |-> now]]
           /\ passed' = [passed EXCEPT ![k] = Append(s, now)]
  <2> DEFINE q == Append(s, now)
  <2>1. bucket'[k].tokens = t - Cost /\ bucket'[k].last = now /\ passed'[k] = q
    BY <1>8 DEF RInv, RateTypeOK
  <2>2. /\ q \in Seq(Nat) /\ Len(q) = n + 1 /\ DOMAIN q = 1..(n + 1) /\ q[n + 1] = now
        /\ \A i \in 1..n : q[i] = s[i]
    BY <1>1
  <2>3. t - Cost \in 0..Burst
    BY <1>2, <1>3, <1>8
  <2>4. RateTypeOK'
    BY <1>1, <1>8, <2>2, <2>3 DEF RInv, RateTypeOK
  <2> HIDE DEF q
  \* The new request takes from the bucket what it adds to the sum.
  <2>5. ASSUME NEW i \in 1..n
        PROVE  (n + 1 - i + 1) * Cost + (t - Cost) <= Burst + Rate * (now - s[i])
    <3> DEFINE x == (n - i + 1) * Cost
               y == Rate * (now - s[i])
    <3>1. n + 1 - i + 1 = (n - i + 1) + 1 /\ n - i + 1 \in Int
      BY <1>1
    <3>2. (n + 1 - i + 1) * Cost = x + Cost
      BY <1>2, <3>1, OneMore
    <3>3. x \in Int /\ y \in Int
      <4>1. n - i + 1 \in Int /\ now - s[i] \in Int /\ Cost \in Int /\ Rate \in Int
        BY <1>1, <1>2
      <4> QED BY <4>1, ProductInt
    <3>4. x + t <= Burst + y
      BY <1>5
    <3> HIDE DEF x, y
    <3>5. (x + Cost) + (t - Cost) <= Burst + y
      BY <1>2, <1>3, <3>3, <3>4
    <3> QED BY <3>2, <3>5 DEF y
  <2>6. ASSUME NEW i \in 1..(n + 1)
         PROVE  (n + 1 - i + 1) * Cost + (t - Cost) <= Burst + Rate * (now - q[i])
    <3>1. CASE i \in 1..n
      BY <2>2, <2>5, <3>1
    <3>2. CASE i = n + 1
      <4>1. n + 1 - i + 1 = 1 /\ now - q[i] = 0
        BY <1>1, <2>2, <3>2
      <4>2. 1 * Cost = Cost /\ Rate * 0 = 0
        BY <1>2
      <4> QED BY <1>2, <1>3, <4>1, <4>2
    <3> QED BY <1>1, <3>1, <3>2
  <2>7. Paid(k)'
    BY <2>1, <2>2, <2>6 DEF Paid
  <2>8. \A i \in 1..(n + 1) : i \in 1..n \/ i = n + 1
    <3>1. n \in Nat
      BY <1>1
    <3> HIDE DEF n
    <3> QED BY <3>1
  <2>9. InOrder(k)'
    <3>1. \A i \in 1..(n + 1) : q[i] <= now
      <4>1. ASSUME NEW i \in 1..(n + 1) PROVE q[i] <= now
        <5>1. CASE i \in 1..n
          BY <1>6, <2>2, <5>1
        <5>2. CASE i = n + 1
          BY <1>1, <2>2, <5>2
        <5> QED BY <2>8, <5>1, <5>2
      <4> QED BY <4>1
    <3>2. ASSUME NEW i \in 1..(n + 1), NEW j \in 1..(n + 1), i <= j PROVE q[i] <= q[j]
      <4>1. CASE j = n + 1
        BY <2>2, <3>1, <4>1
      <4>2. CASE j # n + 1
        <5>1. i \in 1..n /\ j \in 1..n
          BY <1>1, <3>2, <4>2
        <5> QED BY <1>4, <2>2, <3>2, <5>1
      <4> QED BY <4>1, <4>2
    <3> QED BY <1>1, <2>1, <2>2, <3>1, <3>2 DEF InOrder
  <2>10. Bound(k)'
    <3>1. ASSUME NEW i \in 1..(n + 1), NEW j \in 1..(n + 1), i <= j
          PROVE  (j - i + 1) * Cost <= Burst + Rate * (q[j] - q[i])
      <4>1. CASE j \in 1..n
        <5>1. i \in 1..n
          BY <1>1, <3>1, <4>1
        <5>2. (j - i + 1) * Cost <= Burst + Rate * (s[j] - s[i])
          BY <1>4, <3>1, <4>1, <5>1
        <5> QED BY <2>2, <4>1, <5>1, <5>2
      <4>2. CASE j = n + 1
        <5>1. q[j] = now /\ q[i] \in Nat
          BY <1>1, <2>2, <4>2
        <5>2. (n + 1 - i + 1) * Cost + (t - Cost) <= Burst + Rate * (now - q[i])
          BY <2>6
        <5> DEFINE x == (n + 1 - i + 1) * Cost
                   y == Rate * (now - q[i])
        <5>3. x \in Int /\ y \in Int
          <6>1. n + 1 - i + 1 \in Int /\ now - q[i] \in Int /\ Cost \in Int /\ Rate \in Int
            BY <1>1, <1>2, <5>1
          <6> QED BY <6>1, ProductInt
        <5>4. x + (t - Cost) <= Burst + y
          BY <5>2
        <5>5. (j - i + 1) * Cost = x
          BY <4>2
        <5> HIDE DEF x, y
        <5>6. x <= Burst + y
          BY <1>2, <1>3, <1>8, <5>3, <5>4
        <5> QED BY <5>1, <5>5, <5>6 DEF y
      <4> QED BY <2>8, <4>1, <4>2
    <3> QED BY <2>1, <2>2, <3>1 DEF Bound
  <2>11. ASSUME NEW l \in HeaderKeys, l # k PROVE Paid(l)' /\ InOrder(l)' /\ Bound(l)'
    <3>1. bucket'[l] = bucket[l] /\ passed'[l] = passed[l]
      BY <1>8, <2>11 DEF RInv, RateTypeOK
    <3> QED BY <1>1, <3>1, Untouched
  <2> QED BY <2>4, <2>7, <2>9, <2>10, <2>11 DEF RInv
<1> QED BY <1>7, <1>8 DEF Consume, t

LEMMA NextRInv == RInv /\ [RateNext]_rateVars => RInv'
<1> SUFFICES ASSUME RInv, [RateNext]_rateVars PROVE RInv'
  OBVIOUS
<1>1. ASSUME NEW k \in HeaderKeys, Authenticate(k) PROVE RInv'
  BY <1>1, ConsumeRInv DEF Authenticate
<1>2. ASSUME NEW k \in HeaderKeys, LimitIngest(k) PROVE RInv'
  BY <1>2, ConsumeRInv DEF LimitIngest
<1>3. CASE Tick
  <2>1. now' \in Nat \ {0} /\ now' >= now
    BY <1>3 DEF Tick, RInv, RateTypeOK
  <2>2. ASSUME NEW k \in HeaderKeys PROVE Paid(k)' /\ InOrder(k)' /\ Bound(k)'
    BY <1>3, <2>1, Untouched DEF Tick
  <2>3. RateTypeOK'
    BY <1>3, <2>1 DEF Tick, RInv, RateTypeOK
  <2> QED BY <2>2, <2>3 DEF RInv
<1>4. CASE UNCHANGED rateVars
  BY <1>4 DEF rateVars, RInv, RateTypeOK, Paid, InOrder, Bound
<1> QED BY <1>1, <1>2, <1>3, <1>4 DEF RateNext

\* A start of the program empties both the buckets and the history.
LEMMA RestartRInv == ASSUME RInv, Restart PROVE RInv'
<1>1. /\ now' = now /\ bucket' = [k \in HeaderKeys |-> Fresh]
      /\ passed' = [k \in HeaderKeys |-> <<>>]
  BY DEF Restart
<1>2. RateTypeOK'
  BY <1>1, RateAssumption DEF RInv, RateTypeOK, Fresh
<1>3. ASSUME NEW k \in HeaderKeys PROVE Paid(k)' /\ InOrder(k)' /\ Bound(k)'
  <2>1. passed'[k] = <<>> /\ bucket'[k].last = 0 /\ now' \in Nat
    BY <1>1, <1>2 DEF Fresh, RateTypeOK
  <2> QED BY <2>1 DEF Paid, InOrder, Bound
<1> QED BY <1>2, <1>3 DEF RInv

\* Every other step of the server is one of the rate limit, or none.
LEMMA ServerRInv == RInv /\ [Next]_vars => RInv'
<1> SUFFICES ASSUME RInv, [Next]_vars PROVE RInv'
  OBVIOUS
<1>1. CASE Restart
  BY <1>1, RestartRInv
<1>2. CASE Clock
  BY <1>2, NextRInv DEF Clock, RateNext
<1>3. ASSUME NEW k \in HeaderKeys, KeyRequest(k) PROVE RInv'
  BY <1>3, NextRInv DEF KeyRequest, RateNext
<1>4. CASE UNCHANGED rateVars
  BY <1>4, NextRInv
<1> QED BY <1>1, <1>2, <1>3, <1>4
       DEF Next, vars, PostRegister, PostLogin, CheckExpiry, IsRevoked, Serve, RevokeToken, rateVars

\* The limit of HttpServer.hpp:73 for every key (HttpServer.hpp:235, 475), by itself
\* and next to the tokens, the accounts and the restarts.
THEOREM LimitHolds == (RateSpec => []RateBound) /\ (Spec => []RateBound)
<1>1. RInv => RateBound
  BY DEF RInv, Bound, RateBound
<1>2. RateSpec => []RateBound
  BY InitRInv, NextRInv, <1>1, PTL DEF RateSpec
<1>3. Init => RInv
  BY InitRInv DEF Init
<1>4. Spec => []RateBound
  BY <1>3, ServerRInv, <1>1, PTL DEF Spec
<1> QED BY <1>2, <1>4
=============================================================================
