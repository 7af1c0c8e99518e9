------------------------------- MODULE Access --------------------------------
(***************************************************************************)
(* Who gets in: the accounts of src/UserStore.hpp, the bearer tokens of    *)
(* src/AuthManager.hpp, the routes /auth/register and /auth/login of       *)
(* src/HttpServer.hpp and the check with which its /api routes begin, next *)
(* to the rate limit, with which they share the server and the clock.      *)
(*                                                                         *)
(* The cryptography is taken to be perfect: a token verifies when it was   *)
(* issued, a password when it is the one that was registered, and random   *)
(* ids are fresh.  The secret comes from the configuration file, so that   *)
(* tokens outlive the program.                                             *)
(***************************************************************************)
EXTENDS RateLimit, FiniteSets

CONSTANTS
    Handlers,       \* threads of the HTTP server
    Emails,
    Passwords,      \* of 8 characters or more
    None,
    Expiry,         \* TOKEN_EXPIRY_SECONDS
    MaxAccounts,    \* bound: how many accounts are made
    MaxTokens,      \* bound: how many tokens are issued
    MaxStarts       \* bound: how often the program starts

UserIds == 1..MaxAccounts
Jtis == 1..MaxTokens
Account == [id : UserIds, password : Passwords]
Token == [sub : UserIds, exp : Nat, jti : Jtis]

ASSUME AccessAssumption ==
    /\ {Expiry, MaxAccounts, MaxTokens, MaxStarts} \subseteq Nat
    /\ None \notin Account /\ None \notin Nat

VARIABLES
    account,    \* users_ through by_email_
    file,       \* the accounts that can be read in persistence_path_
    torn,       \* the file was cut short when it was last written
    made,       \* how many accounts were made: their ids
    tokens,     \* the tokens that were issued
    revoked,    \* revoked_jtis_: an expiry time, or None
    thread,     \* where each handler is in verify_token
    starts,     \* how often the program was started
    confirmed,  \* history: the accounts whose owners were told "Account created"
    lost,       \* history: the confirmed accounts that a start found gone
    barred      \* history: in which run of the program each token was last revoked, or 0

userVars == <<account, file, torn, made, confirmed, lost>>
tokenVars == <<tokens, revoked, thread, barred>>
vars == <<rateVars, userVars, tokenVars, starts>>

Idle == [at |-> "idle"]

Init ==
    /\ RateInit
    /\ account = [e \in Emails |-> None]
    /\ file = account /\ confirmed = account
    /\ torn = FALSE /\ lost = {}
    /\ made = 0
    /\ tokens = {}
    /\ revoked = [j \in Jtis |-> None]
    /\ thread = [h \in Handlers |-> Idle]
    /\ starts = 1
    /\ barred = [j \in Jtis |-> 0]

-----------------------------------------------------------------------------
(* Accounts *)

\* The client is told "Account created"; what this address had before is history.
Confirm(e) == confirmed' = [confirmed EXCEPT ![e] = account'[e]] /\ lost' = lost \ {e}

\* Mutant: the file is written before the new user is in the vector.
SaveFirst(e) == file' = account /\ torn' = FALSE /\ Confirm(e)

\* save_locked, the last call of register_user.  The new file replaces the old one; or
\* it does so although the disk was full and it is cut short, since nobody looks at
\* the stream; and the client is told of success.  Or filesystem::rename throws, the
\* client gets an error, and the account stays in memory.
SaveLocked(e) ==
    \/ file' = account' /\ torn' = FALSE /\ Confirm(e)
    \/ file' = [d \in Emails |-> None] /\ torn' = TRUE /\ Confirm(e)
    \/ UNCHANGED <<file, torn, confirmed, lost>>

\* register_user, which holds the store's mutex.
RegisterUser(e, p) ==
    /\ account[e] = None
    /\ made < MaxAccounts
    /\ made' = made + 1
    /\ account' = [account EXCEPT ![e] = [id |-> made + 1, password |-> p]]
    /\ SaveLocked(e)

\* handle_register; an email that is taken gets an error, with nothing changed.
PostRegister(e, p) ==
    /\ \E h \in Handlers : thread[h] = Idle
    /\ RegisterUser(e, p)
    /\ UNCHANGED <<rateVars, tokenVars, starts>>

\* find_by_email.
FindByEmail(e) == account[e]

VerifyPassword(p, user) == p = user.password

CreateToken(user) == [sub |-> user.id, exp |-> now + Expiry, jti |-> Cardinality(tokens) + 1]

\* handle_login; an account never changes and is never removed, so that the copy which
\* find_by_email returns stays right.
PostLogin(e, p) ==
    /\ \E h \in Handlers : thread[h] = Idle
    /\ FindByEmail(e) # None /\ VerifyPassword(p, FindByEmail(e))
    /\ Cardinality(tokens) < MaxTokens
    /\ tokens' = tokens \cup {CreateToken(FindByEmail(e))}
    /\ UNCHANGED <<rateVars, userVars, revoked, thread, barred, starts>>

-----------------------------------------------------------------------------
(* Tokens *)

\* verify_token up to the expiry; a token that has expired is refused here.
CheckExpiry(h, t) ==
    /\ thread[h] = Idle
    /\ t.exp > now
    /\ thread' = [thread EXCEPT ![h] =
                     [at |-> "verify", token |-> t, barred |-> barred[t.jti]]]
    /\ UNCHANGED <<rateVars, userVars, tokens, revoked, barred, starts>>

\* Mutant: an entry without expiry time is taken for an old one.
PrunedAll == [j \in Jtis |->
    IF revoked[j] # None /\ revoked[j] < now THEN None ELSE revoked[j]]

\* What is_revoked leaves in the map when it has dropped the old entries; it reads the
\* clock a second time.
Pruned == [j \in Jtis |->
    IF revoked[j] # None /\ revoked[j] > 0 /\ revoked[j] < now THEN None ELSE revoked[j]]

\* is_revoked, and the answer of verify_token.
IsRevoked(h) ==
    /\ thread[h].at = "verify"
    /\ revoked' = Pruned
    /\ thread' = [thread EXCEPT ![h] =
                     IF Pruned[@.token.jti] # None THEN Idle ELSE [@ EXCEPT !.at = "in"]]
    /\ UNCHANGED <<rateVars, userVars, tokens, barred, starts>>

\* auth_bearer has let the request in, which is served.
Serve(h) ==
    /\ thread[h].at = "in"
    /\ thread' = [thread EXCEPT ![h] = Idle]
    /\ UNCHANGED <<rateVars, userVars, tokens, revoked, barred, starts>>

\* revoke_token, with the expiry time of the token or without; no route calls it yet,
\* the tests do.
RevokeToken(t) ==
    /\ \E exp \in {0, t.exp} : revoked' = [revoked EXCEPT ![t.jti] = exp]
    /\ barred' = [barred EXCEPT ![t.jti] = starts]
    /\ UNCHANGED <<rateVars, userVars, tokens, thread, starts>>

-----------------------------------------------------------------------------
(* The server *)

\* A request with an API key: a single-tenant route, or POST /ingest.
KeyRequest(k) ==
    /\ \E h \in Handlers : thread[h] = Idle
    /\ Authenticate(k) \/ LimitIngest(k)
    /\ UNCHANGED <<userVars, tokenVars, starts>>

Clock == Tick /\ UNCHANGED <<userVars, tokenVars, starts>>

\* The program ends or crashes and starts again: load reads the file, unless it was cut
\* short; everything else was in memory, the revocations too, while tokens stay valid.
Restart ==
    /\ starts < MaxStarts
    /\ starts' = starts + 1
    /\ account' = file
    /\ lost' = IF torn THEN {e \in Emails : confirmed[e] # None} ELSE lost
    /\ revoked' = [j \in Jtis |-> None]
    /\ thread' = [h \in Handlers |-> Idle]
    /\ bucket' = [k \in HeaderKeys |-> Fresh]
    /\ passed' = [k \in HeaderKeys |-> <<>>]
    /\ UNCHANGED <<now, file, torn, made, confirmed, tokens, barred>>

Next ==
    \/ \E e \in Emails, p \in Passwords : PostRegister(e, p) \/ PostLogin(e, p)
    \/ \E h \in Handlers : (\E t \in tokens : CheckExpiry(h, t)) \/ IsRevoked(h) \/ Serve(h)
    \/ \E t \in tokens : RevokeToken(t)
    \/ \E k \in HeaderKeys : KeyRequest(k)
    \/ Clock \/ Restart

Spec == Init /\ [][Next]_vars

-----------------------------------------------------------------------------
(* Properties *)

AccessTypeOK ==
    /\ account \in [Emails -> Account \cup {None}]
    /\ file \in [Emails -> Account \cup {None}]
    /\ confirmed \in [Emails -> Account \cup {None}]
    /\ torn \in BOOLEAN
    /\ made \in 0..MaxAccounts /\ starts \in Nat \ {0}
    /\ tokens \subseteq Token
    /\ revoked \in [Jtis -> Nat \cup {None}]
    /\ lost \subseteq Emails
    /\ barred \in [Jtis -> 0..starts]

\* Whoever was told "Account created" logs in with this password and gets this id,
\* after registrations of others that failed half-way, and after crashes, unless a
\* start met a file that a full disk had cut short.  One short write alone does no
\* harm for good: the next whole one has every account again.
ConfirmedAccount ==
    \A e \in Emails \ lost : confirmed[e] # None =>
        account[e] = confirmed[e] /\ (~torn => file[e] = confirmed[e])

\* A token that was revoked before the request came is not let in, although old
\* entries of the map are dropped and the clock is read twice.  There are two
\* exceptions: a token that expired between the two readings, and one that was
\* revoked before the last restart, which forgets the revocations.
RevokedStaysOut ==
    \A h \in Handlers :
        thread[h].at = "in" /\ thread[h].barred = starts => thread[h].token.exp < now
=============================================================================
