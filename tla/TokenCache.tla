----------------------------- MODULE TokenCache -----------------------------
(***************************************************************************)
(* Bearer-token handling of the registry client: doAuthenticatedGETInner,  *)
(* tokenFor and invalidate, run by several workers at once against one     *)
(* cache entry (one realm, service and scope).  Tokens expire on the       *)
(* registry's side; the client ignores expires_in, keeps a token until it  *)
(* is rejected, and does not repeat a request whose token was rejected.    *)
(* Each exchange looks its credentials up afresh, reading the username and *)
(* the password from two files, while the operator may be replacing them.  *)
(* Without credentials it is made anonymously; the repository is private,  *)
(* so what the realm then grants is not good for it.                       *)
(***************************************************************************)
EXTENDS Naturals, FiniteSets, Credentials

CONSTANTS
  Workers,     \* goroutines sharing the client
  Tokens,      \* token values; more than there are workers, so that one is always unused
  NoToken,     \* no cache entry
  Anonymous,   \* any token granted without credentials
  Dockers,     \* the parts an auth config file may have for the host
  MaxExpiries, \* bound on the number of times tokens expire
  MaxRotation  \* bound on the number of the operator's password rotations

ASSUME TokenAssumption ==
  /\ NoToken \notin Tokens /\ Anonymous \notin Tokens \union {NoToken}
  /\ Dockers \subseteq SUBSET {"helper", "store", "auth"}
  /\ MaxExpiries \in Nat
  /\ MaxRotation \in Nat \ {0}

VARIABLES
  tokens,    \* the cache entry
  valid,     \* the tokens the registry accepts
  expiries,  \* how often tokens have expired
  pc,        \* what each worker is doing
  held,      \* the token each worker's request carries
  pair,      \* the credentials each worker has read
  account,   \* the rotation whose username and password the realm accepts
  files,     \* what the username and password files hold
  docker     \* what the auth config file's helpers and entry yield

creds == <<account, files, docker>>

tokenVars == <<tokens, valid, expiries, pc, held, pair, account, files, docker>>

TokenInit ==
  /\ tokens = NoToken
  /\ valid = {}
  /\ expiries = 0
  /\ pc = [w \in Workers |-> "idle"]
  /\ held = [w \in Workers |-> NoToken]
  /\ pair = [w \in Workers |-> NoPair]
  /\ account = 1
  /\ files \in {NoPair, Pair(1)}
  /\ \E S \in Dockers :
       /\ files = NoPair => S # {}
       /\ docker = [k \in {"helper", "store", "auth"} |-> IF k \in S THEN 1 ELSE Nothing]

Returned == {"idle", "ok", "rejected", "denied"}

\* The request returns, in success or with an error.
End(w, how) ==
  /\ pc' = [pc EXCEPT ![w] = how]
  /\ held' = [held EXCEPT ![w] = NoToken]
  /\ pair' = [pair EXCEPT ![w] = NoPair]

\* The request without a token is answered 401 with a bearer challenge.
Request(w) ==
  /\ pc[w] \in Returned
  /\ pc' = [pc EXCEPT ![w] = "challenged"]
  /\ UNCHANGED <<tokens, valid, expiries, held, pair, creds>>

\* It gets no answer, another status or no usable challenge: an error.
RequestFail(w) ==
  /\ pc[w] \in Returned /\ End(w, "idle")
  /\ UNCHANGED <<tokens, valid, expiries, creds>>

\* tokenFor looks in the cache under its mutex ...
Lookup(w) ==
  /\ pc[w] = "challenged"
  /\ \/ /\ tokens # NoToken
        /\ held' = [held EXCEPT ![w] = tokens]
        /\ pc' = [pc EXCEPT ![w] = "retry"]
     \/ /\ tokens = NoToken
        /\ pc' = [pc EXCEPT ![w] = "exchange"]
        /\ UNCHANGED held
  /\ UNCHANGED <<tokens, valid, expiries, pair, creds>>

\* A bug to rule out: the username is the one read at startup.
ReadUsernameOnce(w) ==
  /\ pc[w] = "exchange"
  /\ pc' = [pc EXCEPT ![w] = "username"]
  /\ pair' = [pair EXCEPT ![w] = <<IF files = NoPair THEN Nothing ELSE 1, Nothing>>]
  /\ UNCHANGED <<tokens, valid, expiries, held, creds>>

\* ... and otherwise looks up credentials, the mutex released: first the
\* username file ...
ReadUsername(w) ==
  /\ pc[w] = "exchange"
  /\ pc' = [pc EXCEPT ![w] = "username"]
  /\ pair' = [pair EXCEPT ![w] = <<files[1], Nothing>>]
  /\ UNCHANGED <<tokens, valid, expiries, held, creds>>

\* ... then the password file, and if there is neither, the auth config file.
\* The helpers yielded h and s.
Resolve(w, h, s) ==
  /\ pc[w] = "username"
  /\ pc' = [pc EXCEPT ![w] = "ask"]
  /\ pair' = [pair EXCEPT ![w] =
                Chain(<<FileSource(pair[w][1], files[2]), lookup(h, s, docker.auth)>>)]
  /\ UNCHANGED <<tokens, valid, expiries, held, creds>>

ReadPassword(w) == Resolve(w, docker.helper, docker.store)

\* A helper cannot be run, or answers nothing: the next source is tried.
HelperFail(w) ==
  \E h \in {docker.helper, Nothing}, s \in {docker.store, Nothing} :
    /\ FileSource(pair[w][1], files[2]) = NoPair
    /\ <<h, s>> # <<docker.helper, docker.store>>
    /\ Resolve(w, h, s)

\* A bug to rule out: an answer without a token is taken for one.
ExchangeEmpty(w) ==
  /\ pc[w] = "ask"
  /\ held' = [held EXCEPT ![w] = ""]
  /\ pc' = [pc EXCEPT ![w] = "store"]
  /\ UNCHANGED <<tokens, valid, expiries, pair, creds>>

\* The realm hands out a token for the right credentials; it does not matter
\* which, as long as nobody has it: tokens nobody has are interchangeable.
Exchange(w) ==
  LET used == {tokens} \union {held[v] : v \in Workers}
      t    == CHOOSE t \in Tokens \ used : TRUE
  IN  /\ pc[w] = "ask"
      /\ pair[w] = Pair(account)
      /\ Tokens \ used # {}
      /\ held' = [held EXCEPT ![w] = t]
      /\ valid' = (valid \intersect used) \union {t}
      /\ pc' = [pc EXCEPT ![w] = "store"]
      /\ pair' = [pair EXCEPT ![w] = NoPair]
      /\ UNCHANGED <<tokens, expiries, creds>>

\* Without credentials, the realm may grant a token for what is public.
ExchangeAnonymous(w) ==
  /\ pc[w] = "ask" /\ pair[w] = NoPair
  /\ held' = [held EXCEPT ![w] = Anonymous]
  /\ pc' = [pc EXCEPT ![w] = "store"]
  /\ UNCHANGED <<tokens, valid, expiries, pair, creds>>

\* The credentials are refused or the realm cannot be reached; the request
\* fails with the exchange.
ExchangeFail(w) ==
  /\ pc[w] = "ask" /\ End(w, "idle")
  /\ UNCHANGED <<tokens, valid, expiries, creds>>

\* The token is cached, over whatever is there by now.
Store(w) ==
  /\ pc[w] = "store"
  /\ tokens' = held[w]
  /\ pc' = [pc EXCEPT ![w] = "retry"]
  /\ UNCHANGED <<valid, expiries, held, pair, creds>>

\* The request is repeated once, with the token ...
Retry(w) ==
  /\ pc[w] = "retry" /\ held[w] \in valid /\ End(w, "ok")
  /\ UNCHANGED <<tokens, valid, expiries, creds>>

\* ... which may be rejected by a second 401 ...
RetryRefused(w) ==
  /\ pc[w] = "retry" /\ held[w] \notin valid
  /\ pc' = [pc EXCEPT ![w] = "refused"]
  /\ UNCHANGED <<tokens, valid, expiries, held, pair, creds>>

\* ... or, where the registry knows the token and not its right, by a 403 ...
RetryDenied(w) ==
  /\ pc[w] = "retry" /\ held[w] = Anonymous /\ End(w, "denied")
  /\ UNCHANGED <<tokens, valid, expiries, creds>>

\* ... or get no answer, a 404, a 429 or a 5xx.  The token stays in the cache
\* after all but the 401.
RetryFail(w) ==
  /\ pc[w] = "retry" /\ End(w, "idle")
  /\ UNCHANGED <<tokens, valid, expiries, creds>>

\* A bug to rule out: a rejected token stays in the cache.
KeepToken(w) ==
  /\ pc[w] = "refused" /\ End(w, "rejected")
  /\ UNCHANGED <<tokens, valid, expiries, creds>>

\* A second 401: drop the cache entry, whichever token it holds by now.
Invalidate(w) ==
  /\ pc[w] = "refused" /\ End(w, "rejected")
  /\ tokens' = NoToken
  /\ UNCHANGED <<valid, expiries, creds>>

\* The registry stops accepting some tokens.
Expire ==
  /\ expiries < MaxExpiries
  /\ \E S \in SUBSET valid \ {{}} : valid' = valid \ S
  /\ expiries' = expiries + 1
  /\ UNCHANGED <<tokens, pc, held, pair, creds>>

\* The password is changed at the registry ...
Rotate ==
  /\ account < MaxRotation
  /\ account' = account + 1
  /\ UNCHANGED <<tokens, valid, expiries, pc, held, pair, files, docker>>

\* ... and, in any order and one at a time, wherever it is configured.  A file
\* that is being replaced may be empty for a while.
Renew ==
  /\ \/ \E i \in {1, 2} :
          /\ files[i] # account /\ files # NoPair
          /\ \/ files' = [files EXCEPT ![i] = account]
             \/ files[3 - i] # Nothing /\ files[i] # Nothing /\ files' = [files EXCEPT ![i] = Nothing]
          /\ UNCHANGED docker
     \/ \E k \in {"helper", "store", "auth"} :
          /\ docker[k] \notin {Nothing, account}
          /\ docker' = [docker EXCEPT ![k] = account]
          /\ UNCHANGED files
  /\ UNCHANGED <<tokens, valid, expiries, pc, held, pair, account>>

Get(w) ==
  \/ Request(w)
  \/ RequestFail(w)
  \/ Lookup(w)
  \/ ReadUsername(w)
  \/ ReadPassword(w)
  \/ HelperFail(w)
  \/ Exchange(w)
  \/ ExchangeAnonymous(w)
  \/ ExchangeFail(w)
  \/ Store(w)
  \/ Retry(w)
  \/ RetryRefused(w)
  \/ RetryDenied(w)
  \/ RetryFail(w)
  \/ Invalidate(w)

TokenNext == (\E w \in Workers : Get(w)) \/ Expire \/ Rotate \/ Renew

TokenSpec == TokenInit /\ [][TokenNext]_tokenVars

\* Requests are made again every cycle and every call returns; neither the
\* exchange nor the repeated request fails at every single attempt; the operator
\* renews the password wherever it is configured.
FairSpec ==
  /\ TokenSpec
  /\ WF_tokenVars(Renew)
  /\ \A w \in Workers :
       /\ WF_tokenVars(Get(w)) /\ SF_tokenVars(Exchange(w))
       /\ SF_tokenVars(Retry(w) \/ RetryRefused(w) \/ RetryDenied(w))

-----------------------------------------------------------------------------

TypeOK ==
  /\ tokens \in Tokens \union {NoToken, Anonymous}
  /\ valid \subseteq Tokens
  /\ expiries \in 0..MaxExpiries
  /\ pc \in [Workers -> {"idle", "challenged", "exchange", "username", "ask", "store", "retry",
                         "ok", "refused", "rejected", "denied"}]
  /\ held \in [Workers -> Tokens \union {NoToken, Anonymous}]
  /\ pair \in [Workers -> (0..MaxRotation) \X (0..MaxRotation)]
  /\ account \in 1..MaxRotation
  /\ files \in (0..account) \X (0..account)
  /\ docker \in [helper : 0..account, store : 0..account, auth : 0..account]

\* An exchange is about to be made without credentials.
Uncredentialed == \E w \in Workers : pc[w] = "ask" /\ pair[w] = NoPair

\* Rejected tokens do not poison the client: once tokens stop expiring and no
\* exchange is made without credentials any more, no request is rejected, although
\* requests fail in between and a slow worker may still store a token that has
\* expired, or one granted without credentials, or drop a good one.
RejectionsEnd ==
  <>[]~Uncredentialed => <>[](\A w \in Workers : pc[w] \notin {"refused", "rejected"})

\* Every worker's requests go on succeeding: a password rotation is picked up
\* without a restart once it is finished, though an exchange in the middle of it
\* may have sent a username and a password that never belonged together.  Two
\* things stop that: exchanges without credentials that recur, and a registry that
\* answers 403 to what they grant, which leaves the token in the cache.
RequestsSucceed ==
  <>[](~Uncredentialed /\ \A w \in Workers : pc[w] # "denied")
  => \A w \in Workers : []<>(pc[w] = "ok")
=============================================================================
