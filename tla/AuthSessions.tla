---------------------------- MODULE AuthSessions ----------------------------
(***************************************************************************)
(* Accounts and sessions (internal/auth/auth.go), kept in memory under a   *)
(* mutex and written to a file after every change.                         *)
(*                                                                         *)
(* The file is replaced by a rename, so a crash leaves the old or the new  *)
(* one, but the write may fail with the change already made in memory.     *)
(* Nothing changes an account while the process is up, so authenticating   *)
(* and opening the session, two sections of the lock, are one step here.   *)
(* The check of the password is that the account still has its hash.       *)
(***************************************************************************)
EXTENDS Naturals, FiniteSets

CONSTANTS
  User,        \* accounts the configuration bootstraps
  Token,       \* session tokens
  SessionTTL,  \* time a session is good for
  MaxTime      \* bound: the last instant of the clock

ASSUME ConstantsAssumption ==
  /\ User # {}
  /\ SessionTTL \in Nat /\ MaxTime \in Nat

VARIABLES
  now,      \* the clock
  process,  \* the process is up or down
  memory,   \* Store.data
  file,     \* the auth store on disk
  granted,  \* tokens whose login was answered with success, and until when
  asked,    \* tokens whose logout was tried
  revoked   \* tokens whose logout was answered with success

answers == <<granted, asked, revoked>>

vars == <<now, process, memory, file, answers>>

Account == {"absent", "with_hash", "without_hash"}

Session ==
  [user: User, expiresAt: SessionTTL..(MaxTime + SessionTTL), revoked: BOOLEAN]

\* Sessions are found by their token, which is random and never used twice.
IsData(data) ==
  /\ DOMAIN data = {"accounts", "sessions"}
  /\ data.accounts \in [User -> Account]
  /\ DOMAIN data.sessions \subseteq Token
  /\ \A token \in DOMAIN data.sessions : data.sessions[token] \in Session

Empty == [accounts |-> [u \in User |-> "absent"], sessions |-> <<>>]

\* What json.Marshal makes of an account: PasswordHash is tagged "-".
Encoded(account) == IF account = "with_hash" THEN "without_hash" ELSE account

\* The data the file has once it is written.
Written(data) ==
  [data EXCEPT !.accounts = [u \in User |-> Encoded(@[u])]]

\* The change is made in memory, then the file is replaced.
Persist(data) == memory' = data /\ file' = Written(data)

\* The change is made in memory and the file cannot be written.
PersistFails(data) == memory' = data /\ file' = file

\* Authenticate finds the account by its name and compares the hash.
Authenticate(u) == memory.accounts[u] = "with_hash"

Resolves(token) ==
  /\ process = "up"
  /\ token \in DOMAIN memory.sessions
  /\ ~memory.sessions[token].revoked
  /\ now < memory.sessions[token].expiresAt
  /\ memory.accounts[memory.sessions[token].user] # "absent"

-----------------------------------------------------------------------------
Init ==
  /\ now = 0
  /\ process = "down"
  /\ memory = Empty /\ file = Empty
  /\ granted = <<>>
  /\ asked = {} /\ revoked = {}

TimePasses ==
  /\ now < MaxTime
  /\ now' = now + 1
  /\ UNCHANGED <<process, memory, file, answers>>

Bootstrapped == [file EXCEPT !.accounts = [u \in User |-> "with_hash"]]

\* A mutation of Open: the sessions of the last run are dropped.
OpenAfresh ==
  /\ process = "down" /\ process' = "up"
  /\ Persist([Bootstrapped EXCEPT !.sessions = <<>>])
  /\ UNCHANGED <<now, answers>>

\* The file is loaded; only an empty one is filled from the configuration.
Open ==
  /\ process = "down" /\ process' = "up"
  /\ IF \A u \in User : file.accounts[u] = "absent"
     THEN Persist(Bootstrapped)
     ELSE memory' = file /\ file' = file
  /\ UNCHANGED <<now, answers>>

Crash ==
  /\ process = "up" /\ process' = "down"
  /\ memory' = Empty
  /\ UNCHANGED <<now, file, answers>>

\* The data with the session Login appends.
LoggedIn(u, token) ==
  [memory EXCEPT !.sessions =
     [t \in DOMAIN @ \cup {token} |->
        IF t = token
        THEN [user |-> u, expiresAt |-> now + SessionTTL, revoked |-> FALSE]
        ELSE @[t]]]

Fresh(token) ==
  /\ token \notin DOMAIN memory.sessions \cup DOMAIN file.sessions
  /\ token \notin DOMAIN granted

Login(u, token) ==
  /\ process = "up" /\ Authenticate(u) /\ Fresh(token)
  /\ Persist(LoggedIn(u, token))
  /\ granted' = [t \in DOMAIN granted \cup {token} |->
                   IF t = token THEN now + SessionTTL ELSE granted[t]]
  /\ UNCHANGED <<now, process, asked, revoked>>

\* The session stays in memory, though its token is not given out.
LoginFails(u, token) ==
  /\ process = "up" /\ Authenticate(u) /\ Fresh(token)
  /\ PersistFails(LoggedIn(u, token))
  /\ UNCHANGED <<now, process, answers>>

LoggedOut(token) ==
  [memory EXCEPT !.sessions = [@ EXCEPT ![token].revoked = TRUE]]

\* A mutation of Logout: a session revoked in memory is not written again.
LogoutOnce(token) ==
  /\ process = "up" /\ token \in DOMAIN memory.sessions
  /\ token \in DOMAIN granted
  /\ IF memory.sessions[token].revoked
     THEN UNCHANGED <<memory, file>>
     ELSE Persist(LoggedOut(token))
  /\ asked' = asked \cup {token} /\ revoked' = revoked \cup {token}
  /\ UNCHANGED <<now, process, granted>>

\* Also of a session that is revoked, which is written again.
Logout(token) ==
  /\ process = "up" /\ token \in DOMAIN memory.sessions
  /\ token \in DOMAIN granted
  /\ Persist(LoggedOut(token))
  /\ asked' = asked \cup {token} /\ revoked' = revoked \cup {token}
  /\ UNCHANGED <<now, process, granted>>

LogoutFails(token) ==
  /\ process = "up" /\ token \in DOMAIN memory.sessions
  /\ token \in DOMAIN granted
  /\ PersistFails(LoggedOut(token))
  /\ asked' = asked \cup {token}
  /\ UNCHANGED <<now, process, granted, revoked>>

-----------------------------------------------------------------------------
Next ==
  \/ TimePasses \/ Open \/ Crash
  \/ \E u \in User, token \in Token : Login(u, token) \/ LoginFails(u, token)
  \/ \E token \in Token : Logout(token) \/ LogoutFails(token)

Spec == Init /\ [][Next]_vars

(***************************************************************************)
(* Properties                                                              *)
(***************************************************************************)
\* Memory and file hold accounts and sessions, and only tokens that were given
\* out are revoked.
TypeOK ==
  /\ now \in 0..MaxTime
  /\ process \in {"up", "down"}
  /\ IsData(memory) /\ IsData(file)
  /\ DOMAIN granted \subseteq Token
  /\ revoked \subseteq asked /\ asked \subseteq DOMAIN granted

\* A session whose logout was answered with success is refused for good, after
\* any number of failed writes and restarts (README.md:101, logging out revokes
\* the session on the server).
RevokedForGood ==
  \A token \in revoked :
    /\ ~Resolves(token)
    /\ file.sessions[token].revoked

\* A token that was given out is honoured until it expires, across restarts,
\* unless somebody tried to log it out; and never after it expires.
SessionsHonoured ==
  process = "up" =>
    \A token \in DOMAIN granted :
      /\ token \notin asked => (Resolves(token) <=> now < granted[token])
      /\ Resolves(token) => now < granted[token]

\* Data in which every session that was given out stands as it was answered, and
\* a session counts as revoked only if somebody asked for it.
AnswersKept(data) ==
  \A token \in DOMAIN granted :
    /\ token \in DOMAIN data.sessions
    /\ data.sessions[token].expiresAt = granted[token]
    /\ data.sessions[token].revoked => token \in asked
    /\ token \in revoked => data.sessions[token].revoked

AccountsKept(data) == \A u \in User : data.accounts[u] # "absent"

\* The inductive invariant behind both: the answers are kept in the file at any
\* time and in memory while the process is up, and the accounts are bootstrapped
\* all at once.
AuthInv ==
  /\ TypeOK
  /\ AnswersKept(file)
  /\ process = "up" => AnswersKept(memory) /\ AccountsKept(memory)
  /\ AccountsKept(file) \/ \A u \in User : file.accounts[u] = "absent"
  /\ process = "up" => AccountsKept(file)

\* Whoever has a bootstrapped account can log in while the process is up
\* (auth.go:43: of the password the bcrypt hash is stored).
AccountsUsable ==
  process = "up" => \A u \in User : Authenticate(u)

=============================================================================
