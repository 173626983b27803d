-------------------------- MODULE AuthSessionsProofs --------------------------
(***************************************************************************)
(* Sessions are honoured and revoked as they were answered, for any number *)
(* of accounts, tokens, crashes and failing writes.                        *)
(***************************************************************************)
EXTENDS AuthSessions, TLAPS

(***************************************************************************)
(* What the operators on the data change                                   *)
(***************************************************************************)
\* Writing the data drops the hashes and nothing else.
LEMMA WrittenData ==
  ASSUME NEW data, IsData(data)
  PROVE  /\ IsData(Written(data))
         /\ Written(data).sessions = data.sessions
         /\ \A u \in User :
              Written(data).accounts[u] = "absent" <=> data.accounts[u] = "absent"
BY DEF IsData, Written, Encoded, Account

\* A login adds the session of a fresh token.
LEMMA LoggedInData ==
  ASSUME TypeOK, NEW u \in User, NEW token \in Token
  PROVE  /\ IsData(LoggedIn(u, token))
         /\ LoggedIn(u, token).accounts = memory.accounts
         /\ DOMAIN LoggedIn(u, token).sessions = DOMAIN memory.sessions \cup {token}
         /\ LoggedIn(u, token).sessions[token] =
              [user |-> u, expiresAt |-> now + SessionTTL, revoked |-> FALSE]
         /\ \A t \in DOMAIN memory.sessions \ {token} :
              LoggedIn(u, token).sessions[t] = memory.sessions[t]
<1>. DEFINE new == [user |-> u, expiresAt |-> now + SessionTTL, revoked |-> FALSE]
<1>1. new \in Session
  BY ConstantsAssumption DEF TypeOK, Session
<1>. QED
  BY <1>1 DEF TypeOK, IsData, LoggedIn

\* A logout marks the session and leaves the others alone.
LEMMA LoggedOutData ==
  ASSUME TypeOK, NEW token \in DOMAIN memory.sessions
  PROVE  /\ IsData(LoggedOut(token))
         /\ LoggedOut(token).accounts = memory.accounts
         /\ DOMAIN LoggedOut(token).sessions = DOMAIN memory.sessions
         /\ LoggedOut(token).sessions[token].expiresAt =
              memory.sessions[token].expiresAt
         /\ LoggedOut(token).sessions[token].revoked = TRUE
         /\ \A t \in DOMAIN memory.sessions \ {token} :
              LoggedOut(token).sessions[t] = memory.sessions[t]
<1>. DEFINE old == memory.sessions[token]
            new == [old EXCEPT !.revoked = TRUE]
<1>1. old \in Session
  BY DEF TypeOK, IsData
<1>2. new \in Session /\ new.expiresAt = old.expiresAt /\ new.revoked = TRUE
  BY <1>1 DEF Session
<1>3. /\ DOMAIN LoggedOut(token) = {"accounts", "sessions"}
      /\ LoggedOut(token).accounts = memory.accounts
      /\ LoggedOut(token).sessions = [memory.sessions EXCEPT ![token] = new]
  BY DEF TypeOK, IsData, LoggedOut
<1>. HIDE DEF new
<1>. QED
  BY <1>2, <1>3 DEF TypeOK, IsData

(***************************************************************************)
(* The invariant                                                           *)
(***************************************************************************)
LEMMA InitInv == Init => AuthInv
<1>. SUFFICES ASSUME Init PROVE AuthInv
  OBVIOUS
<1>1. IsData(Empty) /\ \A u \in User : Empty.accounts[u] = "absent"
  BY DEF IsData, Empty, Account
<1>2. TypeOK
  BY <1>1, ConstantsAssumption DEF Init, TypeOK
<1>. QED
  BY <1>1, <1>2 DEF Init, AuthInv, AnswersKept

\* One step for each action: which data it writes, then what that leaves.
LEMMA NextInv == AuthInv /\ [Next]_vars => AuthInv'
<1>. SUFFICES ASSUME AuthInv, [Next]_vars PROVE AuthInv'
  OBVIOUS
<1>. USE DEF AuthInv
<1>1. CASE TimePasses
  <2>1. TypeOK'
    BY <1>1, ConstantsAssumption DEF TypeOK, TimePasses, answers, IsData
  <2>. QED
    BY <1>1, <2>1 DEF TimePasses, answers, AnswersKept, AccountsKept
<1>2. CASE Open
  <2>1. IsData(Bootstrapped) /\ Bootstrapped.sessions = file.sessions
        /\ AccountsKept(Bootstrapped)
    BY DEF TypeOK, IsData, Bootstrapped, AccountsKept, Account
  <2>2. /\ IsData(memory') /\ memory'.sessions = file.sessions
        /\ IsData(file') /\ file'.sessions = file.sessions
        /\ AccountsKept(memory') /\ AccountsKept(file')
    <3>1. CASE \A u \in User : file.accounts[u] = "absent"
      BY <1>2, <2>1, <3>1, WrittenData DEF Open, Persist, AccountsKept
    <3>2. CASE ~ \A u \in User : file.accounts[u] = "absent"
      BY <1>2, <3>2 DEF Open, AccountsKept, TypeOK
    <3>. QED
      BY <3>1, <3>2
  <2>3. UNCHANGED <<now, answers>> /\ process' = "up"
    BY <1>2 DEF Open
  <2>4. TypeOK'
    BY <2>2, <2>3 DEF TypeOK, answers
  <2>5. AnswersKept(file)' /\ AnswersKept(memory)'
    BY <2>2, <2>3 DEF AnswersKept, answers
  <2>6. AccountsKept(file)' /\ AccountsKept(memory)'
    BY <2>2 DEF AccountsKept
  <2>. QED
    BY <2>4, <2>5, <2>6
<1>3. CASE Crash
  <2>1. IsData(Empty)
    BY DEF IsData, Empty, Account
  <2>2. TypeOK'
    BY <1>3, <2>1 DEF Crash, TypeOK, answers
  <2>. QED
    BY <1>3, <2>2 DEF Crash, AnswersKept, AccountsKept, answers
<1>4. ASSUME NEW u \in User, NEW token \in Token, Login(u, token) PROVE AuthInv'
  <2>. DEFINE data == LoggedIn(u, token)
  <2>1. /\ memory' = data /\ file' = Written(data)
        /\ UNCHANGED <<now, process, asked, revoked>> /\ process = "up"
        /\ granted' = [t \in DOMAIN granted \cup {token} |->
                         IF t = token THEN now + SessionTTL ELSE granted[t]]
        /\ token \notin DOMAIN granted
    BY <1>4 DEF Login, Persist, Fresh
  <2>2. /\ IsData(data) /\ data.accounts = memory.accounts
        /\ DOMAIN data.sessions = DOMAIN memory.sessions \cup {token}
        /\ data.sessions[token].expiresAt = now + SessionTTL
        /\ data.sessions[token].revoked = FALSE
        /\ \A t \in DOMAIN memory.sessions \ {token} :
             data.sessions[t] = memory.sessions[t]
    <3>1. /\ IsData(data) /\ data.accounts = memory.accounts
          /\ DOMAIN data.sessions = DOMAIN memory.sessions \cup {token}
          /\ data.sessions[token] =
               [user |-> u, expiresAt |-> now + SessionTTL, revoked |-> FALSE]
          /\ \A t \in DOMAIN memory.sessions \ {token} :
               data.sessions[t] = memory.sessions[t]
      BY LoggedInData
    <3>. HIDE DEF data
    <3>. QED
      BY <3>1
  <2>. HIDE DEF data
  <2>3. /\ IsData(file') /\ file'.sessions = data.sessions
        /\ \A v \in User : file'.accounts[v] = "absent" <=> data.accounts[v] = "absent"
    BY <2>1, <2>2, WrittenData
  <2>4. TypeOK'
    BY <2>1, <2>2, <2>3 DEF TypeOK
  <2>5. \A t \in DOMAIN granted' :
          /\ t \in DOMAIN data.sessions
          /\ data.sessions[t].expiresAt = granted'[t]
          /\ data.sessions[t].revoked => t \in asked
          /\ t \in revoked => data.sessions[t].revoked
    <3>. TAKE t \in DOMAIN granted'
    <3>1. CASE t = token
      BY <2>1, <2>2, <3>1 DEF TypeOK
    <3>2. CASE t # token
      BY <2>1, <2>2, <3>2 DEF AnswersKept
    <3>. QED
      BY <3>1, <3>2
  <2>6. AnswersKept(file)' /\ AnswersKept(memory)'
    <3>1. /\ asked' = asked /\ revoked' = revoked
          /\ memory'.sessions = data.sessions
      BY <2>1
    <3>. QED
      BY <2>3, <2>5, <3>1 DEF AnswersKept
  <2>7. AccountsKept(file)' /\ AccountsKept(memory)'
    BY <2>1, <2>2, <2>3 DEF AccountsKept
  <2>. QED
    BY <2>1, <2>4, <2>6, <2>7
<1>5. ASSUME NEW u \in User, NEW token \in Token, LoginFails(u, token)
      PROVE  AuthInv'
  <2>. DEFINE data == LoggedIn(u, token)
  <2>1. /\ memory' = data /\ file' = file /\ process = "up"
        /\ UNCHANGED <<now, process, answers>> /\ token \notin DOMAIN granted
    BY <1>5 DEF LoginFails, PersistFails, Fresh
  <2>2. /\ IsData(data) /\ data.accounts = memory.accounts
        /\ DOMAIN data.sessions = DOMAIN memory.sessions \cup {token}
        /\ \A t \in DOMAIN memory.sessions \ {token} :
             data.sessions[t] = memory.sessions[t]
    BY LoggedInData
  <2>. HIDE DEF data
  <2>3. TypeOK'
    BY <2>1, <2>2 DEF TypeOK, answers
  <2>. QED
    BY <2>1, <2>2, <2>3 DEF AnswersKept, AccountsKept, answers
<1>6. ASSUME NEW token \in Token, Logout(token) PROVE AuthInv'
  <2>. DEFINE data == LoggedOut(token)
  <2>1. /\ memory' = data /\ file' = Written(data)
        /\ UNCHANGED <<now, process, granted>> /\ process = "up"
        /\ asked' = asked \cup {token} /\ revoked' = revoked \cup {token}
        /\ token \in DOMAIN granted /\ token \in DOMAIN memory.sessions
    BY <1>6 DEF Logout, Persist
  <2>2. /\ IsData(data) /\ data.accounts = memory.accounts
        /\ DOMAIN data.sessions = DOMAIN memory.sessions
        /\ data.sessions[token].expiresAt = memory.sessions[token].expiresAt
        /\ data.sessions[token].revoked = TRUE
        /\ \A t \in DOMAIN memory.sessions \ {token} :
             data.sessions[t] = memory.sessions[t]
    BY <2>1, LoggedOutData
  <2>. HIDE DEF data
  <2>3. /\ IsData(file') /\ file'.sessions = data.sessions
        /\ \A v \in User : file'.accounts[v] = "absent" <=> data.accounts[v] = "absent"
    BY <2>1, <2>2, WrittenData
  <2>4. TypeOK'
    BY <2>1, <2>2, <2>3 DEF TypeOK
  <2>5. \A t \in DOMAIN granted :
          /\ t \in DOMAIN data.sessions
          /\ data.sessions[t].expiresAt = granted[t]
          /\ data.sessions[t].revoked => t \in asked'
          /\ t \in revoked' => data.sessions[t].revoked
    <3>. TAKE t \in DOMAIN granted
    <3>1. CASE t = token
      BY <2>1, <2>2, <3>1 DEF AnswersKept
    <3>2. CASE t # token
      BY <2>1, <2>2, <3>2 DEF AnswersKept
    <3>. QED
      BY <3>1, <3>2
  <2>6. AnswersKept(file)' /\ AnswersKept(memory)'
    BY <2>1, <2>3, <2>5 DEF AnswersKept
  <2>7. AccountsKept(file)' /\ AccountsKept(memory)'
    BY <2>1, <2>2, <2>3 DEF AccountsKept
  <2>. QED
    BY <2>1, <2>4, <2>6, <2>7
<1>7. ASSUME NEW token \in Token, LogoutFails(token) PROVE AuthInv'
  <2>. DEFINE data == LoggedOut(token)
  <2>1. /\ memory' = data /\ file' = file
        /\ UNCHANGED <<now, process, granted, revoked>> /\ process = "up"
        /\ asked' = asked \cup {token}
        /\ token \in DOMAIN granted /\ token \in DOMAIN memory.sessions
    BY <1>7 DEF LogoutFails, PersistFails
  <2>2. /\ IsData(data) /\ data.accounts = memory.accounts
        /\ DOMAIN data.sessions = DOMAIN memory.sessions
        /\ data.sessions[token].expiresAt = memory.sessions[token].expiresAt
        /\ data.sessions[token].revoked = TRUE
        /\ \A t \in DOMAIN memory.sessions \ {token} :
             data.sessions[t] = memory.sessions[t]
    BY <2>1, LoggedOutData
  <2>. HIDE DEF data
  <2>3. TypeOK'
    BY <2>1, <2>2 DEF TypeOK
  <2>4. AnswersKept(memory)'
    <3>. SUFFICES ASSUME NEW t \in DOMAIN granted
                  PROVE  /\ t \in DOMAIN data.sessions
                         /\ data.sessions[t].expiresAt = granted[t]
                         /\ data.sessions[t].revoked => t \in asked'
                         /\ t \in revoked => data.sessions[t].revoked
      BY <2>1 DEF AnswersKept
    <3>1. CASE t = token
      BY <2>1, <2>2, <3>1 DEF AnswersKept
    <3>2. CASE t # token
      BY <2>1, <2>2, <3>2 DEF AnswersKept
    <3>. QED
      BY <3>1, <3>2
  <2>5. AnswersKept(file)'
    BY <2>1 DEF AnswersKept
  <2>. QED
    BY <2>1, <2>2, <2>3, <2>4, <2>5 DEF AccountsKept
<1>8. CASE UNCHANGED vars
  BY <1>8 DEF vars, answers, TypeOK, IsData, AnswersKept, AccountsKept
<1>. QED
  BY <1>1, <1>2, <1>3, <1>4, <1>5, <1>6, <1>7, <1>8 DEF Next

\* Whatever fails and however often the process is started again, the file, and
\* the memory of a running process, hold what the answers said (auth.go:178-233).
THEOREM AuthInvariant == Spec => []AuthInv
BY InitInv, NextInv, PTL DEF Spec

\* A session whose logout was answered with success stays refused.
THEOREM RevocationLasts == Spec => []RevokedForGood
<1>1. AuthInv => RevokedForGood
  BY DEF AuthInv, AnswersKept, TypeOK, RevokedForGood, Resolves
<1>. QED
  BY <1>1, AuthInvariant, PTL

\* A session that was given out is honoured exactly until it expires, unless
\* somebody asked for it to be revoked.
THEOREM SessionsLast == Spec => []SessionsHonoured
<1>1. AuthInv => SessionsHonoured
  BY DEF AuthInv, AnswersKept, AccountsKept, TypeOK, IsData, Session,
         SessionsHonoured, Resolves
<1>. QED
  BY <1>1, AuthInvariant, PTL

===============================================================================
