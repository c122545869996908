------------------------------ MODULE Accounts ------------------------------
(***************************************************************************)
(* Accounts and their refresh tokens: the requests of api/v1/auth.py and   *)
(* the profile requests of api/v1/users.py (with crud/auth.py, sql/auth.py *)
(* and sql/users.py under src/src), and the job cleanup_refresh_tokens     *)
(* (scheduler/jobs/auth_jobs.py).                                          *)
(*                                                                         *)
(* A request is a transaction in READ COMMITTED: it loads rows in one or   *)
(* two steps, then flushes and commits. An object that is loaded keeps the *)
(* columns it was loaded with, and a flush writes the columns that differ  *)
(* from them. An account stands for its e-mail address, which never        *)
(* changes; accounts are never deleted.                                    *)
(***************************************************************************)
EXTENDS Integers, FiniteSets

CONSTANTS
  Users,         \* e-mail addresses
  SocialUsers,   \* those social_login makes of a provider and a code
  OldUsers,      \* accounts that exist at the start
  Names,         \* nicknames people choose
  Passwords,     \* passwords people choose
  Tokens,        \* refresh tokens ever issued
  Slots,         \* bound: requests served at the same time
  None,          \* no row, NULL
  Gone,          \* a row that was deleted
  TokenLife,     \* ticks a refresh token is valid (14 days)
  RevokedKept,   \* ticks after which a revoked token is deleted (30 days)
  LastDay        \* bound: the last tick of the model

ASSUME UsersAssumption == SocialUsers \subseteq Users /\ OldUsers \subseteq Users \ SocialUsers
ASSUME NamesAssumption == Names \cap Users = {}
ASSUME NoneAssumption  == None \notin Names \cup Users \cup Passwords \cup Tokens \cup Int
ASSUME RowsAssumption  == Gone # None /\ IsFiniteSet(Tokens) /\ IsFiniteSet(Slots)
ASSUME DayAssumption   == TokenLife \in Nat /\ RevokedKept \in Nat /\ LastDay \in Nat

VARIABLES
  now,        \* the time
  account,    \* e-mail address -> its row
  token,      \* refresh token -> its row
  at,         \* slot -> how far its request has come
  ask,        \* slot -> what it asks for
  seen,       \* slot -> the account it loaded
  listed,     \* slot -> the tokens it loaded and will revoke
  mine,       \* history: slot -> usable tokens of the account when the request came
  answered,   \* history: refresh token -> how often a refresh with it was answered
  overlapped  \* history: tokens that two refreshes had in hand at once

session == <<at, ask, seen, listed, mine>>
history == <<answered, overlapped>>
vars == <<now, account, token, session, history>>

Days == 0..LastDay

\* The nickname of a social account is fresh: here, its address. Nobody knows its password.
Account == [nickname : Names \cup SocialUsers, password : Passwords \cup {None},
            withdrawn : BOOLEAN]

\* known: the answer to the client named the token itself.
Token == [user : Users, expires : 0..(LastDay + TokenLife), revoked : Days \cup {None},
          known : BOOLEAN]

ASSUME RecordsAssumption == {None, Gone} \cap (Account \cup Token) = {}

Ask ==
       [op : {"register"}, user : Users \ SocialUsers, name : Names, password : Passwords]
  \cup [op : {"login"}, user : Users \ SocialUsers, password : Passwords]
  \cup [op : {"social_login"}, user : SocialUsers]
  \cup [op : {"refresh"}, user : Users, token : Tokens]
  \cup [op : {"logout"}, user : Users]
  \cup [op : {"withdraw"}, user : Users \ SocialUsers, password : Passwords]
  \cup [op : {"withdraw"}, user : SocialUsers, password : {None}]
  \cup [op : {"update_me"}, user : Users, name : Names]
  \cup [op : {"change_password"}, user : Users \ SocialUsers, password : Passwords, new : Passwords]

NoAsk == [op |-> "none"]

\* What an access token lets its bearer ask for.
Authorized == {"logout", "withdraw", "update_me", "change_password"}
Issuing    == {"register", "login", "social_login", "refresh"}
Ending     == {"logout", "withdraw"}

Stored == {t \in Tokens : token[t] \notin {None, Gone}}
\* Mutant of Live: the tokens of refreshes, which no client can name, are overlooked.
LiveKnown(u) == {t \in Stored : token[t].user = u /\ token[t].revoked = None /\ token[t].known}

Live(u) == {t \in Stored : token[t].user = u /\ token[t].revoked = None}

Running == {s \in Slots : at[s] # "idle"}

TakenBy(name) == {u \in Users : account[u] # None /\ account[u].nickname = name}

-----------------------------------------------------------------------------
(* A request *)

Init ==
  /\ now = 0
  /\ account \in [Users -> Account \cup {None}]
  /\ \A u \in Users : account[u] # None <=> u \in OldUsers
  /\ \A u \in OldUsers :
       /\ account[u].nickname \in Names /\ account[u].password \in Passwords
       /\ ~account[u].withdrawn /\ TakenBy(account[u].nickname) = {u}
  /\ token = [t \in Tokens |-> None]
  /\ at = [s \in Slots |-> "idle"]
  /\ ask = [s \in Slots |-> NoAsk]
  /\ seen = [s \in Slots |-> None]
  /\ listed = [s \in Slots |-> {}]
  /\ mine = [s \in Slots |-> {}]
  /\ answered = [t \in Tokens |-> 0]
  /\ overlapped = {}

Goto(s, stage) == at' = [at EXCEPT ![s] = stage]

\* The session is closed; what it loaded is forgotten.
Close(s) ==
  /\ Goto(s, "idle")
  /\ ask' = [ask EXCEPT ![s] = NoAsk]
  /\ seen' = [seen EXCEPT ![s] = None]
  /\ listed' = [listed EXCEPT ![s] = {}]
  /\ mine' = [mine EXCEPT ![s] = {}]

\* An AppError, or an error of the database: the transaction is rolled back.
Refuse(s) == Close(s) /\ UNCHANGED <<now, account, token, history>>

\* Bound: a token is left for every request that may need one.
TokenLeft ==
  Cardinality({s \in Running : ask[s].op \in Issuing})
    < Cardinality({t \in Tokens : token[t] = None})

\* The first SELECT of each request, and the refusals that follow from it.
Found(a) ==
  CASE a.op = "register"  -> account[a.user] = None
    [] a.op = "login"     -> /\ account[a.user] # None
                             /\ account[a.user].password = a.password
                             /\ ~account[a.user].withdrawn
    [] a.op = "refresh"   -> /\ a.token \in Stored
                             /\ token[a.token].known /\ token[a.token].user = a.user
                             /\ now <= token[a.token].expires
                             /\ token[a.token].revoked = None
    [] a.op = "withdraw"  -> /\ ~account[a.user].withdrawn
                             /\ a.user \in SocialUsers \/ account[a.user].password = a.password
    [] a.op = "change_password" -> account[a.user].password = a.password
    [] OTHER -> TRUE

\* Some requests have a second SELECT before they write.
HasCheck(a) ==
  \/ a.op \in {"register", "refresh", "withdraw"}
  \/ a.op = "update_me" /\ account[a.user].nickname # a.name

\* Mutant of TokensOf: a refresh does not revoke the token it was given.
TokensOfLogout(a) == IF a.op = "logout" THEN Live(a.user) ELSE {}

\* What a request keeps of its first SELECT: the account, if it uses it later on, and
\* the tokens it is going to revoke.
AccountOf(a) == IF a.op \in {"social_login", "withdraw", "update_me", "change_password"}
                THEN account[a.user] ELSE None
TokensOf(a)  == CASE a.op = "refresh" -> {a.token}
                  [] a.op = "logout"  -> Live(a.user)
                  [] OTHER            -> {}

\* A request comes and makes its first SELECT. get_current_user_id lets in whoever has
\* an account, withdrawn or not. A request that is refused here changes nothing.
Begin(s) ==
  /\ at[s] = "idle"
  /\ \E a \in Ask :
       /\ a.op \in Issuing => TokenLeft
       /\ a.op \in Authorized => account[a.user] # None
       /\ Found(a)
       /\ ask' = [ask EXCEPT ![s] = a]
       /\ Goto(s, IF HasCheck(a) THEN "check" ELSE "apply")
       /\ seen' = [seen EXCEPT ![s] = AccountOf(a)]
       /\ listed' = [listed EXCEPT ![s] = TokensOf(a)]
       /\ mine' = [mine EXCEPT ![s] = IF a.op \in Ending
                                     THEN {t \in Stored : token[t].user = a.user /\
                                                           token[t].revoked = None} ELSE {}]
       /\ overlapped' = overlapped \cup
            {t \in Tokens : a.op = "refresh" /\ a.token = t /\
               \E r \in Running : ask[r].op = "refresh" /\ ask[r].token = t}
  /\ UNCHANGED <<now, account, token, answered>>

\* register and update_me look for the nickname, refresh for the account; withdraw
\* lists the tokens.
Passes(s) ==
  LET a == ask[s] IN
  CASE a.op = "register"  -> TakenBy(a.name) = {}
    [] a.op = "update_me" -> TakenBy(a.name) \subseteq {a.user}
    [] a.op = "refresh"   -> ~account[a.user].withdrawn
    [] a.op = "withdraw"  -> TRUE

Check(s) ==
  /\ at[s] = "check"
  /\ IF Passes(s)
       THEN /\ Goto(s, "apply")
            /\ listed' = IF ask[s].op = "withdraw"
                         THEN [listed EXCEPT ![s] = Live(ask[s].user)] ELSE listed
            /\ UNCHANGED <<now, account, token, ask, seen, mine, history>>
       ELSE Refuse(s)

\* What the keys of the tables and the rows that are gone leave of a flush: a new
\* account needs its address and its nickname free, a changed nickname too, and an
\* UPDATE of a row that is gone fails.
CanFlush(s) ==
  LET a == ask[s] IN
  CASE a.op = "register"     -> account[a.user] = None /\ TakenBy(a.name) = {}
    [] a.op = "social_login" -> seen[s] = None => account[a.user] = None
    [] a.op = "update_me"    -> a.name # seen[s].nickname => TakenBy(a.name) \subseteq {a.user}
    [] a.op \in Ending -> listed[s] \subseteq Stored
    [] OTHER -> TRUE

NewAccount(name, password) == [nickname |-> name, password |-> password, withdrawn |-> FALSE]

\* Mutant of Flushed: a flush writes the whole row as it was loaded, with its change.
FlushedWhole(s) ==
  LET a == ask[s] IN
  CASE a.op = "register"        -> NewAccount(a.name, a.password)
    [] a.op \in {"login", "refresh", "logout"} -> account[a.user]
    [] seen[s] = None           -> NewAccount(a.user, None)
    [] a.op = "withdraw"        -> [seen[s] EXCEPT !.withdrawn = TRUE]
    [] a.op = "change_password" -> [seen[s] EXCEPT !.password = a.new]
    [] a.op = "update_me"       -> [seen[s] EXCEPT !.nickname = a.name]
    [] OTHER -> seen[s]

\* The account after the flush: only the columns that differ from those loaded are written.
Flushed(s) ==
  LET a == ask[s]
      row == account[a.user] IN
  CASE a.op = "register" -> NewAccount(a.name, a.password)
    [] a.op = "social_login" /\ seen[s] = None -> NewAccount(a.user, None)
    [] a.op = "withdraw" -> [row EXCEPT !.withdrawn = TRUE]
    [] a.op = "change_password" -> [row EXCEPT !.password = a.new]
    [] a.op = "update_me" /\ a.name # seen[s].nickname -> [row EXCEPT !.nickname = a.name]
    [] OTHER -> row

NextToken == CHOOSE t \in Tokens : token[t] = None

\* Mutant of NewToken: the day that has begun is not counted.
NewTokenNextDay(a) == [user |-> a.user, expires |-> now + TokenLife + 1, revoked |-> None,
                       known |-> a.op # "refresh"]

\* _issue_tokens. The answer to a refresh does not name the new token.
NewToken(a) == [user |-> a.user, expires |-> now + TokenLife, revoked |-> None,
                known |-> a.op # "refresh"]

\* The tokens after the flush: those listed are revoked, whatever became of them
\* since; revoke_refresh_token looks its row up again and does without it.
TokensAfter(s) ==
  [t \in Tokens |->
     IF ask[s].op \in Issuing /\ t = NextToken THEN NewToken(ask[s])
     ELSE IF t \in listed[s] \cap Stored THEN [token[t] EXCEPT !.revoked = now]
     ELSE token[t]]

\* Bound: answers are counted up to 2.
Apply(s) ==
  /\ at[s] = "apply"
  /\ CanFlush(s)
  /\ account' = [account EXCEPT ![ask[s].user] = Flushed(s)]
  /\ token' = TokensAfter(s)
  /\ answered' = [t \in Tokens |-> IF ask[s].op = "refresh" /\ t = ask[s].token /\ answered[t] < 2
                                  THEN answered[t] + 1 ELSE answered[t]]
  /\ Close(s)
  /\ UNCHANGED <<now, overlapped>>

\* The flush fails: a key is taken, or a row went after it was loaded (for a refresh,
\* between the second look at the token and its UPDATE).
FlushFails(s) ==
  /\ at[s] = "apply"
  /\ ~CanFlush(s) \/ (ask[s].op = "refresh" /\ ask[s].token \notin Stored)
  /\ Refuse(s)

\* The API process is killed: PostgreSQL rolls the transaction back.
Crash(s) == at[s] # "idle" /\ Refuse(s)

Serve(s) == Check(s) \/ Apply(s) \/ FlushFails(s)

-----------------------------------------------------------------------------
(* The clean-up job and the clock *)

Outdated ==
  {t \in Stored : \/ token[t].expires < now
                  \/ token[t].revoked # None /\ token[t].revoked < now - RevokedKept}

\* cleanup_refresh_tokens; a run that finds nothing changes nothing.
Cleanup ==
  /\ Outdated # {}
  /\ token' = [t \in Tokens |-> IF t \in Outdated THEN Gone ELSE token[t]]
  /\ UNCHANGED <<now, account, session, history>>

\* Bound: LastDay.
Tick ==
  /\ now < LastDay
  /\ now' = now + 1
  /\ UNCHANGED <<account, token, session, history>>

Next ==
  \/ \E s \in Slots : Begin(s) \/ Serve(s) \/ Crash(s)
  \/ Cleanup
  \/ Tick

Spec == Init /\ [][Next]_vars

-----------------------------------------------------------------------------
(* Properties *)

\* Every variable keeps its type.
TypeOK ==
  /\ now \in Days
  /\ account \in [Users -> Account \cup {None}]
  /\ token \in [Tokens -> Token \cup {None, Gone}]
  /\ at \in [Slots -> {"idle", "check", "apply"}]
  /\ ask \in [Slots -> Ask \cup {NoAsk}]
  /\ \A s \in Slots : at[s] # "idle" => ask[s] \in Ask
  /\ seen \in [Slots -> Account \cup {None}]
  /\ listed \in [Slots -> SUBSET Tokens]
  /\ mine \in [Slots -> SUBSET Tokens]
  /\ answered \in [Tokens -> 0..2]
  /\ overlapped \subseteq Tokens

\* A refresh token buys one answer, unless two refreshes had it in hand at once: the
\* row is marked as revoked (crud/auth.py:104) after revoked_at was checked (line 83).
OneAnswerPerToken == \A t \in Tokens : answered[t] > 1 => t \in overlapped

Commits(s, op) == ask[s].op = op /\ at'[s] = "idle" /\ Apply(s)

\* A logout or a withdrawal that is committed leaves no token usable which the account
\* had when the request came, whatever refreshes, logins and clean-ups happened
\* meanwhile (sql/auth.py:85-97); and a token that is revoked stays so.
LogoutEndsSessions ==
  [][/\ \A op \in Ending, s \in Slots :
          Commits(s, op) => \A t \in mine[s] \cap Stored' : token'[t].revoked # None
     /\ \A t \in Stored \cap Stored' : token[t].revoked # None => token'[t].revoked # None]_vars

\* Requests of one account that overlap do not undo one another: a withdrawal is
\* final, a password changes by change_password only, a nickname by update_me only.
ColumnsKept ==
  [][\A u \in Users : account[u] # None =>
       /\ account'[u] # None
       /\ account[u].withdrawn => account'[u].withdrawn
       /\ account'[u].password # account[u].password =>
            \E s \in Slots : Commits(s, "change_password") /\ ask[s].user = u
       /\ account'[u].nickname # account[u].nickname =>
            \E s \in Slots : Commits(s, "update_me") /\ ask[s].user = u]_vars
=============================================================================
