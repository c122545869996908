-------------------------- MODULE Accounts_proofs --------------------------
(***************************************************************************)
(* Theorems of Accounts, for any number of accounts, tokens and requests,  *)
(* overlapping in any way.                                                 *)
(***************************************************************************)
EXTENDS Accounts, FiniteSetTheorems, TLAPS

USE DEF Authorized, Issuing, Ending

-----------------------------------------------------------------------------
(* Types *)

\* What the fields of a request hold.
AskOK(a) ==
  /\ a.user \in Users
  /\ a.op \in {"register", "login", "social_login", "refresh", "logout", "withdraw",
               "update_me", "change_password"}
  /\ a.op = "register" => a.name \in Names /\ a.password \in Passwords
  /\ a.op = "social_login" => a.user \in SocialUsers
  /\ a.op = "refresh" => a.token \in Tokens
  /\ a.op = "update_me" => a.name \in Names
  /\ a.op = "change_password" => a.new \in Passwords

LEMMA AskFields ==
  ASSUME NEW a \in Ask
  PROVE  AskOK(a)
  BY UsersAssumption DEF Ask, AskOK

USE DEF AskOK

SessionOK ==
  /\ at \in [Slots -> {"idle", "check", "apply"}]
  /\ ask \in [Slots -> Ask \cup {NoAsk}]
  /\ \A s \in Slots : at[s] # "idle" => ask[s] \in Ask
  /\ seen \in [Slots -> Account \cup {None}]
  /\ listed \in [Slots -> SUBSET Tokens]
  /\ mine \in [Slots -> SUBSET Tokens]

LEMMA CloseType ==
  ASSUME TypeOK, NEW s \in Slots, Close(s)
  PROVE  SessionOK'
  BY DEF TypeOK, Close, Goto, SessionOK

LEMMA RefuseType ==
  ASSUME TypeOK, NEW s \in Slots, Refuse(s)
  PROVE  TypeOK'
  BY CloseType DEF Refuse, TypeOK, SessionOK, history

-----------------------------------------------------------------------------
(* What a request holds on to *)

\* Accounts are never deleted: the one a request is about stays there.
There ==
  \A s \in Slots : at[s] # "idle" /\ ask[s].op \in Authorized => account[ask[s].user] # None

\* Every request that may need a new token finds one.
IssuingNow == {s \in Running : ask[s].op \in Issuing}
Unissued   == {t \in Tokens : token[t] = None}
TokensLeft == Cardinality(IssuingNow) <= Cardinality(Unissued)

\* A refresh has the token in its list which it was asked with.
InHand ==
  \A s \in Slots : at[s] # "idle" /\ ask[s].op = "refresh" =>
    token[ask[s].token] # None /\ listed[s] = {ask[s].token}

TypeInv == TypeOK /\ There /\ TokensLeft /\ InHand

LEMMA Finite ==
  ASSUME NEW S \in SUBSET Slots, NEW T \in SUBSET Tokens
  PROVE  /\ IsFiniteSet(S) /\ Cardinality(S) \in Nat
         /\ IsFiniteSet(T) /\ Cardinality(T) \in Nat
  BY RowsAssumption, FS_Subset, FS_CardinalityType

\* The token that a request issues is a new one.
LEMMA NextIsNew ==
  ASSUME TypeInv, NEW s \in IssuingNow
  PROVE  NextToken \in Unissued
<1>1. IssuingNow \in SUBSET Slots /\ Unissued \in SUBSET Tokens
  BY DEF IssuingNow, Unissued, Running
<1>2. Cardinality(IssuingNow) # 0
  BY <1>1, Finite, FS_EmptySet
<1>3. Cardinality(Unissued) # 0
  BY <1>1, <1>2, Finite DEF TypeInv, TokensLeft
<1>4. Unissued # {}
  BY <1>3, FS_EmptySet
<1> QED
  BY <1>4 DEF Unissued, NextToken

\* The account as a flush leaves it: it changes nothing but what it was asked to.
LEMMA FlushedType ==
  ASSUME TypeInv, NEW s \in Slots, Apply(s)
  PROVE  /\ Flushed(s) \in Account \cup {None}
         /\ account[ask[s].user] # None => Flushed(s) \in Account
<1> DEFINE a == ask[s]
           row == account[a.user]
<1>1. a \in Ask /\ a.user \in Users /\ row \in Account \cup {None} /\ at[s] # "idle"
  BY AskFields DEF Apply, TypeInv, TypeOK
<1>2. a.op \in Authorized => row \in Account
  BY <1>1 DEF TypeInv, There
<1>3. CASE a.op = "register"
  BY <1>1, <1>3, AskFields DEF Flushed, NewAccount, Account
<1>4. CASE a.op = "social_login"
  BY <1>1, <1>4, AskFields DEF Flushed, NewAccount, Account
<1>5. CASE a.op \in {"withdraw", "change_password", "update_me"}
  BY <1>1, <1>2, <1>5, AskFields DEF Flushed, Account
<1>6. CASE a.op \in {"login", "refresh", "logout"}
  BY <1>1, <1>6 DEF Flushed
<1> QED
  BY <1>1, <1>3, <1>4, <1>5, <1>6, AskFields

\* What a flush does to a token.
LEMMA TokenFate ==
  ASSUME TypeInv, NEW s \in Slots, Apply(s), NEW t \in Tokens
  PROVE  /\ token'[t] \in Token \cup {None, Gone}
         /\ NewToken(ask[s]) \in Token
         /\ token[t] # None => token'[t] # None
         /\ token[t] # None =>
              token'[t] = IF t \in listed[s] \cap Stored THEN [token[t] EXCEPT !.revoked = now]
                          ELSE token[t]
         /\ token[t] = None =>
              token'[t] = IF ask[s].op \in Issuing /\ t = NextToken THEN NewToken(ask[s]) ELSE None
<1>1. ask[s] \in Ask /\ s \in Running /\ ask[s].user \in Users
  BY AskFields DEF Apply, TypeInv, TypeOK, Running
<1>2. ask[s].op \in Issuing => token[NextToken] = None
  BY <1>1, NextIsNew DEF IssuingNow, Unissued
<1>3. NewToken(ask[s]) \in Token
  BY <1>1, DayAssumption DEF NewToken, Token, Days, TypeInv, TypeOK
<1>4. token[t] \in Token => [token[t] EXCEPT !.revoked = now] \in Token
  BY DEF Token, TypeInv, TypeOK
<1>5. t \in Stored => token[t] \in Token /\ token[t] # None
  BY DEF Stored, TypeInv, TypeOK
<1>6. token'[t] = IF ask[s].op \in Issuing /\ t = NextToken THEN NewToken(ask[s])
                  ELSE IF t \in listed[s] \cap Stored THEN [token[t] EXCEPT !.revoked = now]
                  ELSE token[t]
  BY DEF Apply, TokensAfter
<1>7. token[t] # None => token'[t] # None
  BY <1>2, <1>4, <1>5, <1>6, RecordsAssumption
<1> QED
  BY <1>2, <1>3, <1>4, <1>5, <1>6, <1>7 DEF TypeInv, TypeOK

LEMMA ApplyType ==
  ASSUME TypeInv, NEW s \in Slots, Apply(s)
  PROVE  TypeOK'
<1>1. SessionOK'
  BY CloseType DEF Apply, TypeInv
<1>2. account' \in [Users -> Account \cup {None}]
  BY FlushedType DEF Apply, TypeInv, TypeOK
<1>3. token' \in [Tokens -> Token \cup {None, Gone}]
  BY TokenFate DEF Apply, TokensAfter
<1>4. answered' \in [Tokens -> 0..2]
  BY DEF Apply, TypeInv, TypeOK
<1> QED
  BY <1>1, <1>2, <1>3, <1>4 DEF Apply, SessionOK, TypeInv, TypeOK

\* A request that ends leaves the others alone.
LEMMA CloseFacts ==
  ASSUME TypeOK, NEW s \in Slots, Close(s)
  PROVE  /\ at'[s] = "idle"
         /\ \A r \in Slots \ {s} : /\ at'[r] = at[r] /\ ask'[r] = ask[r] /\ seen'[r] = seen[r]
                                   /\ listed'[r] = listed[r] /\ mine'[r] = mine[r]
         /\ IssuingNow' = IssuingNow \ {s}
<1>1. at'[s] = "idle"
  BY DEF Close, Goto, TypeOK
<1>2. \A r \in Slots \ {s} : /\ at'[r] = at[r] /\ ask'[r] = ask[r] /\ seen'[r] = seen[r]
                             /\ listed'[r] = listed[r] /\ mine'[r] = mine[r]
  BY DEF Close, Goto, TypeOK
<1> QED
  BY <1>1, <1>2 DEF IssuingNow, Running

LEMMA RefuseInv ==
  ASSUME TypeInv, NEW s \in Slots, Refuse(s)
  PROVE  TypeInv'
<1>1. TypeOK' /\ UNCHANGED <<account, token>>
  BY RefuseType DEF Refuse, TypeInv
<1>2. /\ at'[s] = "idle"
      /\ \A r \in Slots \ {s} : at'[r] = at[r] /\ ask'[r] = ask[r] /\ listed'[r] = listed[r]
      /\ IssuingNow' = IssuingNow \ {s}
  BY CloseFacts DEF Refuse, TypeInv
<1>3. There' /\ InHand'
  BY <1>1, <1>2 DEF TypeInv, There, InHand
<1>4. TokensLeft'
  <2>1. Unissued' = Unissued
    BY <1>1 DEF Unissued
  <2>2. IssuingNow \in SUBSET Slots /\ Unissued \in SUBSET Tokens
    BY DEF IssuingNow, Unissued, Running
  <2>3. Cardinality(IssuingNow \ {s}) <= Cardinality(IssuingNow)
    BY <2>2, Finite, FS_Subset
  <2>4. Cardinality(IssuingNow \ {s}) \in Nat
    BY <2>2, Finite
  <2> QED
    BY <1>2, <2>1, <2>2, <2>3, <2>4, Finite DEF TypeInv, TokensLeft
<1> QED
  BY <1>1, <1>3, <1>4 DEF TypeInv

LEMMA ApplyInv ==
  ASSUME TypeInv, NEW s \in Slots, Apply(s)
  PROVE  TypeInv'
<1>1. TypeOK' /\ ask[s] \in Ask /\ s \in Running /\ ask[s].user \in Users
  BY ApplyType, AskFields DEF Apply, TypeInv, TypeOK, Running
<1>2. /\ at'[s] = "idle"
      /\ \A r \in Slots \ {s} : at'[r] = at[r] /\ ask'[r] = ask[r] /\ listed'[r] = listed[r]
      /\ IssuingNow' = IssuingNow \ {s}
  BY CloseFacts DEF Apply, TypeInv
<1>3. \A t \in Tokens : token[t] # None => token'[t] # None
  BY TokenFate
<1>4. There'
  <2>1. \A u \in Users : account[u] # None => account'[u] # None
    BY <1>1, FlushedType, RecordsAssumption DEF Apply, TypeInv, TypeOK
  <2>2. \A r \in Slots : at[r] # "idle" => ask[r].user \in Users
    BY AskFields DEF TypeInv, TypeOK
  <2> QED
    BY <1>2, <2>1, <2>2 DEF TypeInv, There
<1>5. InHand'
  <2>1. \A r \in Slots : at[r] # "idle" /\ ask[r].op = "refresh" => ask[r].token \in Tokens
    BY AskFields DEF TypeInv, TypeOK
  <2> QED
    BY <1>2, <1>3, <2>1 DEF TypeInv, InHand
<1>6. TokensLeft'
  <2>1. IssuingNow \in SUBSET Slots /\ Unissued \in SUBSET Tokens
    BY DEF IssuingNow, Unissued, Running
  <2>2. /\ Cardinality(IssuingNow) \in Nat /\ Cardinality(Unissued) \in Nat
        /\ Cardinality(IssuingNow) <= Cardinality(Unissued)
    BY <2>1, Finite DEF TypeInv, TokensLeft
  <2>3. CASE ask[s].op \in Issuing
    <3>1. s \in IssuingNow /\ NextToken \in Unissued
      BY <1>1, <2>3, NextIsNew DEF IssuingNow
    <3>2. Unissued' = Unissued \ {NextToken}
      <4>1. NewToken(ask[s]) # None
        BY <3>1, TokenFate, RecordsAssumption DEF Unissued
      <4> QED
        BY <1>3, <2>3, <3>1, <4>1, TokenFate DEF Unissued
    <3>3. Cardinality(IssuingNow \ {s}) = Cardinality(IssuingNow) - 1
      BY <2>1, <3>1, Finite, FS_RemoveElement
    <3>4. Cardinality(Unissued \ {NextToken}) = Cardinality(Unissued) - 1
      BY <2>1, <3>1, Finite, FS_RemoveElement
    <3> QED
      BY <1>2, <2>2, <3>2, <3>3, <3>4 DEF TokensLeft
  <2>4. CASE ask[s].op \notin Issuing
    <3>1. Unissued' = Unissued
      BY <1>3, <2>4, TokenFate DEF Unissued
    <3>2. IssuingNow \ {s} = IssuingNow
      BY <2>4 DEF IssuingNow
    <3> QED
      BY <1>2, <2>2, <3>1, <3>2 DEF TokensLeft
  <2> QED
    BY <2>3, <2>4
<1> QED
  BY <1>1, <1>4, <1>5, <1>6 DEF TypeInv

LEMMA BeginInv ==
  ASSUME TypeInv, NEW s \in Slots, Begin(s)
  PROVE  TypeInv'
<1>1. PICK a \in Ask :
        /\ a.op \in Issuing => TokenLeft
        /\ a.op \in Authorized => account[a.user] # None
        /\ Found(a)
        /\ ask' = [ask EXCEPT ![s] = a]
        /\ Goto(s, IF HasCheck(a) THEN "check" ELSE "apply")
        /\ seen' = [seen EXCEPT ![s] = AccountOf(a)]
        /\ listed' = [listed EXCEPT ![s] = TokensOf(a)]
        /\ mine' = [mine EXCEPT ![s] = IF a.op \in Ending
                                      THEN {t \in Stored : token[t].user = a.user /\
                                                            token[t].revoked = None} ELSE {}]
  BY DEF Begin
<1>2. at[s] = "idle" /\ UNCHANGED <<now, account, token, answered>> /\ AskOK(a)
  BY <1>1, AskFields DEF Begin
<1>3. overlapped' \subseteq Tokens
  BY DEF Begin, TypeInv, TypeOK
<1>4. TypeOK'
  <2>1. AccountOf(a) \in Account \cup {None} /\ TokensOf(a) \in SUBSET Tokens
    BY <1>2 DEF AccountOf, TokensOf, Live, Stored, TypeInv, TypeOK
  <2>2. mine' \in [Slots -> SUBSET Tokens]
    BY <1>1 DEF Stored, TypeInv, TypeOK
  <2> QED
    BY <1>1, <1>2, <1>3, <2>1, <2>2 DEF Goto, TypeInv, TypeOK
<1>5. There'
  BY <1>1, <1>2 DEF Goto, TypeInv, TypeOK, There
<1>6. InHand'
  <2>1. a.op = "refresh" => TokensOf(a) = {a.token} /\ token[a.token] # None
    BY <1>1 DEF Found, TokensOf, Stored
  <2> QED
    BY <1>1, <1>2, <2>1 DEF Goto, TypeInv, TypeOK, InHand
<1>7. TokensLeft'
  <2>1. Unissued' = Unissued
    BY <1>2 DEF Unissued
  <2>2. IssuingNow' = IF a.op \in Issuing THEN IssuingNow \cup {s} ELSE IssuingNow
    BY <1>1, <1>2 DEF IssuingNow, Running, Goto, TypeInv, TypeOK
  <2>3. IssuingNow \in SUBSET Slots /\ Unissued \in SUBSET Tokens /\ s \notin IssuingNow
    BY <1>2 DEF IssuingNow, Unissued, Running
  <2>4. Cardinality(IssuingNow \cup {s}) = Cardinality(IssuingNow) + 1
    BY <2>3, Finite, FS_AddElement
  <2>5. a.op \in Issuing => Cardinality(IssuingNow) < Cardinality(Unissued)
    BY <1>1 DEF TokenLeft, IssuingNow, Unissued
  <2> QED
    BY <2>1, <2>2, <2>3, <2>4, <2>5, Finite DEF TypeInv, TokensLeft
<1> QED
  BY <1>4, <1>5, <1>6, <1>7 DEF TypeInv

LEMMA CheckInv ==
  ASSUME TypeInv, NEW s \in Slots, Check(s), Passes(s)
  PROVE  TypeInv'
<1>1. /\ at[s] = "check" /\ at' = [at EXCEPT ![s] = "apply"]
      /\ listed' = IF ask[s].op = "withdraw" THEN [listed EXCEPT ![s] = Live(ask[s].user)]
                   ELSE listed
      /\ UNCHANGED <<now, account, token, ask, seen, mine, history>>
  BY DEF Check, Goto
<1>2. Live(ask[s].user) \in SUBSET Tokens
  BY DEF Live, Stored
<1>3. TypeOK'
  BY <1>1, <1>2 DEF TypeInv, TypeOK, history
<1>4. There' /\ InHand'
  BY <1>1 DEF TypeInv, TypeOK, There, InHand
<1>5. IssuingNow' = IssuingNow /\ Unissued' = Unissued
  BY <1>1 DEF IssuingNow, Running, Unissued, TypeInv, TypeOK
<1> QED
  BY <1>3, <1>4, <1>5 DEF TypeInv, TokensLeft

LEMMA TypeNext == TypeInv /\ [Next]_vars => TypeInv'
<1> SUFFICES ASSUME TypeInv, [Next]_vars PROVE TypeInv'
  OBVIOUS
<1>1. ASSUME NEW s \in Slots, Check(s) PROVE TypeInv'
  BY <1>1, CheckInv, RefuseInv DEF Check
<1>2. ASSUME NEW s \in Slots, FlushFails(s) \/ Crash(s) PROVE TypeInv'
  BY <1>2, RefuseInv DEF FlushFails, Crash
<1>3. CASE Cleanup
  <2>1. \A t \in Tokens : token'[t] = token[t] \/ (token'[t] = Gone /\ token[t] # None)
    BY <1>3 DEF Cleanup, Outdated, Stored
  <2>2. token' \in [Tokens -> Token \cup {None, Gone}]
    BY <1>3 DEF Cleanup, TypeInv, TypeOK
  <2>3. UNCHANGED <<now, account, session, history>>
    BY <1>3 DEF Cleanup
  <2>4. TypeOK' /\ There'
    BY <2>2, <2>3 DEF TypeInv, TypeOK, There, session, history
  <2>5. InHand'
    <3>1. \A r \in Slots : at[r] # "idle" /\ ask[r].op = "refresh" => ask[r].token \in Tokens
      BY AskFields DEF TypeInv, TypeOK
    <3> QED
      BY <2>1, <2>3, <3>1, RowsAssumption DEF TypeInv, InHand, session
  <2>6. Unissued' = Unissued /\ IssuingNow' = IssuingNow
    BY <2>1, <2>3, RowsAssumption DEF Unissued, IssuingNow, Running, session
  <2> QED
    BY <2>4, <2>5, <2>6 DEF TypeInv, TokensLeft
<1>4. CASE Tick
  BY <1>4, DayAssumption
     DEF Tick, Days, TypeInv, TypeOK, There, InHand, TokensLeft, IssuingNow, Running, Unissued,
         session, history
<1>5. CASE UNCHANGED vars
  BY <1>5 DEF vars, TypeInv, TypeOK, There, InHand, TokensLeft, IssuingNow, Running, Unissued,
              session, history
<1> QED
  BY <1>1, <1>2, <1>3, <1>4, <1>5, BeginInv, ApplyInv DEF Next, Serve

LEMMA TypeInit == Init => TypeInv
<1> SUFFICES ASSUME Init PROVE TypeInv
  OBVIOUS
<1>1. TypeOK /\ There /\ InHand
  BY DayAssumption DEF Init, TypeOK, There, InHand, Days
<1>2. IssuingNow = {}
  BY DEF Init, IssuingNow, Running
<1>3. Cardinality(Unissued) \in Nat
  BY Finite DEF Unissued
<1> QED
  BY <1>1, <1>2, <1>3, FS_EmptySet DEF TypeInv, TokensLeft

\* Every variable keeps its type. A flush never writes to an account that is not there.
THEOREM TypeCorrect == Spec => []TypeOK
<1>1. TypeInv => TypeOK
  BY DEF TypeInv
<1> QED
  BY <1>1, TypeInit, TypeNext, PTL DEF Spec

-----------------------------------------------------------------------------
(* Answers *)

Revoked(t) == token[t] = Gone \/ token[t].revoked # None

\* A token that bought an answer can buy no other.
Spent == \A t \in Tokens : answered[t] > 0 => token[t] # None /\ Revoked(t)

\* A refresh whose token no other had in hand is the only one with it, and the first.
Refreshes(s, t) == at[s] # "idle" /\ ask[s].op = "refresh" /\ ask[s].token = t

AloneWith ==
  \A s \in Slots : \A t \in Tokens : Refreshes(s, t) /\ t \notin overlapped =>
    answered[t] = 0 /\ \A r \in Slots : Refreshes(r, t) => r = s

AnswerInv == Spent /\ AloneWith /\ OneAnswerPerToken

\* What is revoked or gone stays so, and what is not yet issued is never revoked.
LEMMA RevokedStays ==
  ASSUME TypeInv, [Next]_vars, NEW t \in Tokens, token[t] # None, Revoked(t)
  PROVE  token'[t] # None /\ Revoked(t)'
<1>1. now \notin {None} /\ Gone # None
  BY RowsAssumption, NoneAssumption DEF TypeInv, TypeOK, Days
<1>2. ASSUME NEW s \in Slots, Apply(s) PROVE token'[t] # None /\ Revoked(t)'
  <2>1. t \in Stored => token[t] \in Token
    BY DEF Stored, TypeInv, TypeOK
  <2>2. t \in Stored => [token[t] EXCEPT !.revoked = now].revoked = now
    BY <2>1 DEF Token
  <2> QED
    BY <1>1, <1>2, <2>2, TokenFate DEF Revoked, Stored
<1>3. CASE Cleanup
  BY <1>1, <1>3 DEF Cleanup, Revoked
<1>4. CASE UNCHANGED token
  BY <1>4 DEF Revoked
<1> QED
  BY <1>2, <1>3, <1>4
     DEF Next, Serve, Begin, Check, FlushFails, Crash, Refuse, Tick, vars

LEMMA AnswerApply ==
  ASSUME TypeInv, AnswerInv, NEW s \in Slots, Apply(s)
  PROVE  AnswerInv'
<1>1. ask[s] \in Ask /\ at[s] = "apply" /\ overlapped' = overlapped
  BY DEF Apply, TypeInv, TypeOK
<1>2. /\ at'[s] = "idle"
      /\ \A r \in Slots \ {s} : at'[r] = at[r] /\ ask'[r] = ask[r]
  BY CloseFacts DEF Apply, TypeInv
<1>3. \A t \in Tokens : answered[t] \in Nat /\
        answered'[t] = IF ask[s].op = "refresh" /\ t = ask[s].token /\ answered[t] < 2
                       THEN answered[t] + 1 ELSE answered[t]
  BY DEF Apply, TypeInv, TypeOK
<1>4. [Next]_vars
  BY DEF Next, Serve
<1>5. \A t \in Tokens : answered'[t] > answered[t] => Refreshes(s, t)
  BY <1>1, <1>3 DEF Refreshes
<1>6. Spent'
  <2> SUFFICES ASSUME NEW t \in Tokens, answered'[t] > 0
               PROVE  token'[t] # None /\ Revoked(t)'
    BY DEF Spent
  <2>1. CASE answered[t] > 0
    BY <1>4, <2>1, RevokedStays DEF AnswerInv, Spent
  <2>2. CASE ~(answered[t] > 0)
    <3>1. Refreshes(s, t)
      BY <1>3, <1>5, <2>2
    <3>2. token[t] # None /\ listed[s] = {t}
      BY <3>1 DEF Refreshes, TypeInv, InHand
    <3>3. CASE t \in Stored
      <4>1. token'[t] = [token[t] EXCEPT !.revoked = now] /\ token[t] \in Token
        BY <3>2, <3>3, TokenFate DEF Stored, TypeInv, TypeOK
      <4>2. token'[t].revoked = now /\ now # None
        BY <4>1, NoneAssumption DEF Token, Days, TypeInv, TypeOK
      <4> QED
        BY <3>2, <4>2, TokenFate DEF Revoked
    <3>4. CASE t \notin Stored
      <4>1. token'[t] = token[t] /\ token[t] = Gone
        BY <3>2, <3>4, TokenFate DEF Stored
      <4> QED
        BY <3>2, <4>1 DEF Revoked
    <3> QED
      BY <3>3, <3>4
  <2> QED
    BY <2>1, <2>2
<1>7. OneAnswerPerToken'
  <2> SUFFICES ASSUME NEW t \in Tokens, answered'[t] > 1 PROVE t \in overlapped'
    BY DEF OneAnswerPerToken
  <2>1. CASE answered[t] > 1
    BY <1>1, <2>1 DEF AnswerInv, OneAnswerPerToken
  <2>2. CASE ~(answered[t] > 1)
    <3>1. Refreshes(s, t) /\ answered[t] # 0
      BY <1>3, <1>5, <2>2
    <3> QED
      BY <1>1, <3>1 DEF AnswerInv, AloneWith
  <2> QED
    BY <2>1, <2>2
<1>8. AloneWith'
  <2> SUFFICES ASSUME NEW q \in Slots, NEW t \in Tokens, Refreshes(q, t)', t \notin overlapped'
               PROVE  answered'[t] = 0 /\ \A r \in Slots : Refreshes(r, t)' => r = q
    BY DEF AloneWith
  <2>1. \A r \in Slots : Refreshes(r, t)' => r # s /\ Refreshes(r, t)
    BY <1>2 DEF Refreshes
  <2>2. answered[t] = 0 /\ \A r \in Slots : Refreshes(r, t) => r = q
    BY <1>1, <2>1 DEF AnswerInv, AloneWith
  <2>3. ~Refreshes(s, t)
    BY <2>1, <2>2
  <2>4. answered'[t] = 0
    BY <1>3, <1>5, <2>2, <2>3
  <2> QED
    BY <2>1, <2>2, <2>4
<1> QED
  BY <1>6, <1>7, <1>8 DEF AnswerInv

LEMMA AnswerBegin ==
  ASSUME TypeInv, AnswerInv, NEW s \in Slots, Begin(s)
  PROVE  AnswerInv'
<1>1. PICK a \in Ask :
        /\ Found(a)
        /\ ask' = [ask EXCEPT ![s] = a]
        /\ Goto(s, IF HasCheck(a) THEN "check" ELSE "apply")
        /\ overlapped' = overlapped \cup
             {t \in Tokens : a.op = "refresh" /\ a.token = t /\
                \E r \in Running : ask[r].op = "refresh" /\ ask[r].token = t}
  BY DEF Begin
<1>2. at[s] = "idle" /\ UNCHANGED <<token, answered>> /\ overlapped \subseteq overlapped'
  BY <1>1 DEF Begin
<1>3. Spent' /\ OneAnswerPerToken'
  BY <1>2 DEF AnswerInv, Spent, Revoked, OneAnswerPerToken
<1>4. \A t \in Tokens : Refreshes(s, t)' => /\ a.op = "refresh" /\ a.token = t
                                            /\ answered[t] \in Nat /\ ~(answered[t] > 0)
  BY <1>1 DEF Refreshes, Found, Revoked, Stored, AnswerInv, Spent, TypeInv, TypeOK
<1>5. \A r \in Slots \ {s} : \A t \in Tokens : Refreshes(r, t)' <=> Refreshes(r, t)
  BY <1>1 DEF Refreshes, Goto, TypeInv, TypeOK
<1>6. \A r \in Slots : \A t \in Tokens : Refreshes(s, t)' /\ Refreshes(r, t) => t \in overlapped'
  BY <1>1, <1>4 DEF Refreshes, Running
<1>7. ~\E t \in Tokens : Refreshes(s, t)
  BY <1>2 DEF Refreshes
<1>8. AloneWith'
  <2> SUFFICES ASSUME NEW q \in Slots, NEW t \in Tokens, Refreshes(q, t)', t \notin overlapped'
               PROVE  answered'[t] = 0 /\ \A r \in Slots : Refreshes(r, t)' => r = q
    BY DEF AloneWith
  <2>1. CASE q = s
    BY <1>2, <1>4, <1>5, <1>6, <2>1
  <2>2. CASE q # s
    <3>1. Refreshes(q, t) /\ t \notin overlapped
      BY <1>2, <1>5, <2>2
    <3>2. ~Refreshes(s, t)'
      BY <1>6, <3>1
    <3> QED
      BY <1>2, <1>5, <3>1, <3>2 DEF AnswerInv, AloneWith
  <2> QED
    BY <2>1, <2>2
<1> QED
  BY <1>3, <1>8 DEF AnswerInv

LEMMA AnswerNext == TypeInv /\ AnswerInv /\ [Next]_vars => AnswerInv'
<1> SUFFICES ASSUME TypeInv, AnswerInv, [Next]_vars PROVE AnswerInv'
  OBVIOUS
<1>1. ASSUME UNCHANGED <<answered, overlapped>>,
             \A s \in Slots : at'[s] # "idle" => at[s] # "idle" /\ ask'[s] = ask[s]
      PROVE  AnswerInv'
  <2>1. Spent'
    BY <1>1, RevokedStays DEF AnswerInv, Spent
  <2>2. AloneWith' /\ OneAnswerPerToken'
    BY <1>1 DEF AnswerInv, AloneWith, Refreshes, OneAnswerPerToken
  <2> QED
    BY <2>1, <2>2 DEF AnswerInv
<1>2. ASSUME NEW s \in Slots, Refuse(s) PROVE AnswerInv'
  BY <1>1, <1>2, CloseFacts DEF Refuse, TypeInv, history
<1>3. ASSUME NEW s \in Slots, Check(s) PROVE AnswerInv'
  BY <1>1, <1>2, <1>3 DEF Check, Goto, TypeInv, TypeOK, history
<1>4. ASSUME NEW s \in Slots, FlushFails(s) \/ Crash(s) PROVE AnswerInv'
  BY <1>2, <1>4 DEF FlushFails, Crash
<1>5. CASE Cleanup \/ Tick \/ UNCHANGED vars
  BY <1>1, <1>5 DEF Cleanup, Tick, vars, session, history
<1> QED
  BY <1>3, <1>4, <1>5, AnswerBegin, AnswerApply DEF Next, Serve

\* One answer for a refresh token, unless two refreshes had it in hand at once.
THEOREM TokensBuyOneAnswer == Spec => []OneAnswerPerToken
<1>1. Init => AnswerInv
  BY DEF Init, AnswerInv, Spent, AloneWith, Refreshes, OneAnswerPerToken
<1>2. AnswerInv => OneAnswerPerToken
  BY DEF AnswerInv
<1> QED
  BY <1>1, <1>2, TypeInit, TypeNext, AnswerNext, PTL DEF Spec

-----------------------------------------------------------------------------
(* Logouts and withdrawals *)

\* A logout, and a withdrawal that has listed the tokens, will revoke every token that
\* was usable when it came and is not revoked by then.
Ends(s) == at[s] # "idle" /\ ask[s].op \in Ending

Kept(s, t) == at[s] = "apply" \/ ask[s].op = "logout" => t \in listed[s] \/ Revoked(t)

EndInv ==
  \A s \in Slots : Ends(s) =>
    \A t \in mine[s] : /\ token[t] # None
                       /\ t \in Stored => token[t].user = ask[s].user
                       /\ Kept(s, t)

\* The owner of a token never changes.
LEMMA OwnerStays ==
  ASSUME TypeInv, [Next]_vars, NEW t \in Tokens, token[t] # None, t \in Stored'
  PROVE  t \in Stored /\ token'[t].user = token[t].user
<1>1. ASSUME NEW s \in Slots, Apply(s)
      PROVE  t \in Stored /\ token'[t].user = token[t].user
  <2>1. t \in Stored
    BY <1>1, TokenFate DEF Stored
  <2>2. [token[t] EXCEPT !.revoked = now].user = token[t].user
    BY <2>1 DEF Stored, Token, TypeInv, TypeOK
  <2> QED
    BY <1>1, <2>1, <2>2, TokenFate DEF Stored
<1>2. CASE Cleanup
  BY <1>2 DEF Cleanup, Stored
<1>3. CASE UNCHANGED token
  BY <1>3 DEF Stored
<1> QED
  BY <1>1, <1>2, <1>3
     DEF Next, Serve, Begin, Check, FlushFails, Crash, Refuse, Tick, vars

LEMMA EndNext == TypeInv /\ EndInv /\ [Next]_vars => EndInv'
<1> SUFFICES ASSUME TypeInv, EndInv, [Next]_vars PROVE EndInv'
  OBVIOUS
<1>1. \A s \in Slots : mine[s] \subseteq Tokens
  BY DEF TypeInv, TypeOK
<1>2. ASSUME NEW s \in Slots, Ends(s)', Ends(s), mine'[s] = mine[s], ask'[s] = ask[s],
             listed'[s] = listed[s], at'[s] = at[s], NEW t \in mine[s]
      PROVE  /\ token'[t] # None
             /\ t \in Stored' => token'[t].user = ask'[s].user
             /\ Kept(s, t)'
  <2>1. /\ t \in Tokens /\ token[t] # None /\ Kept(s, t)
        /\ t \in Stored => token[t].user = ask[s].user
    BY <1>1, <1>2 DEF EndInv
  <2>2. token'[t] # None
    <3>1. CASE Revoked(t)
      BY <2>1, <3>1, RevokedStays
    <3>2. CASE \E r \in Slots : Apply(r)
      BY <2>1, <3>2, TokenFate
    <3>3. CASE Cleanup
      BY <2>1, <3>3, RowsAssumption DEF Cleanup
    <3>4. CASE UNCHANGED token
      BY <2>1, <3>4
    <3> QED
      BY <3>2, <3>3, <3>4
         DEF Next, Serve, Begin, Check, FlushFails, Crash, Refuse, Tick, vars
  <2>3. t \in Stored' => token'[t].user = ask'[s].user
    BY <1>2, <2>1, OwnerStays
  <2>4. Kept(s, t)'
    BY <1>2, <2>1, RevokedStays DEF Kept
  <2> QED
    BY <2>2, <2>3, <2>4
<1>3. ASSUME \A s \in Slots : Ends(s)' =>
               /\ Ends(s) /\ mine'[s] = mine[s] /\ ask'[s] = ask[s]
               /\ listed'[s] = listed[s] /\ at'[s] = at[s]
      PROVE  EndInv'
  BY <1>2, <1>3 DEF EndInv
<1>4. ASSUME NEW s \in Slots, Close(s) PROVE EndInv'
  BY <1>3, <1>4, CloseFacts DEF TypeInv, Ends
<1>5. ASSUME NEW s \in Slots, Begin(s) PROVE EndInv'
  <2>1. PICK a \in Ask :
          /\ ask' = [ask EXCEPT ![s] = a]
          /\ Goto(s, IF HasCheck(a) THEN "check" ELSE "apply")
          /\ listed' = [listed EXCEPT ![s] = TokensOf(a)]
          /\ mine' = [mine EXCEPT ![s] = IF a.op \in Ending
                                        THEN {t \in Stored : token[t].user = a.user /\
                                                              token[t].revoked = None} ELSE {}]
    BY <1>5 DEF Begin
  <2>2. UNCHANGED token
    BY <1>5 DEF Begin
  <2>3. ASSUME NEW r \in Slots, r # s, Ends(r)', NEW t \in mine'[r]
        PROVE  token'[t] # None /\ (t \in Stored' => token'[t].user = ask'[r].user) /\ Kept(r, t)'
    <3>1. /\ Ends(r) /\ mine'[r] = mine[r] /\ ask'[r] = ask[r]
          /\ listed'[r] = listed[r] /\ at'[r] = at[r]
      BY <2>1, <2>3 DEF Ends, Goto, TypeInv, TypeOK
    <3> QED
      BY <1>2, <2>3, <3>1
  <2>4. ASSUME Ends(s)', NEW t \in mine'[s]
        PROVE  token'[t] # None /\ (t \in Stored' => token'[t].user = ask'[s].user) /\ Kept(s, t)'
    <3>1. /\ ask'[s] = a /\ a.op \in Ending
          /\ t \in Stored /\ token[t].user = a.user /\ token[t].revoked = None
      BY <2>1, <2>4 DEF Ends, TypeInv, TypeOK
    <3>2. at'[s] = "apply" \/ a.op = "logout" => t \in listed'[s]
      BY <2>1, <3>1 DEF Goto, HasCheck, TokensOf, Live, TypeInv, TypeOK
    <3> QED
      BY <2>2, <3>1, <3>2 DEF Stored, Kept
  <2> QED
    BY <2>3, <2>4 DEF EndInv
<1>6. ASSUME NEW s \in Slots, Check(s), Passes(s) PROVE EndInv'
  <2>1. /\ at[s] = "check" /\ at' = [at EXCEPT ![s] = "apply"]
        /\ listed' = IF ask[s].op = "withdraw" THEN [listed EXCEPT ![s] = Live(ask[s].user)]
                     ELSE listed
        /\ UNCHANGED <<token, ask, mine>>
    BY <1>6 DEF Check, Goto
  <2>2. ASSUME NEW r \in Slots, r # s, Ends(r)', NEW t \in mine'[r]
        PROVE  token'[t] # None /\ (t \in Stored' => token'[t].user = ask'[r].user) /\ Kept(r, t)'
    <3>1. /\ Ends(r) /\ mine'[r] = mine[r] /\ ask'[r] = ask[r]
          /\ listed'[r] = listed[r] /\ at'[r] = at[r]
      BY <2>1, <2>2 DEF Ends, TypeInv, TypeOK
    <3> QED
      BY <1>2, <2>2, <3>1
  <2>3. ASSUME Ends(s)', NEW t \in mine'[s]
        PROVE  token'[t] # None /\ (t \in Stored' => token'[t].user = ask'[s].user) /\ Kept(s, t)'
    <3>1. /\ Ends(s) /\ t \in mine[s] /\ t \in Tokens /\ token[t] # None
          /\ t \in Stored => token[t].user = ask[s].user
      BY <1>1, <2>1, <2>3 DEF EndInv, Ends
    <3>2. CASE ask[s].op = "logout"
      BY <2>1, <3>1, <3>2 DEF EndInv, Ends, Kept, Revoked, Stored
    <3>3. CASE ask[s].op = "withdraw"
      <4>1. listed'[s] = Live(ask[s].user)
        BY <2>1, <3>3 DEF TypeInv, TypeOK
      <4> QED
        BY <2>1, <3>1, <4>1 DEF Live, Stored, Kept, Revoked
    <3> QED
      BY <3>1, <3>2, <3>3 DEF Ends
  <2> QED
    BY <2>2, <2>3 DEF EndInv
<1>7. ASSUME NEW s \in Slots, Check(s) PROVE EndInv'
  BY <1>4, <1>6, <1>7 DEF Check, Refuse
<1>8. ASSUME NEW s \in Slots, Apply(s) \/ FlushFails(s) \/ Crash(s) PROVE EndInv'
  BY <1>4, <1>8 DEF Apply, FlushFails, Crash, Refuse
<1>9. CASE Cleanup \/ Tick \/ UNCHANGED vars
  BY <1>3, <1>9 DEF Cleanup, Tick, vars, session, Ends
<1> QED
  BY <1>5, <1>7, <1>8, <1>9 DEF Next, Serve

\* The tokens an account had when its logout or withdrawal came are revoked or deleted
\* when that is committed; and what is revoked stays so.
THEOREM SessionsEnd == Spec => LogoutEndsSessions
<1>1. Init => EndInv
  BY DEF Init, EndInv, Ends
<1>2. ASSUME TypeInv, EndInv, [Next]_vars
      PROVE  /\ \A op \in Ending, s \in Slots :
                  Commits(s, op) => \A t \in mine[s] \cap Stored' : token'[t].revoked # None
             /\ \A t \in Stored \cap Stored' :
                  token[t].revoked # None => token'[t].revoked # None
  <2>1. ASSUME NEW t \in Stored \cap Stored', token[t].revoked # None
        PROVE  token'[t].revoked # None
    BY <1>2, <2>1, RevokedStays DEF Stored, Revoked
  <2>2. ASSUME NEW op \in Ending, NEW s \in Slots, Commits(s, op), NEW t \in mine[s] \cap Stored'
        PROVE  token'[t].revoked # None
    <3>1. Apply(s) /\ at[s] = "apply" /\ Ends(s) /\ t \in Tokens
      BY <1>2, <2>2 DEF Commits, Apply, Ends, TypeInv, TypeOK
    <3>2. token[t] # None /\ (t \in listed[s] \/ Revoked(t))
      BY <1>2, <2>2, <3>1 DEF EndInv, Kept
    <3>3. CASE Revoked(t)
      BY <1>2, <2>2, <3>1, <3>2, <3>3, RevokedStays DEF Revoked, Stored
    <3>4. CASE t \in listed[s]
      <4>1. t \in Stored
        BY <1>2, <2>2, <3>1, <3>2, OwnerStays
      <4>2. token'[t] = [token[t] EXCEPT !.revoked = now] /\ token[t] \in Token
        BY <1>2, <3>1, <3>2, <3>4, <4>1, TokenFate DEF Stored, TypeInv, TypeOK
      <4> QED
        BY <1>2, <4>2, NoneAssumption DEF Token, Days, TypeInv, TypeOK
    <3> QED
      BY <3>2, <3>3, <3>4
  <2> QED
    BY <2>1, <2>2
<1>3. TypeInv /\ EndInv /\ [Next]_vars =>
        [/\ \A op \in Ending, s \in Slots :
              Commits(s, op) => \A t \in mine[s] \cap Stored' : token'[t].revoked # None
         /\ \A t \in Stored \cap Stored' :
              token[t].revoked # None => token'[t].revoked # None]_vars
  BY <1>2
<1> QED
  BY <1>1, <1>3, TypeInit, TypeNext, EndNext, PTL DEF Spec, LogoutEndsSessions

-----------------------------------------------------------------------------
(* Columns *)

\* A flush on an account that is there.
LEMMA FlushKeeps ==
  ASSUME TypeInv, NEW s \in Slots, Apply(s), account[ask[s].user] # None
  PROVE  LET old == account[ask[s].user]
             new == Flushed(s)
         IN /\ new # None
            /\ old.withdrawn => new.withdrawn
            /\ new.password # old.password => ask[s].op = "change_password"
            /\ new.nickname # old.nickname => ask[s].op = "update_me"
<1> DEFINE row == account[ask[s].user]
<1>1. ask[s] \in Ask /\ row \in Account /\ CanFlush(s)
  BY AskFields DEF Apply, TypeInv, TypeOK
<1>2. ask[s].op # "register" /\ ~(ask[s].op = "social_login" /\ seen[s] = None)
  BY <1>1 DEF CanFlush
<1>3. Flushed(s) # None
  BY FlushedType, RecordsAssumption
<1>4. CASE ask[s].op = "withdraw"
  BY <1>1, <1>3, <1>4 DEF Flushed, Account
<1>5. CASE ask[s].op = "change_password"
  BY <1>1, <1>3, <1>5 DEF Flushed, Account
<1>6. CASE ask[s].op = "update_me"
  BY <1>1, <1>3, <1>6 DEF Flushed, Account
<1>7. CASE ask[s].op \in {"login", "social_login", "refresh", "logout"}
  BY <1>1, <1>2, <1>3, <1>7 DEF Flushed
<1> QED
  BY <1>1, <1>2, <1>4, <1>5, <1>6, <1>7, AskFields

\* No request undoes what an overlapping one did to the account.
THEOREM ColumnsAreKept == Spec => ColumnsKept
<1>1. ASSUME TypeInv, [Next]_vars, NEW u \in Users, account[u] # None
      PROVE  /\ account'[u] # None
             /\ account[u].withdrawn => account'[u].withdrawn
             /\ account'[u].password # account[u].password =>
                  \E s \in Slots : Commits(s, "change_password") /\ ask[s].user = u
             /\ account'[u].nickname # account[u].nickname =>
                  \E s \in Slots : Commits(s, "update_me") /\ ask[s].user = u
  <2>1. CASE account'[u] = account[u]
    BY <1>1, <2>1
  <2>2. CASE account'[u] # account[u]
    <3>1. PICK s \in Slots : Apply(s)
      BY <1>1, <2>2
         DEF Next, Serve, Begin, Check, FlushFails, Crash, Refuse, Cleanup, Tick, vars
    <3>2. u = ask[s].user /\ account'[u] = Flushed(s) /\ at'[s] = "idle"
      BY <1>1, <2>2, <3>1, CloseFacts DEF Apply, TypeInv, TypeOK
    <3> QED
      BY <1>1, <3>1, <3>2, FlushKeeps DEF Commits
  <2> QED
    BY <2>1, <2>2
<1>2. TypeInv /\ [Next]_vars =>
        [\A u \in Users : account[u] # None =>
           /\ account'[u] # None
           /\ account[u].withdrawn => account'[u].withdrawn
           /\ account'[u].password # account[u].password =>
                \E s \in Slots : Commits(s, "change_password") /\ ask[s].user = u
           /\ account'[u].nickname # account[u].nickname =>
                \E s \in Slots : Commits(s, "update_me") /\ ask[s].user = u]_vars
  BY <1>1
<1> QED
  BY <1>2, TypeInit, TypeNext, PTL DEF Spec, ColumnsKept
============================================================================
