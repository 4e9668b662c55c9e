------------------------ MODULE AccountServiceProofs ------------------------
(***************************************************************************)
(* For any number of accounts, tokens, requests and failures: usernames    *)
(* and addresses stay unique, tokens are used once and for what they were  *)
(* made, and AccountService implements AccountPromise.                     *)
(***************************************************************************)
EXTENDS AccountService, TLAPS

\* The empty database satisfies the invariant.
LEMMA InitInv == Init => AccountInv
  <1> SUFFICES ASSUME Init PROVE AccountInv
    OBVIOUS
  <1> USE DEF Init
  <1>1. TypeOK
    <2>1. Idle \in Request
      BY DEF Request, Idle, Point
    <2>2. faults \in 0 .. MaxFaults
      BY AccountAssumption
    <2> QED
      BY <2>1, <2>2 DEF TypeOK
  <1>2. RowsSound /\ OneAccountEach
    BY DEF RowsSound, OneAccountEach, Row
  <1>3. TokensSound /\ SingleUse /\ SpentIsHonoured /\ RegisteredCanVerify
    BY DEF TokensSound, SingleUse, SpentIsHonoured, RegisteredCanVerify, Effecting, Idle
  <1>4. \A r \in Requests : RequestSound(req[r])
    BY DEF RequestSound, Idle
  <1> QED
    BY <1>1, <1>2, <1>3, <1>4 DEF AccountInv

\* What every step of a request needs of it.
LEMMA ReqFacts ==
  ASSUME AccountInv, NEW r \in Requests
  PROVE  /\ req[r] \in Request
         /\ req[r].at \in Point
         /\ req[r].name \in Names \cup {None} /\ req[r].email \in Emails \cup {None}
         /\ req[r].password \in Passwords \cup {None}
         /\ req[r].account \in Accounts \cup {None}
         /\ req[r].purpose \in Purpose \cup {"none"}
         /\ req[r].token \in Tokens \cup {None}
         /\ RequestSound(req[r])
  BY DEF AccountInv, TypeOK, Request

\* What a token was made for.
LEMMA LinkFacts ==
  ASSUME AccountInv, NEW k \in Tokens, link[k] # NoLink
  PROVE  /\ link[k] \in Link
         /\ link[k].purpose \in Purpose /\ link[k].account \in Accounts
         /\ Row(link[k].account)
  BY DEF AccountInv, TypeOK, Link, TokensSound

-----------------------------------------------------------------------------
(* Types *)

\* Every step keeps the types.
LEMMA TypeStep == AccountInv /\ [Next]_vars => TypeOK'
  <1> SUFFICES ASSUME AccountInv, [Next]_vars PROVE TypeOK'
    OBVIOUS
  <1> USE DEF TypeOK, tenants, tokens
  <1>0. TypeOK /\ Idle \in Request
    BY DEF AccountInv, Request, Idle, Point
  <1>1. ASSUME NEW r \in Requests, Arrive(r) PROVE TypeOK'
    <2>1. ASSUME NEW n \in Names, NEW e \in Emails, NEW p \in Passwords, RegisterName(r, n, e, p)
          PROVE  TypeOK'
      <3>1. req' \in [Requests -> Request]
        BY <1>0, <2>1 DEF RegisterName, Start, Request, Idle, Point
      <3>2. faults' \in 0 .. MaxFaults
        BY <1>0, <2>1, AccountAssumption DEF RegisterName, LooksFree, Fault
      <3> QED
        BY <1>0, <2>1, <3>1, <3>2 DEF RegisterName
    <2>2. ASSUME NEW e \in Emails, Forgot(r, e) PROVE TypeOK'
      <3> PICK a \in Accounts : Start(r, [Idle EXCEPT !.at = "make_token", !.account = a,
                                                     !.purpose = "reset_password"])
        BY <2>2 DEF Forgot
      <3>1. req' \in [Requests -> Request]
        BY <1>0 DEF Start, Request, Idle, Point, Purpose
      <3> QED
        BY <1>0, <2>2, <3>1 DEF Forgot
    <2>3. ASSUME NEW k \in Tokens, VerifyConsume(r, k) PROVE TypeOK'
      <3>1. link[k] # NoLink
        BY <2>3 DEF VerifyConsume, Consumable, NoLink
      <3>2. req' \in [Requests -> Request]
        BY <1>0, <2>3, <3>1, LinkFacts DEF VerifyConsume, Consume, Start, Request, Idle, Point
      <3> QED
        BY <1>0, <2>3, <3>2 DEF VerifyConsume, Consume
    <2>4. ASSUME NEW k \in Tokens, NEW p \in Passwords \cup {TooShort}, ResetConsume(r, k, p)
          PROVE  TypeOK'
      <3>1. link[k] # NoLink
        BY <2>4 DEF ResetConsume, Consumable, NoLink
      <3>2. req' \in [Requests -> Request]
        BY <1>0, <2>4, <3>1, LinkFacts DEF ResetConsume, Consume, Start, Request, Idle, Point
      <3> QED
        BY <1>0, <2>4, <3>2 DEF ResetConsume, Consume
    <2>5. ASSUME NEW a \in Accounts, NEW p \in Passwords \cup {TooShort}, ChangeRead(r, a, p)
          PROVE  TypeOK'
      BY <1>0, <2>5 DEF ChangeRead, Start, Request, Idle, Point
    <2> QED
      BY <1>1, <2>1, <2>2, <2>3, <2>4, <2>5 DEF Arrive
  <1>2. ASSUME NEW r \in Requests, Step(r) PROVE TypeOK'
    <2>0. /\ req[r] \in Request /\ RequestSound(req[r])
          /\ req[r].at \in Point
          /\ \A point \in Point : [req EXCEPT ![r].at = point] \in [Requests -> Request]
          /\ [req EXCEPT ![r] = Idle] \in [Requests -> Request]
      BY <1>0, ReqFacts DEF Request
    <2>1. CASE RegisterEmail(r)
      <3>1. req' \in [Requests -> Request]
        BY <2>0, <2>1 DEF RegisterEmail, Goto, Finish, Point
      <3>2. faults' \in 0 .. MaxFaults
        BY <1>0, <2>1, AccountAssumption DEF RegisterEmail, LooksFree, Fault
      <3> QED
        BY <1>0, <2>1, <3>1, <3>2 DEF RegisterEmail
    <2>2. ASSUME NEW a \in Accounts, RegisterInsert(r, a) PROVE TypeOK'
      <3>1. req[r].name \in Names /\ req[r].email \in Emails /\ req[r].password \in Passwords
        BY <2>0, <2>2 DEF RegisterInsert, At, RequestSound
      <3>2. req' \in [Requests -> Request]
        <4>1. [Idle EXCEPT !.at = "make_token", !.account = a, !.purpose = "verify_email"]
                \in Request
          BY DEF Request, Idle, Point, Purpose
        <4> QED
          BY <1>0, <2>0, <2>2, <4>1 DEF RegisterInsert, Finish
      <3> QED
        BY <1>0, <2>2, <3>1, <3>2 DEF RegisterInsert
    <2>3. ASSUME NEW k \in Tokens, MakeToken(r, k) PROVE TypeOK'
      <3>1. req[r].account \in Accounts /\ req[r].purpose \in Purpose
        BY <2>0, <2>3 DEF MakeToken, At, RequestSound
      <3>2. req' \in [Requests -> Request]
        <4>1. [req[r] EXCEPT !.at = "send_mail", !.token = k] \in Request
          BY <2>0 DEF Request, Point
        <4> QED
          BY <1>0, <2>3, <4>1 DEF MakeToken
      <3> QED
        BY <1>0, <2>3, <3>1, <3>2 DEF MakeToken, Link
    <2>4. CASE SendMail(r)
      <3>1. req[r].account \in Accounts /\ req[r].token \in Tokens
        BY <2>0, <2>4 DEF SendMail, At, RequestSound
      <3> QED
        BY <1>0, <2>0, <2>4, <3>1 DEF SendMail, Finish
    <2>5. CASE VerifyMark(r)
      <3>1. req[r].token \in Tokens /\ req[r].account \in Accounts
        <4>1. req[r].token \in spent /\ link[req[r].token].purpose = "verify_email"
              /\ link[req[r].token].account = req[r].account
          BY <2>0, <2>5 DEF VerifyMark, At, RequestSound
        <4> QED
          BY <1>0, <4>1, LinkFacts DEF NoLink
      <3>2. honoured' \in [Tokens -> Nat]
        BY <1>0, <2>5, <3>1 DEF VerifyMark
      <3> QED
        BY <1>0, <2>0, <2>5, <3>1, <3>2 DEF VerifyMark, Finish
    <2>6. CASE ResetWrite(r)
      <3>1. req[r].token \in Tokens /\ req[r].account \in Accounts
            /\ req[r].password \in Passwords
        <4>1. req[r].token \in spent /\ link[req[r].token].purpose = "reset_password"
              /\ link[req[r].token].account = req[r].account /\ req[r].password \in Passwords
          BY <2>0, <2>6 DEF ResetWrite, At, RequestSound
        <4> QED
          BY <1>0, <4>1, LinkFacts DEF NoLink
      <3>2. honoured' \in [Tokens -> Nat]
        BY <1>0, <2>6, <3>1 DEF ResetWrite
      <3> QED
        BY <1>0, <2>0, <2>6, <3>1, <3>2 DEF ResetWrite, UpdatePassword, Finish
    <2>7. CASE ChangeWrite(r)
      <3>1. req[r].account \in Accounts /\ req[r].password \in Passwords
        BY <2>0, <2>7 DEF ChangeWrite, At, RequestSound
      <3> QED
        BY <1>0, <2>0, <2>7, <3>1 DEF ChangeWrite, UpdatePassword, Finish
    <2>8. CASE CutOff(r)
      <3>1. faults' \in 0 .. MaxFaults
        BY <1>0, <2>8, AccountAssumption DEF CutOff, Fault
      <3> QED
        BY <1>0, <2>0, <2>8, <3>1 DEF CutOff, Finish
    <2> QED
      BY <1>2, <2>1, <2>2, <2>3, <2>4, <2>5, <2>6, <2>7, <2>8 DEF Step
  <1>3. ASSUME NEW k \in Tokens, Expire(k) PROVE TypeOK'
    BY <1>0, <1>3 DEF Expire
  <1>4. CASE UNCHANGED vars
    BY <1>0, <1>4 DEF vars
  <1> QED
    BY <1>1, <1>2, <1>3, <1>4 DEF Next

-----------------------------------------------------------------------------
(* Rows *)

\* A step writes no row but the one it registers, and no password but one.
LEMMA RowsStep == AccountInv /\ [Next]_vars => RowsSound' /\ OneAccountEach'
  <1> SUFFICES ASSUME AccountInv, [Next]_vars PROVE RowsSound' /\ OneAccountEach'
    OBVIOUS
  <1>0. TypeOK /\ RowsSound /\ OneAccountEach
    BY DEF AccountInv
  <1>1. CASE UNCHANGED <<username, email, password>>
    BY <1>0, <1>1 DEF RowsSound, OneAccountEach, Row
  <1>2. ASSUME NEW a \in Accounts, NEW p \in Passwords, Row(a), UpdatePassword(a, p),
               UNCHANGED <<username, email>>
        PROVE  RowsSound' /\ OneAccountEach'
    <2>1. OneAccountEach'
      BY <1>0, <1>2 DEF OneAccountEach, Row
    <2>2. p # None
      BY AccountAssumption
    <2> QED
      BY <1>0, <1>2, <2>1, <2>2 DEF RowsSound, TypeOK, Row, UpdatePassword
  <1>3. ASSUME NEW r \in Requests, NEW a \in Accounts, RegisterInsert(r, a)
        PROVE  RowsSound' /\ OneAccountEach'
    <2>1. CASE ~Insertable(req[r].name, req[r].email)
      BY <1>1, <1>3, <2>1 DEF RegisterInsert
    <2>2. CASE Insertable(req[r].name, req[r].email)
      <3>1. /\ req[r].name # None /\ req[r].email # None /\ req[r].password # None
        <4>1. req[r].at = "reg_insert"
          BY <1>3 DEF RegisterInsert, At
        <4>2. req[r].name \in Names /\ req[r].email \in Emails /\ req[r].password \in Passwords
          BY <4>1, ReqFacts DEF RequestSound
        <4> QED
          BY <4>2, AccountAssumption
      <3>2. /\ username' = [username EXCEPT ![a] = req[r].name]
            /\ email'    = [email EXCEPT ![a] = req[r].email]
            /\ password' = [password EXCEPT ![a] = req[r].password]
        BY <1>3, <2>2 DEF RegisterInsert
      <3>3. RowsSound'
        BY <1>0, <3>1, <3>2 DEF RowsSound, TypeOK, Row
      <3>4. OneAccountEach'
        BY <1>0, <2>2, <3>1, <3>2
           DEF OneAccountEach, TypeOK, Row, Insertable, NameTaken, EmailTaken
      <3> QED
        BY <3>3, <3>4
    <2> QED
      BY <2>1, <2>2
  <1>4. ASSUME NEW r \in Requests, ResetWrite(r) PROVE RowsSound' /\ OneAccountEach'
    <2>1. /\ req[r].token \in spent /\ link[req[r].token].account = req[r].account
          /\ req[r].password \in Passwords
      BY <1>4, ReqFacts DEF ResetWrite, At, RequestSound
    <2>2. req[r].token \in Tokens /\ link[req[r].token] # NoLink
      BY <1>0, <2>1 DEF AccountInv, TypeOK, TokensSound
    <2>3. req[r].account \in Accounts /\ Row(req[r].account)
      BY <2>1, <2>2, LinkFacts
    <2> QED
      BY <1>2, <1>4, <2>1, <2>3 DEF ResetWrite
  <1>5. ASSUME NEW r \in Requests, ChangeWrite(r) PROVE RowsSound' /\ OneAccountEach'
    <2>1. /\ req[r].account \in Accounts /\ Row(req[r].account)
          /\ req[r].password \in Passwords
      BY <1>5, ReqFacts DEF ChangeWrite, At, RequestSound
    <2> QED
      BY <1>2, <1>5, <2>1 DEF ChangeWrite
  <1>6. ASSUME NEW r \in Requests, Arrive(r) PROVE UNCHANGED <<username, email, password>>
    BY <1>6 DEF Arrive, RegisterName, Forgot, VerifyConsume, ResetConsume, ChangeRead,
                Consume, tenants
  <1>7. ASSUME NEW r \in Requests, Step(r) PROVE RowsSound' /\ OneAccountEach'
    <2>1. CASE RegisterEmail(r) \/ SendMail(r) \/ VerifyMark(r) \/ CutOff(r)
               \/ \E k \in Tokens : MakeToken(r, k)
      BY <1>1, <2>1 DEF RegisterEmail, SendMail, VerifyMark, CutOff, MakeToken, tenants
    <2> QED
      BY <1>3, <1>4, <1>5, <1>7, <2>1 DEF Step
  <1>8. ASSUME NEW k \in Tokens, Expire(k) PROVE UNCHANGED <<username, email, password>>
    BY <1>8 DEF Expire, tenants
  <1>9. CASE UNCHANGED vars
    BY <1>1, <1>9 DEF vars, tenants
  <1> QED
    BY <1>1, <1>6, <1>7, <1>8, <1>9 DEF Next

\* Accounts and tokens are never taken back, and a token keeps what it is for.
LEMMA Lasting ==
  ASSUME AccountInv, [Next]_vars
  PROVE  /\ \A a \in Accounts : Row(a) => Row(a)'
         /\ \A k \in Tokens : link[k] # NoLink => link'[k] = link[k]
         /\ spent \subseteq spent' /\ mailbox \subseteq mailbox'
  <1>0. TypeOK
    BY DEF AccountInv
  <1>1. CASE UNCHANGED <<username, link, spent, mailbox>>
    BY <1>1 DEF Row
  <1>2. ASSUME NEW r \in Requests, NEW a \in Accounts, RegisterInsert(r, a)
        PROVE  /\ UNCHANGED <<link, spent, mailbox>>
               /\ \A b \in Accounts : Row(b) => Row(b)'
    BY <1>0, <1>2 DEF RegisterInsert, tokens, TypeOK, Row
  <1>3. ASSUME NEW r \in Requests, NEW k \in Tokens, MakeToken(r, k)
        PROVE  /\ UNCHANGED <<username, spent, mailbox>>
               /\ \A t \in Tokens : link[t] # NoLink => link'[t] = link[t]
    BY <1>0, <1>3 DEF MakeToken, tenants, TypeOK
  <1>4. ASSUME NEW r \in Requests, SendMail(r)
        PROVE  UNCHANGED <<username, link, spent>> /\ mailbox \subseteq mailbox'
    BY <1>4 DEF SendMail, tenants
  <1>5. ASSUME NEW r \in Requests, Arrive(r)
        PROVE  UNCHANGED <<username, link, mailbox>> /\ spent \subseteq spent'
    BY <1>5 DEF Arrive, RegisterName, Forgot, VerifyConsume, ResetConsume, ChangeRead,
                Consume, tenants, tokens
  <1>6. ASSUME NEW r \in Requests,
               RegisterEmail(r) \/ VerifyMark(r) \/ ResetWrite(r) \/ ChangeWrite(r) \/ CutOff(r)
        PROVE  UNCHANGED <<username, link, spent, mailbox>>
    BY <1>6 DEF RegisterEmail, VerifyMark, ResetWrite, ChangeWrite, CutOff, tenants, tokens
  <1>7. ASSUME NEW k \in Tokens, Expire(k) PROVE UNCHANGED <<username, link, spent, mailbox>>
    BY <1>7 DEF Expire, tenants
  <1>8. CASE UNCHANGED vars
    BY <1>1, <1>8 DEF vars, tenants, tokens
  <1> QED
    BY <1>1, <1>2, <1>3, <1>4, <1>5, <1>6, <1>7, <1>8 DEF Next, Step, Row

-----------------------------------------------------------------------------
(* What a step does to the tokens in use *)

\* A request takes a token that nobody has used.
Takes(r, k) ==
  /\ k \notin spent /\ link[k] # NoLink
  /\ spent' = spent \cup {k}
  /\ honoured' = honoured /\ faults' = faults
  /\ \A s \in Requests, t \in Tokens :
        Effecting(s, t)' <=> Effecting(s, t) \/ (s = r /\ t = k)

\* A request gives the token it has taken its effect.
Honours(r, k) ==
  /\ Effecting(r, k) /\ k \in spent /\ honoured[k] = 0
  /\ honoured' = [honoured EXCEPT ![k] = 1]
  /\ spent' = spent /\ faults' = faults
  /\ \A s \in Requests, t \in Tokens :
        Effecting(s, t)' <=> Effecting(s, t) /\ s # r

\* No token is taken or has its effect; only a failure makes a request drop one.
LeavesTokens ==
  /\ spent' = spent /\ honoured' = honoured
  /\ faults' = 0 => faults = 0
  /\ \A s \in Requests, t \in Tokens : Effecting(s, t)' => Effecting(s, t)
  /\ faults' = 0 => \A s \in Requests, t \in Tokens : Effecting(s, t) => Effecting(s, t)'

\* A token that was taken was made for an account.
LEMMA EffectingFacts ==
  ASSUME AccountInv, NEW r \in Requests, req[r].at \in {"reset_write", "verify_mark"}
  PROVE  /\ req[r].token \in Tokens /\ req[r].token \in spent
         /\ honoured[req[r].token] = 0
         /\ link[req[r].token] # NoLink
         /\ link[req[r].token].account = req[r].account
         /\ req[r].account \in Accounts /\ Row(req[r].account)
  <1>1. /\ req[r].token \in spent /\ honoured[req[r].token] = 0
        /\ link[req[r].token].account = req[r].account
    BY ReqFacts DEF RequestSound
  <1>2. req[r].token \in Tokens
    BY <1>1 DEF AccountInv, TypeOK
  <1>3. link[req[r].token] # NoLink
    BY <1>1, <1>2 DEF AccountInv, TokensSound
  <1> QED
    BY <1>1, <1>2, <1>3, LinkFacts

\* A request that starts or goes on without a token takes none.
LEMMA Tokenless ==
  ASSUME AccountInv, NEW r \in Requests, NEW q, req' = [req EXCEPT ![r] = q],
         req[r].at \notin {"reset_write", "verify_mark"},
         q.at \notin {"reset_write", "verify_mark"}
  PROVE  \A s \in Requests, t \in Tokens : Effecting(s, t)' <=> Effecting(s, t)
  BY DEF Effecting, AccountInv, TypeOK

\* Every step takes a token, gives one its effect, or does neither.
LEMMA TokenUse ==
  ASSUME AccountInv, [Next]_vars
  PROVE  \/ \E r \in Requests, k \in Tokens : Takes(r, k) \/ Honours(r, k)
         \/ LeavesTokens
  <1>0. TypeOK
    BY DEF AccountInv
  <1>f. faults \in Nat
    BY <1>0, AccountAssumption DEF TypeOK
  <1> DEFINE Same == \A s \in Requests, t \in Tokens : Effecting(s, t)' <=> Effecting(s, t)
  <1>1. ASSUME spent' = spent, honoured' = honoured, faults' = faults \/ Fault, Same
        PROVE  LeavesTokens
    BY <1>f, <1>1 DEF LeavesTokens, Fault
  <1>2. ASSUME NEW r \in Requests, Arrive(r)
        PROVE  LeavesTokens \/ \E k \in Tokens : Takes(r, k)
    <2>0. req[r].at = "idle"
      BY <1>2 DEF Arrive, RegisterName, Forgot, VerifyConsume, ResetConsume, ChangeRead,
                  Consume, Start, At
    <2>1. ASSUME NEW n \in Names, NEW e \in Emails, NEW p \in Passwords, RegisterName(r, n, e, p)
          PROVE  LeavesTokens
      <3>1. Same
        BY <2>0, <2>1, Tokenless DEF RegisterName, Start, Idle
      <3> QED
        BY <1>1, <2>1, <3>1 DEF RegisterName, LooksFree, tokens
    <2>2. ASSUME NEW e \in Emails, Forgot(r, e) PROVE LeavesTokens
      <3>1. Same
        <4> PICK a \in Accounts : Start(r, [Idle EXCEPT !.at = "make_token", !.account = a,
                                                       !.purpose = "reset_password"])
          BY <2>2 DEF Forgot
        <4> QED
          BY <2>0, Tokenless DEF Start, Idle
      <3> QED
        BY <1>1, <2>2, <3>1 DEF Forgot, tokens
    <2>3. ASSUME NEW a \in Accounts, NEW p \in Passwords \cup {TooShort}, ChangeRead(r, a, p)
          PROVE  LeavesTokens
      <3>1. Same
        BY <2>0, <2>3, Tokenless DEF ChangeRead, Start, Idle
      <3> QED
        BY <1>1, <2>3, <3>1 DEF ChangeRead, tokens
    <2>4. ASSUME NEW k \in Tokens, NEW point \in {"reset_write", "verify_mark"}, NEW p,
                 NEW purpose \in Purpose, Consumable(k, purpose), Consume(r, k, point, p)
          PROVE  Takes(r, k)
      <3>1. link[k] # NoLink
        BY <2>4 DEF Consumable, NoLink, Purpose
      <3>2. \A s \in Requests, t \in Tokens :
               Effecting(s, t)' <=> Effecting(s, t) \/ (s = r /\ t = k)
        BY <1>0, <2>0, <2>4 DEF Consume, Start, Idle, Effecting, TypeOK
      <3> QED
        BY <2>4, <3>1, <3>2 DEF Takes, Consume, Consumable
    <2>5. ASSUME NEW k \in Tokens, VerifyConsume(r, k) PROVE Takes(r, k)
      BY <2>4, <2>5 DEF VerifyConsume, Purpose
    <2>6. ASSUME NEW k \in Tokens, NEW p \in Passwords \cup {TooShort}, ResetConsume(r, k, p)
          PROVE  Takes(r, k)
      BY <2>4, <2>6 DEF ResetConsume, Purpose
    <2> QED
      BY <1>2, <2>1, <2>2, <2>3, <2>5, <2>6 DEF Arrive
  <1>3. ASSUME NEW r \in Requests, Step(r)
        PROVE  LeavesTokens \/ \E k \in Tokens : Honours(r, k)
    <2>1. CASE RegisterEmail(r)
      <3>1. Same
        <4>1. req[r].at = "reg_email" /\ req[r] \in Request
          BY <1>0, <2>1 DEF RegisterEmail, At, TypeOK
        <4>2. \/ req' = [req EXCEPT ![r] = Idle]
              \/ req' = [req EXCEPT ![r] = [req[r] EXCEPT !.at = "reg_insert"]]
          BY <2>1 DEF RegisterEmail, Goto, Finish
        <4>3. [req[r] EXCEPT !.at = "reg_insert"].at = "reg_insert"
          BY <4>1 DEF Request
        <4> QED
          BY <4>1, <4>2, <4>3, Tokenless DEF Idle
      <3> QED
        BY <1>1, <2>1, <3>1 DEF RegisterEmail, LooksFree, tokens
    <2>2. ASSUME NEW a \in Accounts, RegisterInsert(r, a) PROVE LeavesTokens
      <3>1. Same
        <4>1. req[r].at = "reg_insert"
          BY <2>2 DEF RegisterInsert, At
        <4>2. \/ req' = [req EXCEPT ![r] = Idle]
              \/ req' = [req EXCEPT ![r] = [Idle EXCEPT !.at = "make_token", !.account = a,
                                                     !.purpose = "verify_email"]]
          BY <2>2 DEF RegisterInsert, Finish
        <4> QED
          BY <4>1, <4>2, Tokenless DEF Idle
      <3> QED
        BY <1>1, <2>2, <3>1 DEF RegisterInsert, tokens
    <2>3. ASSUME NEW k \in Tokens, MakeToken(r, k) PROVE LeavesTokens
      <3>1. Same
        <4>1. /\ req[r].at = "make_token" /\ req[r] \in Request
              /\ req' = [req EXCEPT ![r] = [req[r] EXCEPT !.at = "send_mail", !.token = k]]
          BY <1>0, <2>3 DEF MakeToken, At, TypeOK
        <4>2. [req[r] EXCEPT !.at = "send_mail", !.token = k].at = "send_mail"
          BY <4>1 DEF Request
        <4> QED
          BY <4>1, <4>2, Tokenless
      <3> QED
        BY <1>1, <2>3, <3>1 DEF MakeToken
    <2>4. CASE SendMail(r)
      <3>1. Same
        BY <1>0, <2>4 DEF SendMail, At, Finish, Idle, Effecting, TypeOK
      <3> QED
        BY <1>1, <2>4, <3>1 DEF SendMail
    <2>5. CASE ChangeWrite(r)
      <3>1. Same
        BY <1>0, <2>5 DEF ChangeWrite, At, Finish, Idle, Effecting, TypeOK
      <3> QED
        BY <1>1, <2>5, <3>1 DEF ChangeWrite, tokens
    <2>6. CASE VerifyMark(r) \/ ResetWrite(r)
      <3> DEFINE k == req[r].token
      <3>1. req[r].at \in {"reset_write", "verify_mark"}
        BY <2>6 DEF VerifyMark, ResetWrite, At
      <3>2. k \in Tokens /\ k \in spent /\ honoured[k] = 0 /\ Effecting(r, k)
        BY <3>1, EffectingFacts DEF Effecting
      <3>3. /\ honoured' = [honoured EXCEPT ![k] = @ + 1]
            /\ req' = [req EXCEPT ![r] = Idle]
            /\ spent' = spent /\ faults' = faults
        BY <2>6 DEF VerifyMark, ResetWrite, Finish, tokens
      <3>4. honoured' = [honoured EXCEPT ![k] = 1]
        BY <1>0, <3>2, <3>3 DEF TypeOK
      <3>5. \A s \in Requests, t \in Tokens : Effecting(s, t)' <=> Effecting(s, t) /\ s # r
        BY <1>0, <3>3 DEF TypeOK, Effecting, Idle
      <3> QED
        BY <3>2, <3>3, <3>4, <3>5 DEF Honours
    <2>7. CASE CutOff(r)
      <3>1. faults' # 0 /\ spent' = spent /\ honoured' = honoured
        BY <1>f, <2>7 DEF CutOff, Fault, tokens
      <3>2. \A s \in Requests, t \in Tokens : Effecting(s, t)' => Effecting(s, t)
        BY <1>0, <2>7 DEF CutOff, Finish, Idle, TypeOK, Effecting
      <3> QED
        BY <3>1, <3>2 DEF LeavesTokens
    <2> QED
      BY <1>3, <2>1, <2>2, <2>3, <2>4, <2>5, <2>6, <2>7 DEF Step
  <1>4. ASSUME NEW k \in Tokens, Expire(k) PROVE LeavesTokens
    BY <1>1, <1>4 DEF Expire, Effecting
  <1>5. CASE UNCHANGED vars
    BY <1>1, <1>5 DEF vars, tokens, Effecting
  <1> QED
    BY <1>2, <1>3, <1>4, <1>5 DEF Next

\* No two requests hold one token, and it has its effect once.
LEMMA HonourStep ==
  ASSUME AccountInv, [Next]_vars
  PROVE  /\ (\A r, s \in Requests, k \in Tokens : Effecting(r, k) /\ Effecting(s, k) => r = s)'
         /\ \A k \in Tokens : honoured'[k] # 0 => k \in spent'
         /\ \A k \in Tokens : k \in spent' => link[k] # NoLink
         /\ SingleUse' /\ SpentIsHonoured'
  <1>0. TypeOK /\ TokensSound /\ SingleUse /\ SpentIsHonoured
    BY DEF AccountInv
  <1>h. honoured \in [Tokens -> Nat] /\ spent \subseteq Tokens
    BY <1>0 DEF TypeOK
  <1>e. \A r \in Requests, k \in Tokens : Effecting(r, k) => k \in spent
    BY EffectingFacts DEF Effecting
  <1>1. ASSUME NEW r \in Requests, NEW k \in Tokens, Takes(r, k)
        PROVE  /\ \A q, s \in Requests, t \in Tokens :
                     Effecting(q, t)' /\ Effecting(s, t)' => q = s
               /\ \A t \in Tokens : honoured'[t] # 0 => t \in spent'
               /\ \A t \in Tokens : t \in spent' => link[t] # NoLink
               /\ SingleUse' /\ SpentIsHonoured'
    BY <1>0, <1>h, <1>e, <1>1 DEF Takes, TokensSound, SingleUse, SpentIsHonoured
  <1>2. ASSUME NEW r \in Requests, NEW k \in Tokens, Honours(r, k)
        PROVE  /\ \A q, s \in Requests, t \in Tokens :
                     Effecting(q, t)' /\ Effecting(s, t)' => q = s
               /\ \A t \in Tokens : honoured'[t] # 0 => t \in spent'
               /\ \A t \in Tokens : t \in spent' => link[t] # NoLink
               /\ SingleUse' /\ SpentIsHonoured'
    <2>1. \A s \in Requests, t \in Tokens : Effecting(s, t) /\ t # k => s # r
      BY <1>2 DEF Honours, Effecting
    <2>2. SpentIsHonoured'
      BY <1>0, <1>h, <1>2, <2>1 DEF Honours, SpentIsHonoured
    <2> QED
      BY <1>0, <1>h, <1>2, <2>2 DEF Honours, TokensSound, SingleUse
  <1>3. CASE LeavesTokens
    BY <1>0, <1>h, <1>3 DEF LeavesTokens, TokensSound, SingleUse, SpentIsHonoured
  <1> QED
    BY <1>1, <1>2, <1>3, TokenUse

\* A token is made for an account, before it is mailed or used; who was
\* answered was mailed one.
LEMMA LinkStep == AccountInv /\ [Next]_vars => TokensSound' /\ RegisteredCanVerify'
  <1> SUFFICES ASSUME AccountInv, [Next]_vars PROVE TokensSound' /\ RegisteredCanVerify'
    OBVIOUS
  <1>0. TypeOK /\ TokensSound /\ RegisteredCanVerify
    BY DEF AccountInv
  <1>1. (\A k \in Tokens : link[k] # NoLink => Row(link[k].account))'
    <2> DEFINE Known(a) == a \in Accounts /\ username[a] # None
    <2>1. ASSUME NEW r \in Requests, NEW k \in Tokens, MakeToken(r, k)
          PROVE  \A t \in Tokens : link'[t] # NoLink => Known(link'[t].account)
      <3>1. req[r].at = "make_token"
        BY <2>1 DEF MakeToken, At
      <3>2. Known(req[r].account)
        BY <3>1, ReqFacts DEF RequestSound, Row
      <3>3. link' = [link EXCEPT ![k] = [purpose |-> req[r].purpose, account |-> req[r].account]]
        BY <2>1 DEF MakeToken
      <3>4. \A t \in Tokens : link[t] # NoLink => Known(link[t].account)
        BY LinkFacts DEF Row
      <3> HIDE DEF Known
      <3> QED
        BY <1>0, <3>2, <3>3, <3>4 DEF TypeOK
    <2>2. ASSUME link' = link
          PROVE  \A t \in Tokens : link'[t] # NoLink => Known(link'[t].account)
      <3>1. \A t \in Tokens : link[t] # NoLink => Known(link[t].account)
        BY LinkFacts DEF Row
      <3> HIDE DEF Known
      <3> QED
        BY <2>2, <3>1
    <2>3. \/ link' = link \/ \E r \in Requests, k \in Tokens : MakeToken(r, k)
      BY DEF Next, Arrive, Step, RegisterName, RegisterEmail, RegisterInsert, Forgot, SendMail,
             VerifyConsume, VerifyMark, ResetConsume, Consume, ResetWrite, ChangeRead,
             ChangeWrite, Expire, CutOff, tokens, vars
    <2>4. \A a \in Accounts : username[a] # None => username'[a] # None
      BY Lasting DEF Row
    <2> QED
      BY <2>1, <2>2, <2>3, <2>4 DEF Row
  <1>2. CASE UNCHANGED <<mailbox, answered>>
    BY <1>0, <1>1, <1>2, HonourStep, Lasting DEF TypeOK, TokensSound, RegisteredCanVerify
  <1>3. ASSUME NEW r \in Requests, SendMail(r) PROVE TokensSound' /\ RegisteredCanVerify'
    <2>1. req[r].at = "send_mail"
      BY <1>3 DEF SendMail, At
    <2>2. /\ req[r].token \in Tokens
          /\ link[req[r].token] = [purpose |-> req[r].purpose, account |-> req[r].account]
          /\ req[r].purpose \in Purpose
      BY <2>1, ReqFacts DEF RequestSound
    <2>3. link[req[r].token] # NoLink
      BY <2>2 DEF NoLink, Purpose
    <2>4. /\ mailbox' = mailbox \cup {req[r].token} /\ link' = link
          /\ answered' \subseteq answered \cup {req[r].account}
          /\ req[r].purpose # "verify_email" => answered' = answered
      BY <1>3 DEF SendMail
    <2>5. TokensSound'
      BY <1>0, <1>1, <2>2, <2>3, <2>4, HonourStep, Lasting DEF TokensSound
    <2>6. RegisteredCanVerify'
      BY <1>0, <2>2, <2>4 DEF RegisteredCanVerify
    <2> QED
      BY <2>5, <2>6
  <1>4. UNCHANGED <<mailbox, answered>> \/ \E r \in Requests : SendMail(r)
    BY DEF Next, Arrive, Step, RegisterName, RegisterEmail, RegisterInsert, Forgot, MakeToken,
           VerifyConsume, VerifyMark, ResetConsume, Consume, ResetWrite, ChangeRead,
           ChangeWrite, Expire, CutOff, tokens, vars
  <1> QED
    BY <1>2, <1>3, <1>4

-----------------------------------------------------------------------------
(* Requests *)

\* A request that a step leaves alone stays sound: what it rests on lasts.
LEMMA OthersSound ==
  ASSUME AccountInv, [Next]_vars, NEW s \in Requests, req'[s] = req[s]
  PROVE  RequestSound(req[s])'
  <1> DEFINE q == req[s]
  <1>1. RequestSound(q)
    BY ReqFacts
  <1>2. q.at \in {"reset_write", "verify_mark"} => honoured'[q.token] = honoured[q.token]
    <2>1. SUFFICES ASSUME q.at \in {"reset_write", "verify_mark"}
                   PROVE  honoured'[q.token] = honoured[q.token]
      OBVIOUS
    <2>2. Effecting(s, q.token) /\ Effecting(s, q.token)' /\ q.token \in Tokens
      BY <2>1, EffectingFacts DEF Effecting
    <2>3. ASSUME NEW r \in Requests, NEW k \in Tokens, Honours(r, k)
          PROVE  honoured'[q.token] = honoured[q.token]
      <3>1. s # r
        BY <2>1, <2>3, EffectingFacts DEF Honours, Effecting
      <3>2. k # q.token
        BY <2>2, <2>3, <3>1 DEF Honours, AccountInv, TokensSound
      <3> QED
        BY <2>2, <2>3, <3>2 DEF Honours, AccountInv, TypeOK
    <2> QED
      BY <2>3, TokenUse DEF Takes, LeavesTokens
  <1>3. q.account \in Accounts /\ Row(q.account) => username'[q.account] # None
    BY Lasting DEF Row
  <1>4. q.at = "send_mail" => link'[q.token] = link[q.token]
    <2>1. q.at = "send_mail" => q.token \in Tokens /\ link[q.token] # NoLink
      BY <1>1 DEF RequestSound, NoLink, Purpose
    <2> QED
      BY <2>1, Lasting
  <1>5. q.at \in {"reset_write", "verify_mark"} =>
           q.token \in spent' /\ link'[q.token] = link[q.token]
    BY Lasting, EffectingFacts
  <1> QED
    BY <1>1, <1>2, <1>3, <1>4, <1>5 DEF RequestSound, Row

\* A step that writes one request leaves the others sound.
LEMMA Written ==
  ASSUME AccountInv, [Next]_vars, NEW r \in Requests, NEW q, req' = [req EXCEPT ![r] = q]
  PROVE  /\ req'[r] = q
         /\ \A s \in Requests \ {r} : RequestSound(req[s])'
  <1>1. req'[r] = q /\ \A s \in Requests \ {r} : req'[s] = req[s]
    BY DEF AccountInv, TypeOK
  <1> QED
    BY <1>1, OthersSound

\* A request that has ended is sound, and so are the others.
LEMMA Finished ==
  ASSUME AccountInv, [Next]_vars, NEW r \in Requests, Finish(r)
  PROVE  \A s \in Requests : RequestSound(req[s])'
  <1>1. req'[r] = Idle /\ \A s \in Requests \ {r} : RequestSound(req[s])'
    BY Written DEF Finish
  <1>2. RequestSound(req[r])'
    BY <1>1 DEF RequestSound, Idle
  <1> QED
    BY <1>1, <1>2

\* A request that starts is sound.
LEMMA ArriveSound ==
  ASSUME AccountInv, [Next]_vars, NEW r \in Requests, Arrive(r)
  PROVE  \A s \in Requests : RequestSound(req[s])'
  <1>0. TypeOK /\ RowsSound /\ TokensSound
    BY DEF AccountInv
  <1>1. ASSUME NEW n \in Names, NEW e \in Emails, NEW p \in Passwords, RegisterName(r, n, e, p)
        PROVE  \A s \in Requests : RequestSound(req[s])'
    <2> DEFINE q == [Idle EXCEPT !.at = "reg_email", !.name = n, !.email = e, !.password = p]
    <2>1. req'[r] = q /\ \A s \in Requests \ {r} : RequestSound(req[s])'
      BY <1>1, Written DEF RegisterName, Start
    <2>2. RequestSound(req[r])'
      BY <2>1 DEF RequestSound, Idle
    <2> QED
      BY <2>1, <2>2
  <1>2. ASSUME NEW e \in Emails, Forgot(r, e)
        PROVE  \A s \in Requests : RequestSound(req[s])'
    <2> PICK a \in Accounts :
          /\ email[a] = e
          /\ Start(r, [Idle EXCEPT !.at = "make_token", !.account = a,
                                   !.purpose = "reset_password"])
      BY <1>2 DEF Forgot
    <2> DEFINE q == [Idle EXCEPT !.at = "make_token", !.account = a,
                                 !.purpose = "reset_password"]
    <2>1. req'[r] = q /\ \A s \in Requests \ {r} : RequestSound(req[s])'
      BY Written DEF Start
    <2>2. Row(a)
      BY <1>0, AccountAssumption DEF RowsSound
    <2>3. username'[a] # None
      BY <2>2, Lasting DEF Row
    <2>4. RequestSound(req[r])'
      BY <2>1, <2>3 DEF RequestSound, Idle, Row, Purpose
    <2> QED
      BY <2>1, <2>4
  <1>3. ASSUME NEW k \in Tokens, NEW point \in {"reset_write", "verify_mark"}, NEW p,
               NEW purpose \in Purpose, Consumable(k, purpose), Consume(r, k, point, p),
               point = "reset_write" => p \in Passwords /\ purpose = "reset_password",
               point = "verify_mark" => purpose = "verify_email"
        PROVE  \A s \in Requests : RequestSound(req[s])'
    <2> DEFINE q == [Idle EXCEPT !.at = point, !.account = link[k].account,
                                 !.password = p, !.token = k]
    <2>1. req'[r] = [at |-> point, name |-> None, email |-> None, password |-> p,
                     account |-> link[k].account, purpose |-> "none", token |-> k]
      BY <1>0, <1>3 DEF Consume, Start, Idle, TypeOK
    <2>2. \A s \in Requests \ {r} : RequestSound(req[s])'
      <3>1. \A s \in Requests \ {r} : req'[s] = req[s]
        BY <1>0, <1>3 DEF Consume, Start, TypeOK
      <3> QED
        BY <3>1, OthersSound
    <2>3. /\ k \in spent' /\ honoured' = honoured /\ link' = link
          /\ link[k].purpose = purpose /\ k \notin spent
      BY <1>3 DEF Consume, Consumable
    <2>4. honoured'[k] = 0
      BY <1>0, <2>3 DEF TokensSound
    <2>5. RequestSound(req[r])'
      BY <1>3, <2>1, <2>3, <2>4 DEF RequestSound
    <2> QED
      BY <2>2, <2>5
  <1>4. ASSUME NEW k \in Tokens, VerifyConsume(r, k)
        PROVE  \A s \in Requests : RequestSound(req[s])'
    BY <1>3, <1>4 DEF VerifyConsume, Purpose
  <1>5. ASSUME NEW k \in Tokens, NEW p \in Passwords \cup {TooShort}, ResetConsume(r, k, p)
        PROVE  \A s \in Requests : RequestSound(req[s])'
    BY <1>3, <1>5 DEF ResetConsume, Purpose
  <1>6. ASSUME NEW a \in Accounts, NEW p \in Passwords \cup {TooShort}, ChangeRead(r, a, p)
        PROVE  \A s \in Requests : RequestSound(req[s])'
    <2>1. /\ req'[r] = [Idle EXCEPT !.at = "change_write", !.account = a, !.password = p]
          /\ \A s \in Requests \ {r} : RequestSound(req[s])'
      BY <1>6, Written DEF ChangeRead, Start
    <2>2. username'[a] # None /\ p \in Passwords
      BY <1>6, Lasting DEF ChangeRead, Row
    <2>3. RequestSound(req[r])'
      BY <2>1, <2>2 DEF RequestSound, Idle, Row
    <2> QED
      BY <2>1, <2>3
  <1> QED
    BY <1>1, <1>2, <1>4, <1>5, <1>6 DEF Arrive

\* The request a step takes further is sound.
LEMMA StepSound ==
  ASSUME AccountInv, [Next]_vars, NEW r \in Requests, Step(r)
  PROVE  \A s \in Requests : RequestSound(req[s])'
  <1>0. TypeOK /\ req[r] \in Request
    BY DEF AccountInv, TypeOK
  <1>1. CASE RegisterEmail(r)
    <2>1. CASE Finish(r)
      BY <2>1, Finished
    <2>2. CASE Goto(r, "reg_insert")
      <3> DEFINE q == [req[r] EXCEPT !.at = "reg_insert"]
      <3>1. req[r].at = "reg_email"
        BY <1>1 DEF RegisterEmail, At
      <3>2. /\ req[r].name \in Names /\ req[r].email \in Emails /\ req[r].password \in Passwords
        BY <3>1, ReqFacts DEF RequestSound
      <3>3. /\ req'[r] = q
            /\ \A s \in Requests \ {r} : RequestSound(req[s])'
        <4>1. \A s \in Requests \ {r} : req'[s] = req[s]
          BY <1>0, <2>2 DEF Goto, TypeOK
        <4> QED
          BY <1>0, <2>2, <4>1, OthersSound DEF Goto, TypeOK
      <3>4. q.at = "reg_insert" /\ q.name = req[r].name /\ q.email = req[r].email
            /\ q.password = req[r].password
        BY <1>0 DEF Request
      <3>5. RequestSound(req[r])'
        BY <3>2, <3>3, <3>4 DEF RequestSound
      <3> QED
        BY <3>3, <3>5
    <2> QED
      BY <1>1, <2>1, <2>2 DEF RegisterEmail
  <1>2. ASSUME NEW a \in Accounts, RegisterInsert(r, a)
        PROVE  \A s \in Requests : RequestSound(req[s])'
    <2>1. CASE Finish(r)
      BY <2>1, Finished
    <2>2. CASE ~Finish(r)
      <3>1. /\ req' = [req EXCEPT ![r] = [Idle EXCEPT !.at = "make_token",
                                          !.account = a, !.purpose = "verify_email"]]
            /\ username' = [username EXCEPT ![a] = req[r].name]
            /\ req[r].at = "reg_insert"
        BY <1>2, <2>2 DEF RegisterInsert, At
      <3>2. req[r].name # None
        <4>1. req[r].name \in Names
          BY <3>1, ReqFacts DEF RequestSound
        <4> QED
          BY <4>1, AccountAssumption
      <3>3. username'[a] # None
        BY <1>0, <3>1, <3>2 DEF TypeOK
      <3>4. /\ req'[r] = [Idle EXCEPT !.at = "make_token", !.account = a,
                                      !.purpose = "verify_email"]
            /\ \A s \in Requests \ {r} : RequestSound(req[s])'
        BY <3>1, Written
      <3>5. RequestSound(req[r])'
        BY <3>3, <3>4 DEF RequestSound, Idle, Row, Purpose
      <3> QED
        BY <3>4, <3>5
    <2> QED
      BY <2>1, <2>2
  <1>3. ASSUME NEW k \in Tokens, MakeToken(r, k)
        PROVE  \A s \in Requests : RequestSound(req[s])'
    <2> DEFINE q == [req[r] EXCEPT !.at = "send_mail", !.token = k]
    <2>1. /\ req[r].at = "make_token" /\ req' = [req EXCEPT ![r] = q]
          /\ link' = [link EXCEPT ![k] = [purpose |-> req[r].purpose,
                                          account |-> req[r].account]]
      BY <1>3 DEF MakeToken, At
    <2>2. /\ req[r].account \in Accounts /\ Row(req[r].account) /\ req[r].purpose \in Purpose
      BY <2>1, ReqFacts DEF RequestSound
    <2>3. username'[req[r].account] # None
      BY <2>2, Lasting DEF Row
    <2>4. req'[r] = q /\ \A s \in Requests \ {r} : RequestSound(req[s])'
      <3>1. \A s \in Requests \ {r} : req'[s] = req[s]
        BY <1>0, <2>1 DEF TypeOK
      <3> QED
        BY <1>0, <2>1, <3>1, OthersSound DEF TypeOK
    <2>5. /\ q.at = "send_mail" /\ q.token = k
          /\ q.account = req[r].account /\ q.purpose = req[r].purpose
      BY <1>0 DEF Request
    <2>6. link'[k] = [purpose |-> req[r].purpose, account |-> req[r].account]
      BY <1>0, <2>1 DEF TypeOK
    <2> HIDE DEF q
    <2>7. RequestSound(req[r])'
      BY <2>2, <2>3, <2>4, <2>5, <2>6 DEF RequestSound, Row
    <2> QED
      BY <2>4, <2>7
  <1>4. CASE SendMail(r) \/ VerifyMark(r) \/ ResetWrite(r) \/ ChangeWrite(r) \/ CutOff(r)
    BY <1>4, Finished DEF SendMail, VerifyMark, ResetWrite, ChangeWrite, CutOff
  <1> QED
    BY <1>1, <1>2, <1>3, <1>4 DEF Step

\* Every request stays sound.
LEMMA RequestsStep == AccountInv /\ [Next]_vars => (\A s \in Requests : RequestSound(req[s]))'
  <1> SUFFICES ASSUME AccountInv, [Next]_vars
               PROVE  (\A s \in Requests : RequestSound(req[s]))'
    OBVIOUS
  <1>1. CASE UNCHANGED req
    BY <1>1, OthersSound
  <1>2. \/ UNCHANGED req \/ \E r \in Requests : Arrive(r) \/ Step(r)
    BY DEF Next, Expire, vars
  <1> QED
    BY <1>1, <1>2, ArriveSound, StepSound

-----------------------------------------------------------------------------
(* Theorems *)

\* Every reachable state satisfies the invariant.
THEOREM Invariance == Spec => []AccountInv
  <1>1. Init => AccountInv
    BY InitInv
  <1>2. AccountInv /\ [Next]_vars => AccountInv'
    BY TypeStep, RowsStep, HonourStep, LinkStep, RequestsStep DEF AccountInv
  <1> QED
    BY <1>1, <1>2, PTL DEF Spec

\* The tables and the requests under way keep their types.
THEOREM TypeCorrect == Spec => []TypeOK
  <1>1. AccountInv => TypeOK
    BY DEF AccountInv
  <1> QED
    BY Invariance, <1>1, PTL

\* Registrations that overlap never end in two accounts of one username or
\* one email address.
THEOREM UniqueAccounts == Spec => []OneAccountEach
  <1>1. AccountInv => OneAccountEach
    BY DEF AccountInv
  <1> QED
    BY Invariance, <1>1, PTL

\* A token has its effect at most once, however many requests present it.
THEOREM SingleUseTokens == Spec => []SingleUse
  <1>1. AccountInv => SingleUse
    BY DEF AccountInv
  <1> QED
    BY Invariance, <1>1, PTL

\* Without failures a token that is used up has its effect.
THEOREM TokensHonoured == Spec => []SpentIsHonoured
  <1>1. AccountInv => SpentIsHonoured
    BY DEF AccountInv
  <1> QED
    BY Invariance, <1>1, PTL

\* Who was answered 201 was mailed a token to verify the account with.
THEOREM AnsweredCanVerify == Spec => []RegisteredCanVerify
  <1>1. AccountInv => RegisteredCanVerify
    BY DEF AccountInv
  <1> QED
    BY Invariance, <1>1, PTL

-----------------------------------------------------------------------------
(* AccountService implements AccountPromise *)

\* The tokens that have had their effect, as AccountPromise sees them.
Redeemed == {k \in Tokens : honoured[k] > 0}

\* The empty database is where the promise starts.
LEMMA PromiseInit == Init => Promise!Init
  BY DEF Init, Promise!Init, NoLink, Promise!NoLink

\* The step that gives a token its effect redeems it.
LEMMA RedeemStep ==
  ASSUME AccountInv, NEW r \in Requests, req[r].at \in {"reset_write", "verify_mark"},
         honoured' = [honoured EXCEPT ![req[r].token] = @ + 1]
  PROVE  /\ req[r].token \notin Redeemed
         /\ Redeemed' = Redeemed \cup {req[r].token}
  BY EffectingFacts DEF Redeemed, AccountInv, TypeOK

\* Every step is a step of the promise or changes nothing it speaks of.
LEMMA PromiseStep == AccountInv /\ [Next]_vars => [Promise!Next]_(Promise!vars)
  <1> SUFFICES ASSUME AccountInv, [Next]_vars PROVE [Promise!Next]_(Promise!vars)
    OBVIOUS
  <1>0. TypeOK /\ RowsSound
    BY DEF AccountInv
  <1>s. ASSUME UNCHANGED <<password, verified, link, honoured>>
        PROVE  UNCHANGED Promise!vars
    BY <1>s DEF Promise!vars
  <1>1. ASSUME NEW r \in Requests, Arrive(r) PROVE UNCHANGED Promise!vars
    BY <1>s, <1>1 DEF Arrive, RegisterName, Forgot, VerifyConsume, ResetConsume, ChangeRead,
                      Consume, tenants, tokens
  <1>2. ASSUME NEW r \in Requests, NEW a \in Accounts, RegisterInsert(r, a)
        PROVE  [Promise!Next]_(Promise!vars)
    <2>1. CASE UNCHANGED password
      BY <1>s, <1>2, <2>1 DEF RegisterInsert, tokens
    <2>2. CASE ~UNCHANGED password
      <3>1. req[r].at = "reg_insert" /\ ~Row(a)
            /\ password' = [password EXCEPT ![a] = req[r].password]
            /\ UNCHANGED <<verified, link, honoured>>
        BY <1>2, <2>2 DEF RegisterInsert, At, tokens
      <3>2. req[r].password \in Passwords
        BY <3>1, ReqFacts DEF RequestSound
      <3>3. Promise!Register(a, req[r].password)
        BY <1>0, <3>1 DEF Promise!Register, Promise!Registered, Promise!Give, RowsSound
      <3> QED
        BY <3>2, <3>3 DEF Promise!Next
    <2> QED
      BY <2>1, <2>2
  <1>3. ASSUME NEW r \in Requests, NEW k \in Tokens, MakeToken(r, k) PROVE Promise!Next
    <2>1. req[r].at = "make_token"
      BY <1>3 DEF MakeToken, At
    <2>2. /\ req[r].account \in Accounts /\ Row(req[r].account) /\ req[r].purpose \in Purpose
      BY <2>1, ReqFacts DEF RequestSound
    <2>3. password[req[r].account] # None
      BY <1>0, <2>2 DEF RowsSound
    <2>4. Promise!MakeLink(k, req[r].account, req[r].purpose)
      BY <1>3, <2>3 DEF MakeToken, tenants, Promise!MakeLink, Promise!Registered,
                        NoLink, Promise!NoLink
    <2> QED
      BY <2>2, <2>4 DEF Promise!Next, Purpose
  <1>4. ASSUME NEW r \in Requests, VerifyMark(r) PROVE Promise!Next
    <2>1. req[r].at = "verify_mark"
      BY <1>4 DEF VerifyMark, At
    <2>2. /\ req[r].token \in Tokens /\ link[req[r].token].purpose = "verify_email"
          /\ link[req[r].token].account = req[r].account
      BY <2>1, ReqFacts, EffectingFacts DEF RequestSound
    <2>3. req[r].token \notin Redeemed /\ Redeemed' = Redeemed \cup {req[r].token}
      BY <1>4, <2>1, RedeemStep DEF VerifyMark
    <2> PICK k \in Tokens : k = req[r].token
      BY <2>2
    <2>4. Promise!Verify(k)
      BY <1>4, <2>2, <2>3 DEF VerifyMark, tokens, Redeemed, Promise!Verify, Promise!Redeem
    <2> QED
      BY <2>4 DEF Promise!Next
  <1>5. ASSUME NEW r \in Requests, ResetWrite(r) PROVE Promise!Next
    <2>1. req[r].at = "reset_write"
      BY <1>5 DEF ResetWrite, At
    <2>2. /\ req[r].token \in Tokens /\ link[req[r].token].purpose = "reset_password"
          /\ link[req[r].token].account = req[r].account /\ req[r].password \in Passwords
      BY <2>1, ReqFacts, EffectingFacts DEF RequestSound
    <2>3. req[r].token \notin Redeemed /\ Redeemed' = Redeemed \cup {req[r].token}
      BY <1>5, <2>1, RedeemStep DEF ResetWrite
    <2> PICK k \in Tokens, p \in Passwords : k = req[r].token /\ p = req[r].password
      BY <2>2
    <2>4. Promise!Reset(k, p)
      BY <1>5, <2>2, <2>3 DEF ResetWrite, UpdatePassword, tokens, Redeemed, Promise!Reset,
                              Promise!Redeem, Promise!Give
    <2> QED
      BY <2>4 DEF Promise!Next
  <1>6. ASSUME NEW r \in Requests, ChangeWrite(r) PROVE Promise!Next
    <2>1. req[r].at = "change_write"
      BY <1>6 DEF ChangeWrite, At
    <2>2. /\ req[r].account \in Accounts /\ Row(req[r].account) /\ req[r].password \in Passwords
      BY <2>1, ReqFacts DEF RequestSound
    <2>3. password[req[r].account] # None
      BY <1>0, <2>2 DEF RowsSound
    <2>4. Promise!Change(req[r].account, req[r].password)
      BY <1>6, <2>3 DEF ChangeWrite, UpdatePassword, tokens, Promise!Change,
                        Promise!Registered, Promise!Give
    <2> QED
      BY <2>2, <2>4 DEF Promise!Next
  <1>7. ASSUME NEW r \in Requests, RegisterEmail(r) \/ SendMail(r) \/ CutOff(r)
        PROVE  UNCHANGED Promise!vars
    BY <1>s, <1>7 DEF RegisterEmail, SendMail, CutOff, tenants, tokens
  <1>8. ASSUME NEW k \in Tokens, Expire(k) PROVE UNCHANGED Promise!vars
    BY <1>s, <1>8 DEF Expire, tenants
  <1>9. CASE UNCHANGED vars
    BY <1>s, <1>9 DEF vars, tenants, tokens
  <1> QED
    BY <1>1, <1>2, <1>3, <1>4, <1>5, <1>6, <1>7, <1>8, <1>9 DEF Next, Step

\* AccountService implements AccountPromise.
THEOREM Refinement == Spec => ImplementsPromise
  BY PromiseInit, PromiseStep, Invariance, PTL DEF Spec, ImplementsPromise, Promise!Spec
=============================================================================
