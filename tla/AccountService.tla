--------------------------- MODULE AccountService ---------------------------
(***************************************************************************)
(* Accounts, passwords and single-use tokens of auth.Service.  Each SQL    *)
(* statement commits by itself; between the statements of one request the  *)
(* others run, and it may be cut off.  A password stands for its hash:     *)
(* hashing and verifying touch no state, but take their time between a     *)
(* read and the write that rests on it.                                    *)
(***************************************************************************)
EXTENDS Naturals, FiniteSets

CONSTANTS
  Accounts,    \* tenants.id
  Names,       \* tenants.username, in lower case
  Emails,      \* tenants.email, in lower case
  Passwords,   \* passwords of eight characters or more
  TooShort,    \* any other password
  Tokens,      \* auth_tokens rows: fresh UUIDs, never made twice
  Requests,    \* request slots
  MaxFaults,   \* bound: requests that are cut off
  None

ASSUME AccountAssumption ==
  /\ MaxFaults \in Nat
  /\ None \notin Accounts \cup Names \cup Emails \cup Passwords \cup Tokens
  /\ TooShort \notin Passwords

VARIABLES
  username,   \* tenants.username, or None where there is no row
  email,      \* tenants.email
  password,   \* tenants.password_hash
  verified,   \* tenants.email_verified
  link,       \* what each token was made for: auth_tokens.purpose, tenant_id
  spent,      \* tokens whose used_at is set
  expired,    \* tokens whose expires_at has passed
  mailbox,    \* tokens that have been mailed
  req,        \* the request each slot is serving
  faults,
  (* history *)
  honoured,   \* how often each token has had its effect
  answered    \* accounts whose registration was answered 201

tenants == <<username, email, password, verified>>
tokens  == <<link, spent, expired, mailbox>>
vars == <<tenants, tokens, req, faults, honoured, answered>>

Purpose == {"verify_email", "reset_password"}
Link == [purpose : Purpose, account : Accounts]
NoLink == [purpose |-> "none", account |-> None]

Point == {"idle", "reg_email", "reg_insert", "make_token", "send_mail",
          "reset_write", "verify_mark", "change_write"}

Request == [at       : Point,
            name     : Names \cup {None},
            email    : Emails \cup {None},
            password : Passwords \cup {None},
            account  : Accounts \cup {None},
            purpose  : Purpose \cup {"none"},
            token    : Tokens \cup {None}]

Idle == [at |-> "idle", name |-> None, email |-> None, password |-> None,
         account |-> None, purpose |-> "none", token |-> None]

TypeOK ==
  /\ username \in [Accounts -> Names \cup {None}]
  /\ email    \in [Accounts -> Emails \cup {None}]
  /\ password \in [Accounts -> Passwords \cup {None}]
  /\ verified \subseteq Accounts
  /\ link \in [Tokens -> Link \cup {NoLink}]
  /\ spent \subseteq Tokens /\ expired \subseteq Tokens /\ mailbox \subseteq Tokens
  /\ req \in [Requests -> Request]
  /\ faults \in 0 .. MaxFaults
  /\ honoured \in [Tokens -> Nat]
  /\ answered \subseteq Accounts

Init ==
  /\ username = [a \in Accounts |-> None]
  /\ email    = [a \in Accounts |-> None]
  /\ password = [a \in Accounts |-> None]
  /\ verified = {}
  /\ link = [k \in Tokens |-> NoLink]
  /\ spent = {} /\ expired = {} /\ mailbox = {}
  /\ req = [r \in Requests |-> Idle]
  /\ faults = 0
  /\ honoured = [k \in Tokens |-> 0]
  /\ answered = {}

-----------------------------------------------------------------------------
At(r, point) == req[r].at = point
Start(r, q) == At(r, "idle") /\ req' = [req EXCEPT ![r] = q]
Goto(r, point) == req' = [req EXCEPT ![r].at = point]
Finish(r) == req' = [req EXCEPT ![r] = Idle]

Fault == faults < MaxFaults /\ faults' = faults + 1

Row(a) == username[a] # None
NameTaken(n)  == \E a \in Accounts : username[a] = n
EmailTaken(e) == \E a \in Accounts : email[a] = e

(* POST /auth/register *)

\* Only a lookup that finds a row is a conflict: one that fails is not.
LooksFree(taken) == (~taken /\ UNCHANGED faults) \/ Fault

\* The input is valid and no account seems to have its username.
RegisterName(r, n, e, p) ==
  /\ LooksFree(NameTaken(n))
  /\ Start(r, [Idle EXCEPT !.at = "reg_email", !.name = n, !.email = e,
                           !.password = p])
  /\ UNCHANGED <<tenants, tokens, honoured, answered>>

RegisterEmail(r) ==
  /\ At(r, "reg_email")
  /\ \/ LooksFree(EmailTaken(req[r].email)) /\ Goto(r, "reg_insert")
     \/ EmailTaken(req[r].email) /\ Finish(r) /\ UNCHANGED faults
  /\ UNCHANGED <<tenants, tokens, honoured, answered>>

\* The UNIQUE constraints of tenants.username and tenants.email.
Insertable(n, e) == ~NameTaken(n) /\ ~EmailTaken(e)

\* CreateTenant; a violated constraint is returned as an error.
RegisterInsert(r, a) ==
  /\ At(r, "reg_insert") /\ ~Row(a)
  /\ IF Insertable(req[r].name, req[r].email)
     THEN /\ username' = [username EXCEPT ![a] = req[r].name]
          /\ email'    = [email EXCEPT ![a] = req[r].email]
          /\ password' = [password EXCEPT ![a] = req[r].password]
          /\ req' = [req EXCEPT ![r] = [Idle EXCEPT !.at = "make_token",
                                          !.account = a, !.purpose = "verify_email"]]
     ELSE Finish(r) /\ UNCHANGED <<username, email, password>>
  /\ UNCHANGED <<verified, tokens, faults, honoured, answered>>

-----------------------------------------------------------------------------
(* POST /auth/forgot-password, and sendToken *)

\* An unknown address is answered like a known one.
Forgot(r, e) ==
  /\ \E a \in Accounts :
       /\ email[a] = e
       /\ Start(r, [Idle EXCEPT !.at = "make_token", !.account = a,
                                !.purpose = "reset_password"])
  /\ UNCHANGED <<tenants, tokens, faults, honoured, answered>>

MakeToken(r, k) ==
  /\ At(r, "make_token") /\ link[k] = NoLink
  /\ link' = [link EXCEPT ![k] = [purpose |-> req[r].purpose, account |-> req[r].account]]
  /\ req' = [req EXCEPT ![r] = [@ EXCEPT !.at = "send_mail", !.token = k]]
  /\ UNCHANGED <<tenants, spent, expired, mailbox, faults, honoured, answered>>

\* Mutant: the registration is answered without waiting for the mail.
SendMailLater(r) ==
  /\ At(r, "send_mail")
  /\ \/ mailbox' = mailbox \cup {req[r].token}
     \/ faults < MaxFaults /\ UNCHANGED mailbox
  /\ answered' = IF req[r].purpose = "verify_email"
                 THEN answered \cup {req[r].account} ELSE answered
  /\ Finish(r)
  /\ UNCHANGED <<tenants, link, spent, expired, faults, honoured>>

\* mailer.Send, then the answer of the handler.
SendMail(r) ==
  /\ At(r, "send_mail")
  /\ mailbox' = mailbox \cup {req[r].token}
  /\ answered' = IF req[r].purpose = "verify_email"
                 THEN answered \cup {req[r].account} ELSE answered
  /\ Finish(r)
  /\ UNCHANGED <<tenants, link, spent, expired, faults, honoured>>

-----------------------------------------------------------------------------
(* POST /auth/verify-email, POST /auth/reset-password *)

\* Mutant: the UPDATE does not ask for used_at IS NULL.
ConsumableAgain(k, purpose) == link[k].purpose = purpose /\ k \notin expired

\* Mutant: the UPDATE does not ask for the purpose.
ConsumableForAny(k, purpose) ==
  purpose \in Purpose /\ link[k] # NoLink /\ k \notin spent /\ k \notin expired

\* ConsumeAuthToken: WHERE token_hash = k AND purpose = purpose AND used_at IS
\* NULL AND expires_at > now().
Consumable(k, purpose) ==
  link[k].purpose = purpose /\ k \notin spent /\ k \notin expired

\* One UPDATE; a token it does not find is refused and nothing changes.
Consume(r, k, point, p) ==
  /\ k \in mailbox
  /\ spent' = spent \cup {k}
  /\ Start(r, [Idle EXCEPT !.at = point, !.account = link[k].account,
                           !.password = p, !.token = k])
  /\ UNCHANGED <<tenants, link, expired, mailbox, faults, honoured, answered>>

VerifyConsume(r, k) ==
  Consumable(k, "verify_email") /\ Consume(r, k, "verify_mark", None)

\* MarkEmailVerified.
VerifyMark(r) ==
  /\ At(r, "verify_mark")
  /\ verified' = verified \cup {req[r].account}
  /\ honoured' = [honoured EXCEPT ![req[r].token] = @ + 1]
  /\ Finish(r)
  /\ UNCHANGED <<username, email, password, tokens, faults, answered>>

\* Mutant: the token is consumed before the length of the password is checked.
ResetConsumeUnchecked(r, k, p) ==
  /\ Consumable(k, "reset_password")
  /\ IF p \in Passwords
     THEN Consume(r, k, "reset_write", p)
     ELSE /\ At(r, "idle") /\ k \in mailbox
          /\ spent' = spent \cup {k}
          /\ UNCHANGED <<tenants, link, expired, mailbox, req, faults, honoured,
                         answered>>

ResetConsume(r, k, p) ==
  /\ p \in Passwords
  /\ Consumable(k, "reset_password")
  /\ Consume(r, k, "reset_write", p)

UpdatePassword(a, p) == password' = [password EXCEPT ![a] = p]

ResetWrite(r) ==
  /\ At(r, "reset_write")
  /\ UpdatePassword(req[r].account, req[r].password)
  /\ honoured' = [honoured EXCEPT ![req[r].token] = @ + 1]
  /\ Finish(r)
  /\ UNCHANGED <<username, email, verified, tokens, faults, answered>>

-----------------------------------------------------------------------------
(* POST /auth/change-password *)

\* The old password given is the account's when it is read.
ChangeRead(r, a, p) ==
  /\ p \in Passwords /\ Row(a)
  /\ Start(r, [Idle EXCEPT !.at = "change_write", !.account = a, !.password = p])
  /\ UNCHANGED <<tenants, tokens, faults, honoured, answered>>

\* The UPDATE does not compare the hash it replaces.
ChangeWrite(r) ==
  /\ At(r, "change_write")
  /\ UpdatePassword(req[r].account, req[r].password)
  /\ Finish(r)
  /\ UNCHANGED <<username, email, verified, tokens, faults, honoured, answered>>

-----------------------------------------------------------------------------
\* A day, or an hour, has passed.
Expire(k) ==
  /\ link[k] # NoLink /\ k \notin expired
  /\ expired' = expired \cup {k}
  /\ UNCHANGED <<tenants, link, spent, mailbox, req, faults, honoured, answered>>

\* A statement or the mailer fails, the client goes away, the process dies.
CutOff(r) ==
  /\ ~At(r, "idle")
  /\ Fault
  /\ Finish(r)
  /\ UNCHANGED <<tenants, tokens, honoured, answered>>

Arrive(r) ==
  \/ \E n \in Names, e \in Emails, p \in Passwords : RegisterName(r, n, e, p)
  \/ \E e \in Emails : Forgot(r, e)
  \/ \E k \in Tokens : VerifyConsume(r, k)
  \/ \E k \in Tokens, p \in Passwords \cup {TooShort} : ResetConsume(r, k, p)
  \/ \E a \in Accounts, p \in Passwords \cup {TooShort} : ChangeRead(r, a, p)

Step(r) ==
  \/ RegisterEmail(r) \/ \E a \in Accounts : RegisterInsert(r, a)
  \/ \E k \in Tokens : MakeToken(r, k)
  \/ SendMail(r) \/ VerifyMark(r) \/ ResetWrite(r) \/ ChangeWrite(r)
  \/ CutOff(r)

Next ==
  \/ \E r \in Requests : Arrive(r) \/ Step(r)
  \/ \E k \in Tokens : Expire(k)

Spec == Init /\ [][Next]_vars
-----------------------------------------------------------------------------
(* Properties *)

\* Two registrations that overlap never end in two accounts of one username
\* or one email address, although each looks first and inserts later.
OneAccountEach ==
  \A a, b \in Accounts :
     Row(a) /\ Row(b) /\ a # b => username[a] # username[b] /\ email[a] # email[b]

\* A token has its effect at most once ("Tokens single-use"), however many
\* requests present it at once.
SingleUse == \A k \in Tokens : honoured[k] <= 1

\* While nothing fails, a token that was used up has had its effect, or a
\* request is about to give it: a refused password does not cost the token.
Effecting(r, k) == req[r].token = k /\ req[r].at \in {"reset_write", "verify_mark"}

SpentIsHonoured ==
  faults = 0 =>
    \A k \in spent : honoured[k] = 1 \/ \E r \in Requests : Effecting(r, k)

\* Who is told that the account exists has been mailed a token to verify it,
\* also when requests are cut off.
RegisteredCanVerify ==
  \A a \in answered :
     \E k \in mailbox : link[k] = [purpose |-> "verify_email", account |-> a]

\* The service keeps the promise of AccountPromise: a token is redeemed when
\* its effect is written, not when it is consumed.
Promise == INSTANCE AccountPromise WITH redeemed <- {k \in Tokens : honoured[k] > 0}
ImplementsPromise == Promise!Spec

(* The inductive strengthening *)

\* What a request under way holds.
RequestSound(q) ==
  /\ q.at \in {"reg_email", "reg_insert"} =>
        q.name \in Names /\ q.email \in Emails /\ q.password \in Passwords
  /\ q.at \in {"make_token", "send_mail"} =>
        q.account \in Accounts /\ Row(q.account) /\ q.purpose \in Purpose
  /\ q.at = "send_mail" =>
        q.token \in Tokens /\ link[q.token] = [purpose |-> q.purpose, account |-> q.account]
  /\ q.at \in {"reset_write", "verify_mark"} =>
        q.token \in spent /\ honoured[q.token] = 0 /\ link[q.token].account = q.account
  /\ q.at = "reset_write" =>
        q.password \in Passwords /\ link[q.token].purpose = "reset_password"
  /\ q.at = "verify_mark" => link[q.token].purpose = "verify_email"
  /\ q.at = "change_write" =>
        q.account \in Accounts /\ Row(q.account) /\ q.password \in Passwords

\* A token is in one request's hands at a time, and only made for an account.
TokensSound ==
  /\ \A r, s \in Requests, k \in Tokens : Effecting(r, k) /\ Effecting(s, k) => r = s
  /\ \A k \in Tokens : link[k] # NoLink => Row(link[k].account)
  /\ \A k \in Tokens : k \in spent \/ k \in mailbox \/ honoured[k] # 0 => link[k] # NoLink
  /\ \A k \in Tokens : honoured[k] # 0 => k \in spent

RowsSound ==
  \A a \in Accounts : (Row(a) <=> email[a] # None) /\ (Row(a) <=> password[a] # None)

AccountInv ==
  /\ TypeOK
  /\ RowsSound
  /\ TokensSound
  /\ \A r \in Requests : RequestSound(req[r])
  /\ OneAccountEach
  /\ SingleUse
  /\ SpentIsHonoured
  /\ RegisteredCanVerify
=============================================================================
