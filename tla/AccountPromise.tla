--------------------------- MODULE AccountPromise ---------------------------
(***************************************************************************)
(* What the account part of the auth API promises, with no requests and no *)
(* statements: an account is registered once; a link mailed for a purpose  *)
(* and an account is redeemed at most once, for that purpose and that      *)
(* account, and redeeming it does what it was mailed for in one step.      *)
(***************************************************************************)
CONSTANTS Accounts, Passwords, Tokens, None

VARIABLES
  password,   \* password[a], or None before a is registered
  verified,   \* accounts whose email is verified
  link,       \* link[k]: what token k was made for, or NoLink
  redeemed    \* tokens that have been redeemed

vars == <<password, verified, link, redeemed>>

NoLink == [purpose |-> "none", account |-> None]

Init ==
  /\ password = [a \in Accounts |-> None]
  /\ verified = {}
  /\ link = [k \in Tokens |-> NoLink]
  /\ redeemed = {}

Registered(a) == password[a] # None
Give(a, p) == password' = [password EXCEPT ![a] = p]

Register(a, p) ==
  /\ ~Registered(a) /\ Give(a, p)
  /\ UNCHANGED <<verified, link, redeemed>>

\* The holder of the account changes the password.
Change(a, p) ==
  /\ Registered(a) /\ Give(a, p)
  /\ UNCHANGED <<verified, link, redeemed>>

MakeLink(k, a, purpose) ==
  /\ link[k] = NoLink /\ Registered(a)
  /\ link' = [link EXCEPT ![k] = [purpose |-> purpose, account |-> a]]
  /\ UNCHANGED <<password, verified, redeemed>>

Redeem(k, purpose) ==
  /\ link[k].purpose = purpose /\ k \notin redeemed
  /\ redeemed' = redeemed \cup {k}
  /\ UNCHANGED link

Reset(k, p) ==
  /\ Redeem(k, "reset_password")
  /\ Give(link[k].account, p)
  /\ UNCHANGED verified

Verify(k) ==
  /\ Redeem(k, "verify_email")
  /\ verified' = verified \cup {link[k].account}
  /\ UNCHANGED password

Next ==
  \/ \E a \in Accounts, p \in Passwords : Register(a, p) \/ Change(a, p)
  \/ \E a \in Accounts, k \in Tokens : MakeLink(k, a, "verify_email")
                                    \/ MakeLink(k, a, "reset_password")
  \/ \E k \in Tokens : Verify(k) \/ \E p \in Passwords : Reset(k, p)

Spec == Init /\ [][Next]_vars
=============================================================================
