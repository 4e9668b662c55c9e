---------------------------- MODULE RefreshTokens ----------------------------
(***************************************************************************)
(* The auth service's token pairs.  A pair k is the access token (a JWT    *)
(* that only time invalidates) and the refresh token (a row of             *)
(* refresh_tokens) that one call of issuePair creates.  The operators are  *)
(* the service's SQL statements; each is atomic.                           *)
(***************************************************************************)
CONSTANTS
  Pairs,     \* token pairs: two fresh UUIDs each, never issued twice
  Logins,    \* sign-ins, from each of which a chain of rotations starts
  NoLogin

ASSUME LoginAssumption == NoLogin \notin Logins

VARIABLES
  refresh,   \* the row of the refresh token: "none", "live", "revoked", "expired"
  access,    \* pairs whose access token has not expired
  login      \* history: the sign-in a pair descends from

tokenVars == <<refresh, access, login>>

TokensTypeOK ==
  /\ refresh \in [Pairs -> {"none", "live", "revoked", "expired"}]
  /\ access \subseteq Pairs
  /\ login \in [Pairs -> Logins \cup {NoLogin}]

TokensInit ==
  /\ refresh = [k \in Pairs |-> "none"]
  /\ access = {}
  /\ login = [k \in Pairs |-> NoLogin]

\* issuePair: SaveRefresh inserts the row of a new token.
IssuePair(k, l) ==
  /\ refresh[k] = "none"
  /\ refresh' = [refresh EXCEPT ![k] = "live"]
  /\ access'  = access \cup {k}
  /\ login'   = [login EXCEPT ![k] = l]

\* Mutant: the UPDATE does not ask for revoked_at IS NULL.
RotatableAgain(k) == refresh[k] \in {"live", "revoked"}

\* Mutant: a refresh needs an access token that has not expired.
RotatableFresh(k) == refresh[k] = "live" /\ k \in access

\* RotateRefresh: UPDATE ... WHERE token_hash = k AND revoked_at IS NULL AND
\* expires_at > now(); an UPDATE that finds no row is refused.
Rotatable(k) == refresh[k] = "live"

RotateRefresh(k) ==
  /\ refresh' = IF Rotatable(k) THEN [refresh EXCEPT ![k] = "revoked"] ELSE refresh
  /\ UNCHANGED <<access, login>>

\* RevokeRefresh: WHERE token_hash = k AND revoked_at IS NULL.
RevokeRefresh(k) ==
  /\ refresh' = IF refresh[k] \in {"live", "expired"}
                THEN [refresh EXCEPT ![k] = "revoked"] ELSE refresh
  /\ UNCHANGED <<access, login>>

\* Fifteen minutes, or seven days, have passed.
AccessExpires(k) ==
  /\ k \in access
  /\ access' = access \ {k}
  /\ UNCHANGED <<refresh, login>>

RefreshExpires(k) ==
  /\ refresh[k] = "live"
  /\ refresh' = [refresh EXCEPT ![k] = "expired"]
  /\ access' = access \ {k}
  /\ UNCHANGED login
=============================================================================
