----------------------------- MODULE WebSession -----------------------------
(***************************************************************************)
(* The session of the web client against the auth service.  A browser tab  *)
(* is single-threaded, but every `await` lets its other calls run: api.js  *)
(* and stores/auth.js read and write the tab's tokens on both sides of     *)
(* their fetches.  All tabs share localStorage; each has tokens of its own *)
(* in memory, loaded from there when the page is.                          *)
(*                                                                         *)
(* A call slot c is one use of request(), login() or logout(); call[c].at  *)
(* says where it is, in the client or in the service's handler.            *)
(***************************************************************************)
EXTENDS RefreshTokens, Naturals, FiniteSets

CONSTANTS
  Tabs, Calls,
  NoPair, NoTab,
  MaxFaults     \* bound: calls that fail in the network or the service

ASSUME SessionAssumption ==
  NoPair \notin Pairs /\ NoTab \notin Tabs /\ MaxFaults \in Nat

VARIABLES
  memory,    \* memory[t]: the pair in tab t's store, or NoPair
  stored,    \* the pair in localStorage, or NoPair
  call,      \* the call in each slot
  faults,
  (* history *)
  signedOut  \* sign-ins of which a logout revoked the live refresh token

vars == <<tokenVars, memory, stored, call, faults, signedOut>>

Point == {"idle", "signing", "signed", "sent", "refresh", "saving", "granted",
          "refused", "retry", "leaving", "left"}

Call == [at    : Point,
         tab   : Tabs \cup {NoTab},     \* NoTab: the page that waited is gone
         pair  : Pairs \cup {NoPair},   \* sent, or on its way back
         login : Logins \cup {NoLogin},
         retry : BOOLEAN]               \* a 401 may still be retried

Idle == [at |-> "idle", tab |-> NoTab, pair |-> NoPair, login |-> NoLogin,
         retry |-> FALSE]

TypeOK ==
  /\ TokensTypeOK
  /\ memory \in [Tabs -> Pairs \cup {NoPair}]
  /\ stored \in Pairs \cup {NoPair}
  /\ call \in [Calls -> Call]
  /\ faults \in 0 .. MaxFaults
  /\ signedOut \subseteq Logins

Init ==
  /\ TokensInit
  /\ memory = [t \in Tabs |-> NoPair]
  /\ stored = NoPair
  /\ call = [c \in Calls |-> Idle]
  /\ faults = 0
  /\ signedOut = {}

-----------------------------------------------------------------------------
At(c, point) == call[c].at = point
Start(c, x) == At(c, "idle") /\ call' = [call EXCEPT ![c] = x]
Finish(c) == call' = [call EXCEPT ![c] = Idle]

\* The tab's store and localStorage are written together.
Keep(t, k) == memory' = [memory EXCEPT ![t] = k] /\ stored' = k

\* Bound: a call is only begun while there are pairs for all calls under way.
Spare ==
  Cardinality({c \in Calls : ~At(c, "idle")})
    < Cardinality({k \in Pairs : refresh[k] = "none"})

(* What the user does *)

\* login(): the router shows the form to every tab, signed in or not.
SignIn(c, t, l) ==
  /\ Spare
  /\ \A k \in Pairs : login[k] # l
  /\ \A d \in Calls : call[d].login # l
  /\ Start(c, [Idle EXCEPT !.at = "signing", !.tab = t, !.login = l])
  /\ UNCHANGED <<tokenVars, memory, stored, faults, signedOut>>

\* request(): the tab's access token goes into the header.
Request(c, t) ==
  /\ memory[t] # NoPair /\ Spare
  /\ Start(c, [Idle EXCEPT !.at = "sent", !.tab = t, !.pair = memory[t],
                           !.retry = TRUE])
  /\ UNCHANGED <<tokenVars, memory, stored, faults, signedOut>>

SignOut(c, t) ==
  /\ memory[t] # NoPair
  /\ Start(c, [Idle EXCEPT !.at = "leaving", !.tab = t, !.pair = memory[t]])
  /\ UNCHANGED <<tokenVars, memory, stored, faults, signedOut>>

\* The page is loaded again (or first): its calls are forgotten, its store is
\* read from localStorage.
Reload(t) ==
  /\ memory' = [memory EXCEPT ![t] = stored]
  /\ call' = [c \in Calls |-> IF call[c].tab = t
                              THEN [call[c] EXCEPT !.tab = NoTab] ELSE call[c]]
  /\ UNCHANGED <<tokenVars, stored, faults, signedOut>>

-----------------------------------------------------------------------------
(* The service *)

\* Refresh, first statement.
Rotate(c) ==
  /\ At(c, "refresh")
  /\ RotateRefresh(call[c].pair)
  /\ call' = IF Rotatable(call[c].pair)
             THEN [call EXCEPT ![c].at = "saving", ![c].login = login[call[c].pair]]
             ELSE [call EXCEPT ![c].at = "refused"]
  /\ UNCHANGED <<memory, stored, faults, signedOut>>

\* Refresh, last statement, and Login once the password is right.
Issue(c, k) ==
  /\ At(c, "saving") \/ At(c, "signing")
  /\ IssuePair(k, call[c].login)
  /\ call' = [call EXCEPT ![c].at = IF At(c, "saving") THEN "granted" ELSE "signed",
                          ![c].pair = k]
  /\ UNCHANGED <<memory, stored, faults, signedOut>>

Logout(c) ==
  /\ At(c, "leaving")
  /\ RevokeRefresh(call[c].pair)
  /\ signedOut' = IF refresh[call[c].pair] = "live"
                  THEN signedOut \cup {login[call[c].pair]} ELSE signedOut
  /\ call' = [call EXCEPT ![c].at = "left"]
  /\ UNCHANGED <<memory, stored, faults>>

\* A call fails: it never reaches the service, the service ends it between two
\* statements, or the answer is lost.  What the client makes of it is an error.
Fail(c) ==
  /\ faults < MaxFaults /\ faults' = faults + 1
  /\ \/ /\ call[c].at \in {"refresh", "saving", "granted"}
        /\ call' = [call EXCEPT ![c].at = "refused"]
     \/ /\ At(c, "leaving")
        /\ call' = [call EXCEPT ![c].at = "left"]
     \/ /\ call[c].at \in {"sent", "signing", "signed"}
        /\ Finish(c)
  /\ UNCHANGED <<tokenVars, memory, stored, signedOut>>

-----------------------------------------------------------------------------
(* The client, when an answer arrives *)

Waiting(c, point) == At(c, point) /\ call[c].tab # NoTab

\* Authenticated() accepts the access token.
Answered(c) ==
  /\ Waiting(c, "sent") /\ call[c].pair \in access
  /\ Finish(c)
  /\ UNCHANGED <<tokenVars, memory, stored, faults, signedOut>>

\* Mutant: the retried request may be retried again.
UnauthorizedAgain(c) ==
  /\ Waiting(c, "sent") /\ call[c].pair \notin access
  /\ LET k == memory[call[c].tab] IN
       IF k # NoPair
       THEN call' = [call EXCEPT ![c].at = "refresh", ![c].pair = k]
       ELSE Finish(c)
  /\ UNCHANGED <<tokenVars, memory, stored, faults, signedOut>>

\* A 401: refresh() sends the refresh token the store holds now; a request
\* that was retried already, or finds none, just fails.
Unauthorized(c) ==
  /\ Waiting(c, "sent") /\ call[c].pair \notin access
  /\ LET k == memory[call[c].tab] IN
       IF call[c].retry /\ k # NoPair
       THEN call' = [call EXCEPT ![c].at = "refresh", ![c].pair = k,
                                 ![c].retry = FALSE]
       ELSE Finish(c)
  /\ UNCHANGED <<tokenVars, memory, stored, faults, signedOut>>

\* refresh() stores the new pair, whatever the store holds by now.
Granted(c) ==
  /\ Waiting(c, "granted")
  /\ Keep(call[c].tab, call[c].pair)
  /\ call' = [call EXCEPT ![c].at = "retry"]
  /\ UNCHANGED <<tokenVars, faults, signedOut>>

Retry(c) ==
  /\ Waiting(c, "retry")
  /\ call' = [call EXCEPT ![c].at = "sent", ![c].pair = memory[call[c].tab]]
  /\ UNCHANGED <<tokenVars, memory, stored, faults, signedOut>>

\* refresh() has returned false: logoutLocal() wipes what the store holds now.
Refused(c) ==
  /\ Waiting(c, "refused")
  /\ Keep(call[c].tab, NoPair)
  /\ Finish(c)
  /\ UNCHANGED <<tokenVars, faults, signedOut>>

Signed(c) ==
  /\ Waiting(c, "signed")
  /\ Keep(call[c].tab, call[c].pair)
  /\ Finish(c)
  /\ UNCHANGED <<tokenVars, faults, signedOut>>

Left(c) ==
  /\ Waiting(c, "left")
  /\ Keep(call[c].tab, NoPair)
  /\ Finish(c)
  /\ UNCHANGED <<tokenVars, faults, signedOut>>

\* Nobody waits for the answer any more.
Abandoned(c) ==
  /\ ~At(c, "idle") /\ call[c].tab = NoTab
  /\ Finish(c)
  /\ UNCHANGED <<tokenVars, memory, stored, faults, signedOut>>

-----------------------------------------------------------------------------
Begin(c) ==
  \/ \E t \in Tabs : Request(c, t) \/ SignOut(c, t)
  \/ \E t \in Tabs, l \in Logins : SignIn(c, t, l)

Proceed(c) ==
  \/ Rotate(c) \/ Logout(c) \/ \E k \in Pairs : Issue(c, k)
  \/ Answered(c) \/ Unauthorized(c) \/ Granted(c) \/ Retry(c) \/ Refused(c)
  \/ Signed(c) \/ Left(c) \/ Abandoned(c)

Expiry ==
  /\ \E k \in Pairs : AccessExpires(k) \/ RefreshExpires(k)
  /\ UNCHANGED <<memory, stored, call, faults, signedOut>>

Next ==
  \/ \E c \in Calls : Begin(c) \/ Proceed(c) \/ Fail(c)
  \/ \E t \in Tabs : Reload(t)
  \/ Expiry

\* Every call that was made comes to an end: handlers are scheduled, answers
\* (or their failure) arrive, the tab runs its continuations.
Spec == Init /\ [][Next]_vars /\ \A c \in Calls : WF_vars(Proceed(c))
-----------------------------------------------------------------------------
(* Properties *)

\* Of all the tokens that descend from one sign-in, at most one can be used:
\* it is live, or the service has revoked it and is about to issue the next.
LiveOf(l) == {k \in Pairs : refresh[k] = "live" /\ login[k] = l}
Issued(k) == k \in Pairs /\ refresh[k] # "none"
IssuingFor(l) == {c \in Calls : call[c].at \in {"saving", "signing"} /\ call[c].login = l}

OneChain ==
  \A l \in Logins :
    /\ \A j, k \in LiveOf(l) : j = k
    /\ \A c, d \in IssuingFor(l) : c = d
    /\ LiveOf(l) = {} \/ IssuingFor(l) = {}

\* Logout invalidates refresh: once it has revoked the token that was live, the
\* sign-in is over for good.  No token of it is live again, and no call of any
\* tab, retried or delayed, is about to issue one.  (A logout that arrives
\* while a refresh is between its statements, or with a token another tab has
\* rotated, finds nothing live to revoke: then the sign-in goes on.)
LogoutIsFinal ==
  \A l \in signedOut : LiveOf(l) = {} /\ IssuingFor(l) = {}

\* A sign-in that no token can go on with, signed out, expired or cut off between
\* the statements of a refresh, ...
Over(l) ==
  /\ \E k \in Pairs : Issued(k) /\ login[k] = l
  /\ LiveOf(l) = {} /\ IssuingFor(l) = {}

\* ... is over for good: no delayed or retried call of any tab takes it up again.
StaysOver == [][\A l \in Logins : Over(l) => Over(l)']_vars

\* Without failures a refresh is refused only to a token that is dead: no two
\* calls can both be refused the same live token.
RefusedIsDead ==
  \A c \in Calls :
     At(c, "refused") /\ faults = 0 => refresh[call[c].pair] \in {"revoked", "expired"}

\* What OneChain rests on: pairs that are held, sent or answered were issued,
\* issued pairs descend from a sign-in, and so does a pair about to be issued.
PairsSound ==
  /\ \A k \in Pairs : refresh[k] # "none" => login[k] \in Logins
  /\ \A t \in Tabs : memory[t] # NoPair => Issued(memory[t])
  /\ stored # NoPair => Issued(stored)

CallSound(x) ==
  /\ x.at \in {"refresh", "saving", "granted", "signed", "leaving", "refused"} =>
        Issued(x.pair)
  /\ x.at \in {"signing", "saving"} => x.login \in Logins

SessionInv ==
  /\ TypeOK
  /\ PairsSound
  /\ \A c \in Calls : CallSound(call[c])
  /\ OneChain
  /\ LogoutIsFinal
  /\ \A l \in signedOut : \E k \in Pairs : Issued(k) /\ login[k] = l

\* A request is retried at most once, so it ends even if its access token
\* expires again and again.
RequestsEnd == \A c \in Calls : At(c, "sent") ~> At(c, "idle")

\* Why: the steps that a call has before it, at most.  Each one it takes lowers
\* their number, and nothing else that happens raises it.
Ahead == [idle |-> 0, sent |-> 1, retry |-> 2, granted |-> 3, saving |-> 4,
          refresh |-> 5, refused |-> 1, signing |-> 2, signed |-> 1,
          leaving |-> 2, left |-> 1]
StepsLeft(x) == Ahead[x.at] + IF x.retry THEN 5 ELSE 0

CallsGetOn ==
  [][\A c \in Calls :
       /\ At(c, "idle") \/ StepsLeft(call'[c]) <= StepsLeft(call[c])
       /\ Proceed(c) => StepsLeft(call'[c]) < StepsLeft(call[c])]_vars

\* The client forgets its tokens over a refused refresh only when the refresh
\* token it holds is dead: "transparently refreshes the access token ... and
\* retries the request once".
LiveSessionKept ==
  [][\A c \in Calls :
        /\ At(c, "refused") /\ call'[c].at = "idle" /\ call[c].tab # NoTab
        /\ memory[call[c].tab] # NoPair
        => refresh[memory[call[c].tab]] # "live"]_vars

\* Where LiveSessionKept can be promised: no two calls of a tab overlap.  A call
\* that refreshes then has the token that its tab holds until it is answered.
OneCallPerTab ==
  \A c, d \in Calls : c # d /\ call[c].tab # NoTab => call[d].tab # call[c].tab

TabHolds ==
  \A c \in Calls :
    call[c].at \in {"refresh", "refused"} /\ call[c].tab # NoTab
      => memory[call[c].tab] = call[c].pair
=============================================================================
