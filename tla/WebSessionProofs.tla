-------------------------- MODULE WebSessionProofs --------------------------
(***************************************************************************)
(* SessionInv is an inductive invariant of the web sessions, for any pairs,*)
(* sign-ins, tabs, calls and failures: however many calls of however many  *)
(* tabs refresh at once, one sign-in never has two usable refresh tokens.  *)
(***************************************************************************)
EXTENDS WebSession, TLAPS

\* The invariant holds before anybody has signed in.
LEMMA InitInv == Init => SessionInv
  <1> SUFFICES ASSUME Init PROVE SessionInv
    OBVIOUS
  <1> USE DEF Init, TokensInit
  <1>1. TypeOK
    BY SessionAssumption DEF TypeOK, TokensTypeOK, Call, Idle, Point
  <1>2. PairsSound
    BY DEF PairsSound, Issued
  <1>3. \A c \in Calls : CallSound(call[c])
    BY DEF CallSound, Idle
  <1>4. OneChain
    BY DEF OneChain, LiveOf, IssuingFor, Idle
  <1>5. signedOut = {}
    OBVIOUS
  <1> QED
    BY <1>1, <1>2, <1>3, <1>4, <1>5 DEF SessionInv, LogoutIsFinal

\* What every step on a call needs of it: its type and its soundness.
LEMMA CallFacts ==
  ASSUME SessionInv, NEW c \in Calls
  PROVE  /\ call \in [Calls -> Call]
         /\ call[c] \in Call
         /\ call[c].at \in Point /\ call[c].tab \in Tabs \cup {NoTab}
         /\ call[c].pair \in Pairs \cup {NoPair}
         /\ call[c].login \in Logins \cup {NoLogin}
         /\ call[c].retry \in BOOLEAN
         /\ CallSound(call[c])
  BY DEF SessionInv, TypeOK, Call

\* A step that replaces one call by a well-typed one keeps the type of calls.
LEMMA OneCall ==
  ASSUME NEW c \in Calls, call \in [Calls -> Call], NEW x \in Call,
         call' = [call EXCEPT ![c] = x]
  PROVE  call' \in [Calls -> Call]
  OBVIOUS

\* A 401 ends the call, or sends the refresh token the tab holds.
LEMMA UnauthorizedStep ==
  ASSUME SessionInv, NEW c \in Calls, Unauthorized(c)
  PROVE  \/ call' = [call EXCEPT ![c] = Idle]
         \/ \E k \in Pairs : /\ Issued(k)
                            /\ call' = [call EXCEPT ![c].at = "refresh", ![c].pair = k,
                                                    ![c].retry = FALSE]
  <1> DEFINE k == memory[call[c].tab]
  <1>1. call[c].tab \in Tabs /\ k \in Pairs \cup {NoPair}
    BY CallFacts DEF Unauthorized, Waiting, SessionInv, TypeOK
  <1>2. k # NoPair => Issued(k)
    BY <1>1 DEF SessionInv, PairsSound
  <1>3. CASE call[c].retry /\ k # NoPair
    BY <1>1, <1>2, <1>3 DEF Unauthorized
  <1>4. CASE ~(call[c].retry /\ k # NoPair)
    BY <1>4 DEF Unauthorized, Finish
  <1> QED
    BY <1>3, <1>4

\* Issued pairs stay issued.
LEMMA IssuedStays ==
  ASSUME SessionInv, [Next]_vars, NEW k, Issued(k)
  PROVE  Issued(k)'
  BY DEF SessionInv, TypeOK, TokensTypeOK, Issued, Next, vars, tokenVars, Begin, Proceed,
         Expiry, SignIn, Request, SignOut, Reload, Rotate, Issue, Logout, Fail, Answered,
         Unauthorized, Granted, Retry, Refused, Signed, Left, Abandoned, IssuePair,
         RotateRefresh, RevokeRefresh, AccessExpires, RefreshExpires

-----------------------------------------------------------------------------
(* Types *)

\* Every step keeps the types of all variables.
LEMMA TypeStep == SessionInv /\ [Next]_vars => TypeOK'
  <1> SUFFICES ASSUME SessionInv, [Next]_vars PROVE TypeOK'
    OBVIOUS
  <1> USE DEF TypeOK, TokensTypeOK, tokenVars
  <1>0. TypeOK /\ PairsSound
    BY DEF SessionInv
  <1>1. CASE UNCHANGED vars
    BY <1>0, <1>1 DEF vars
  <1>2. ASSUME NEW c \in Calls, Begin(c) PROVE TypeOK'
    <2>1. ASSUME NEW t \in Tabs, NEW l \in Logins, SignIn(c, t, l) PROVE TypeOK'
      BY <1>0, <2>1 DEF SignIn, Start, Call, Idle, Point
    <2>2. ASSUME NEW t \in Tabs, Request(c, t) PROVE TypeOK'
      BY <1>0, <2>2 DEF Request, Start, Call, Idle, Point
    <2>3. ASSUME NEW t \in Tabs, SignOut(c, t) PROVE TypeOK'
      BY <1>0, <2>3 DEF SignOut, Start, Call, Idle, Point
    <2> QED
      BY <1>2, <2>1, <2>2, <2>3 DEF Begin
  <1>3. ASSUME NEW c \in Calls, Proceed(c) PROVE TypeOK'
    <2>0. /\ call[c] \in Call /\ CallSound(call[c])
          /\ Idle \in Call
      BY CallFacts, <1>0 DEF Call, Idle, Point
    <2>1. CASE Rotate(c)
      <3>1. call[c].pair \in Pairs
        BY <2>0, <2>1 DEF Rotate, At, CallSound, Issued
      <3>2. call' \in [Calls -> Call]
        BY <1>0, <2>0, <2>1, <3>1 DEF Rotate, Call, Point
      <3> QED
        BY <1>0, <2>1, <3>1, <3>2 DEF Rotate, RotateRefresh
    <2>2. ASSUME NEW k \in Pairs, Issue(c, k) PROVE TypeOK'
      <3>1. call' \in [Calls -> Call]
        BY <1>0, <2>0, <2>2 DEF Issue, Call, Point
      <3>2. call[c].login \in Logins
        BY <2>0, <2>2 DEF Issue, At, CallSound
      <3> QED
        BY <1>0, <2>2, <3>1, <3>2 DEF Issue, IssuePair
    <2>3. CASE Logout(c)
      <3>1. call[c].pair \in Pairs /\ login[call[c].pair] \in Logins
        BY <1>0, <2>0, <2>3 DEF Logout, At, CallSound, Issued, PairsSound
      <3>2. call' \in [Calls -> Call]
        BY <1>0, <2>0, <2>3 DEF Logout, Call, Point
      <3>3. refresh' \in [Pairs -> {"none", "live", "revoked", "expired"}]
        BY <1>0, <2>3, <3>1 DEF Logout, RevokeRefresh
      <3>4. UNCHANGED <<access, login, memory, stored, faults>>
        BY <2>3 DEF Logout, RevokeRefresh
      <3>5. signedOut' \subseteq Logins
        BY <1>0, <2>3, <3>1 DEF Logout
      <3> QED
        BY <1>0, <3>2, <3>3, <3>4, <3>5
    <2>4. CASE Unauthorized(c)
      <3>1. call' \in [Calls -> Call]
        <4>1. CASE call' = [call EXCEPT ![c] = Idle]
          BY <1>0, <2>0, <4>1
        <4>2. ASSUME NEW k \in Pairs,
                     call' = [call EXCEPT ![c].at = "refresh", ![c].pair = k,
                                          ![c].retry = FALSE]
              PROVE  call' \in [Calls -> Call]
          <5>1. [call[c] EXCEPT !.at = "refresh", !.pair = k, !.retry = FALSE] \in Call
            BY <2>0 DEF Call, Point
          <5> QED
            BY <1>0, <4>2, <5>1
        <4> QED
          BY <2>4, <4>1, <4>2, UnauthorizedStep
      <3> QED
        BY <1>0, <2>4, <3>1 DEF Unauthorized
    <2>5. CASE Granted(c) \/ Retry(c)
      <3>1. call[c].tab \in Tabs
        BY <2>0, <2>5 DEF Granted, Retry, Waiting, Call
      <3>2. call' \in [Calls -> Call]
        BY <1>0, <2>0, <2>5, <3>1 DEF Granted, Retry, Call, Point
      <3> QED
        BY <1>0, <2>0, <2>5, <3>1, <3>2 DEF Granted, Retry, Keep, Call
    <2>6. CASE Refused(c) \/ Signed(c) \/ Left(c) \/ Answered(c) \/ Abandoned(c)
      <3>1. call' \in [Calls -> Call]
        BY <1>0, <2>0, <2>6 DEF Refused, Signed, Left, Answered, Abandoned, Finish
      <3>2. memory' \in [Tabs -> Pairs \cup {NoPair}] /\ stored' \in Pairs \cup {NoPair}
        BY <1>0, <2>0, <2>6 DEF Refused, Signed, Left, Answered, Abandoned, Keep, Call
      <3> QED
        BY <1>0, <2>6, <3>1, <3>2 DEF Refused, Signed, Left, Answered, Abandoned
    <2> QED
      BY <1>3, <2>1, <2>2, <2>3, <2>4, <2>5, <2>6 DEF Proceed
  <1>4. ASSUME NEW c \in Calls, Fail(c) PROVE TypeOK'
    <2>1. call[c] \in Call /\ Idle \in Call
      BY <1>0 DEF Call, Idle, Point
    <2>2. call' \in [Calls -> Call]
      BY <1>0, <1>4, <2>1 DEF Fail, Finish, Call, Point
    <2>3. faults' \in 0 .. MaxFaults
      BY <1>0, <1>4, SessionAssumption DEF Fail
    <2>4. UNCHANGED <<refresh, access, login, memory, stored, signedOut>>
      BY <1>4 DEF Fail
    <2> QED
      BY <1>0, <2>2, <2>3, <2>4
  <1>5. ASSUME NEW t \in Tabs, Reload(t) PROVE TypeOK'
    BY <1>0, <1>5 DEF Reload, Call
  <1>6. CASE Expiry
    BY <1>0, <1>6 DEF Expiry, AccessExpires, RefreshExpires
  <1> QED
    BY <1>1, <1>2, <1>3, <1>4, <1>5, <1>6 DEF Next

-----------------------------------------------------------------------------
(* Pairs and calls *)

\* Pairs that are held were issued, and descend from a sign-in.
LEMMA PairsStep == SessionInv /\ [Next]_vars => PairsSound'
  <1> SUFFICES ASSUME SessionInv, [Next]_vars PROVE PairsSound'
    OBVIOUS
  <1>0. TypeOK /\ PairsSound /\ TokensTypeOK
    BY DEF SessionInv, TypeOK
  <1>1. \A k : Issued(k) => Issued(k)'
    BY IssuedStays
  <1>2. \A k \in Pairs : refresh'[k] # "none" => login'[k] \in Logins
    <2>1. CASE \E c \in Calls, k \in Pairs : Issue(c, k)
      <3>1. PICK c \in Calls, k \in Pairs : Issue(c, k)
        BY <2>1
      <3>2. call[c].login \in Logins
        BY <3>1, CallFacts DEF Issue, At, CallSound
      <3> QED
        BY <1>0, <3>1, <3>2 DEF Issue, IssuePair, PairsSound, TokensTypeOK
    <2>2. CASE ~ \E c \in Calls, k \in Pairs : Issue(c, k)
      <3>1. login' = login
        BY <2>2 DEF Next, vars, tokenVars, Begin, Proceed, Expiry, SignIn, Request,
           SignOut, Reload, Rotate, Logout, Fail, Answered, Unauthorized, Granted,
           Retry, Refused, Signed, Left, Abandoned, RotateRefresh, RevokeRefresh,
           AccessExpires, RefreshExpires
      <3>2. \A k \in Pairs : refresh'[k] # "none" => refresh[k] # "none"
        BY <1>0, <2>2 DEF Next, vars, tokenVars, Begin, Proceed, Expiry, SignIn, Request,
           SignOut, Reload, Rotate, Logout, Fail, Answered, Unauthorized, Granted,
           Retry, Refused, Signed, Left, Abandoned, RotateRefresh, RevokeRefresh,
           AccessExpires, RefreshExpires, TokensTypeOK, Rotatable
      <3> QED
        BY <1>0, <3>1, <3>2 DEF PairsSound
    <2> QED
      BY <2>1, <2>2
  <1>3. CASE /\ stored' = stored \/ stored' = NoPair \/ Issued(stored')
             /\ \A t \in Tabs : \/ memory'[t] = memory[t] \/ memory'[t] = stored
                                 \/ memory'[t] = NoPair \/ Issued(memory'[t])
    BY <1>0, <1>1, <1>2, <1>3 DEF PairsSound, Issued
  <1>4. ASSUME NEW c \in Calls, Granted(c) \/ Signed(c) \/ Refused(c) \/ Left(c)
        PROVE  /\ stored' = NoPair \/ Issued(stored')
               /\ \A t \in Tabs : \/ memory'[t] = memory[t] \/ memory'[t] = NoPair
                                   \/ Issued(memory'[t])
    <2>1. Granted(c) \/ Signed(c) => Issued(call[c].pair)
      BY CallFacts DEF Granted, Signed, Waiting, At, CallSound
    <2> QED
      BY <1>0, <1>4, <2>1 DEF Granted, Signed, Refused, Left, Keep, TypeOK
  <1>5. CASE \E t \in Tabs : Reload(t)
    BY <1>0, <1>3, <1>5 DEF Reload, TypeOK
  <1>6. CASE UNCHANGED <<memory, stored>>
    BY <1>3, <1>6
  <1> QED
    BY <1>3, <1>4, <1>5, <1>6 DEF Next, vars, Begin, Proceed, Expiry, SignIn, Request,
       SignOut, Rotate, Issue, Logout, Fail, Answered, Unauthorized, Retry, Abandoned

\* The calls under way stay sound: the step of one does not disturb another.
LEMMA CallsStep == SessionInv /\ [Next]_vars => \A c \in Calls : CallSound(call[c])'
  <1> SUFFICES ASSUME SessionInv, [Next]_vars, NEW d \in Calls
               PROVE  CallSound(call[d])'
    OBVIOUS
  <1>0. /\ TypeOK /\ PairsSound /\ CallSound(call[d]) /\ call[d] \in Call
        /\ call \in [Calls -> Call]
        /\ \A k : Issued(k) => Issued(k)'
    BY CallFacts, IssuedStays DEF SessionInv
  <1>1. CASE \/ call'[d] = call[d] \/ call'[d] = Idle
             \/ call'[d] = [call[d] EXCEPT !.tab = NoTab]
    BY <1>0, <1>1 DEF CallSound, Idle, Call
  <1>2. CASE /\ call'[d].at \in {"sent", "retry", "left"}
    BY <1>2 DEF CallSound
  <1>3. ASSUME NEW c \in Calls, Begin(c) PROVE CallSound(call[d])'
    <2>1. CASE d # c
      BY <1>0, <1>1, <1>3, <2>1 DEF Begin, SignIn, Request, SignOut, Start
    <2>2. CASE d = c
      BY <1>0, <1>3, <2>2 DEF Begin, SignIn, Request, SignOut, Start, Idle, CallSound,
         PairsSound
    <2> QED
      BY <2>1, <2>2
  <1>4. ASSUME NEW c \in Calls, Proceed(c) \/ Fail(c) PROVE CallSound(call[d])'
    <2>1. CASE d # c
      <3>1. call'[d] = call[d]
        BY <1>0, <1>4, <2>1 DEF Proceed, Rotate, Issue, Logout, Fail, Answered,
           Unauthorized, Granted, Retry, Refused, Signed, Left, Abandoned, Finish
      <3> QED
        BY <1>1, <3>1
    <2>2. CASE d = c
      <3>1. CASE Rotate(c)
        <4>1. Issued(call[c].pair) /\ login[call[c].pair] \in Logins
          BY <1>0, <2>2, <3>1 DEF Rotate, At, CallSound, Issued, PairsSound
        <4>2. call'[c].pair = call[c].pair /\ call'[c].at \in {"saving", "refused"}
          BY <1>0, <3>1 DEF Rotate, Call
        <4>3. call'[c].at = "saving" => call'[c].login \in Logins
          BY <1>0, <3>1, <4>1 DEF Rotate, Call
        <4> QED
          BY <1>0, <2>2, <4>1, <4>2, <4>3 DEF CallSound
      <3>2. ASSUME NEW k \in Pairs, Issue(c, k) PROVE CallSound(call[d])'
        <4>1. Issued(k)'
          BY <1>0, <3>2 DEF Issue, IssuePair, Issued, TypeOK, TokensTypeOK
        <4>2. call'[c].pair = k /\ call'[c].at \in {"granted", "signed"}
          BY <1>0, <3>2 DEF Issue, Call
        <4> QED
          BY <2>2, <4>1, <4>2 DEF CallSound
      <3>3. CASE Unauthorized(c)
        <4>1. CASE call' = [call EXCEPT ![c] = Idle]
          <5>1. call'[d] = Idle
            BY <1>0, <2>2, <4>1
          <5> QED
            BY <1>1, <5>1
        <4>2. ASSUME NEW k \in Pairs, Issued(k),
                     call' = [call EXCEPT ![c].at = "refresh", ![c].pair = k,
                                          ![c].retry = FALSE]
              PROVE  CallSound(call[d])'
          <5>1. call'[d].at = "refresh" /\ call'[d].pair = k
            BY <1>0, <2>2, <4>2 DEF Call
          <5>2. Issued(k)'
            BY <1>0, <4>2
          <5> QED
            BY <5>1, <5>2 DEF CallSound
        <4> QED
          BY <3>3, <4>1, <4>2, UnauthorizedStep
      <3>4. CASE Logout(c) \/ Granted(c) \/ Retry(c)
        BY <1>0, <1>2, <2>2, <3>4 DEF Logout, Granted, Retry, Call
      <3>5. CASE Answered(c) \/ Refused(c) \/ Signed(c) \/ Left(c) \/ Abandoned(c)
        BY <1>0, <1>1, <2>2, <3>5 DEF Answered, Refused, Signed, Left, Abandoned, Finish
      <3>6. CASE Fail(c)
        <4>1. CASE call'[c] = Idle \/ call'[c].at = "left"
          BY <1>1, <1>2, <2>2, <4>1
        <4>2. CASE /\ call[c].at \in {"refresh", "saving", "granted"}
                   /\ call' = [call EXCEPT ![c].at = "refused"]
          BY <1>0, <2>2, <4>2 DEF CallSound, Call
        <4> QED
          BY <1>0, <3>6, <4>1, <4>2 DEF Fail, Finish, Call
      <3> QED
        BY <1>4, <3>1, <3>2, <3>3, <3>4, <3>5, <3>6 DEF Proceed
    <2> QED
      BY <2>1, <2>2
  <1>5. CASE \/ \E t \in Tabs : Reload(t)
             \/ Expiry \/ UNCHANGED vars
    BY <1>0, <1>1, <1>5 DEF Reload, Expiry, vars
  <1> QED
    BY <1>3, <1>4, <1>5 DEF Next

-----------------------------------------------------------------------------
(* One chain per sign-in *)

\* A step that issues nothing, rotates nothing and starts no sign-in leaves no
\* new holder of a usable token, so there is still at most one.
LEMMA NoNewHolder ==
  ASSUME OneChain,
         \A k \in Pairs : refresh'[k] = "live" => refresh[k] = "live" /\ login'[k] = login[k],
         \A c \in Calls : call'[c].at \in {"saving", "signing"} =>
            call[c].at \in {"saving", "signing"} /\ call'[c].login = call[c].login
  PROVE  OneChain'
  BY DEF OneChain, LiveOf, IssuingFor

\* Issue passes a sign-in's only usable token on from the call to the pair.
LEMMA IssueChain ==
  ASSUME SessionInv, NEW c \in Calls, NEW k \in Pairs, Issue(c, k)
  PROVE  OneChain'
  <1>0. /\ TypeOK /\ TokensTypeOK /\ OneChain
        /\ call \in [Calls -> Call]
    BY DEF SessionInv, TypeOK
  <1> DEFINE m == call[c].login
  <1>1. m \in Logins /\ call[c].at \in {"saving", "signing"}
    BY CallFacts DEF Issue, At, CallSound
  <1>2. /\ refresh'[k] = "live" /\ login'[k] = m
        /\ \A j \in Pairs : j # k => refresh'[j] = refresh[j] /\ login'[j] = login[j]
    BY <1>0 DEF Issue, IssuePair, TokensTypeOK
  <1>3. /\ call'[c].at \in {"granted", "signed"}
        /\ \A d \in Calls : d # c => call'[d] = call[d]
    BY <1>0 DEF Issue, Call
  <1>4. LiveOf(m) = {} /\ \A d \in IssuingFor(m) : d = c
    BY <1>0, <1>1 DEF OneChain, IssuingFor
  <1> QED
    BY <1>0, <1>1, <1>2, <1>3, <1>4 DEF OneChain, LiveOf, IssuingFor

\* Rotate passes it on from the pair to the call.
LEMMA RotateChain ==
  ASSUME SessionInv, NEW c \in Calls, Rotate(c)
  PROVE  OneChain'
  <1>0. /\ TypeOK /\ TokensTypeOK /\ OneChain
        /\ call \in [Calls -> Call] /\ call[c] \in Call
    BY CallFacts DEF SessionInv, TypeOK
  <1> DEFINE k == call[c].pair
             m == login[k]
  <1>1. k \in Pairs
    BY CallFacts DEF Rotate, At, CallSound, Issued
  <1>2. CASE refresh[k] = "live"
    <2>1. /\ refresh'[k] = "revoked" /\ login' = login
          /\ \A j \in Pairs : j # k => refresh'[j] = refresh[j]
      BY <1>0, <1>1, <1>2 DEF Rotate, RotateRefresh, Rotatable, TokensTypeOK
    <2>2. /\ call'[c].login = m
          /\ \A d \in Calls : d # c => call'[d] = call[d]
      BY <1>0, <1>2 DEF Rotate, Rotatable, Call
    <2>3. m \in Logins => /\ \A j \in LiveOf(m) : j = k
                          /\ IssuingFor(m) = {}
      BY <1>0, <1>1, <1>2 DEF OneChain, LiveOf
    <2> QED
      BY <1>0, <1>1, <2>1, <2>2, <2>3 DEF OneChain, LiveOf, IssuingFor
  <1>3. CASE refresh[k] # "live"
    <2>1. refresh' = refresh /\ login' = login
      BY <1>3 DEF Rotate, RotateRefresh, Rotatable
    <2>2. \A d \in Calls : call'[d] = call[d] \/ call'[d].at = "refused"
      BY <1>0, <1>3 DEF Rotate, Rotatable, Call
    <2> QED
      BY <1>0, <2>1, <2>2, NoNewHolder
  <1> QED
    BY <1>2, <1>3

\* A sign-in starts a chain of its own.
LEMMA SignInChain ==
  ASSUME SessionInv, NEW c \in Calls, NEW t \in Tabs, NEW l \in Logins, SignIn(c, t, l)
  PROVE  OneChain'
  <1>0. OneChain /\ call \in [Calls -> Call]
    BY DEF SessionInv, TypeOK
  <1>1. UNCHANGED <<refresh, login>> /\ LiveOf(l) = {} /\ IssuingFor(l) = {}
    BY DEF SignIn, tokenVars, LiveOf, IssuingFor
  <1>2. /\ call'[c].login = l
        /\ \A d \in Calls : d # c => call'[d] = call[d]
    BY <1>0 DEF SignIn, Start, Idle
  <1> QED
    BY <1>0, <1>1, <1>2 DEF OneChain, LiveOf, IssuingFor

\* At most one usable token per sign-in after every step.
LEMMA ChainStep == SessionInv /\ [Next]_vars => OneChain'
  <1> SUFFICES ASSUME SessionInv, [Next]_vars PROVE OneChain'
    OBVIOUS
  <1>0. /\ TypeOK /\ TokensTypeOK /\ OneChain
        /\ call \in [Calls -> Call]
    BY DEF SessionInv, TypeOK
  <1>1. ASSUME NEW c \in Calls, Begin(c) PROVE OneChain'
    <2>1. CASE \E t \in Tabs : Request(c, t) \/ SignOut(c, t)
      <3>1. UNCHANGED <<refresh, login>>
        BY <2>1 DEF Request, SignOut, tokenVars
      <3>2. \A d \in Calls : call'[d] = call[d] \/ call'[d].at \in {"sent", "leaving"}
        BY <1>0, <2>1 DEF Request, SignOut, Start, Idle
      <3> QED
        BY <1>0, <3>1, <3>2, NoNewHolder
    <2> QED
      BY <1>1, <2>1, SignInChain DEF Begin
  <1>2. ASSUME NEW c \in Calls, Proceed(c) \/ Fail(c) PROVE OneChain'
    <2>1. CASE Logout(c)
      <3>1. /\ login' = login
            /\ \A k \in Pairs : refresh'[k] = "live" => refresh[k] = "live"
        BY <1>0, <2>1 DEF Logout, RevokeRefresh, TokensTypeOK
      <3>2. \A d \in Calls : call'[d] = call[d] \/ call'[d].at = "left"
        BY <1>0, <2>1 DEF Logout, Call
      <3> QED
        BY <1>0, <3>1, <3>2, NoNewHolder
    <2>2. CASE \/ Answered(c) \/ Unauthorized(c) \/ Granted(c) \/ Retry(c)
               \/ Refused(c) \/ Signed(c) \/ Left(c) \/ Abandoned(c) \/ Fail(c)
      <3>1. UNCHANGED <<refresh, login>>
        BY <2>2 DEF Answered, Unauthorized, Granted, Retry, Refused, Signed, Left,
                    Abandoned, Fail, tokenVars
      <3>2. \A d \in Calls : \/ call'[d] = call[d]
                            \/ call'[d].at \in {"idle", "refresh", "retry", "sent",
                                                "refused", "left"}
        <4>1. CASE Unauthorized(c)
          <5>1. CASE call' = [call EXCEPT ![c] = Idle]
            BY <1>0, <5>1 DEF Idle
          <5>2. ASSUME NEW k \in Pairs,
                       call' = [call EXCEPT ![c].at = "refresh", ![c].pair = k,
                                            ![c].retry = FALSE]
                PROVE  \A d \in Calls : call'[d] = call[d] \/ call'[d].at = "refresh"
            BY <1>0, <5>2 DEF Call
          <5> QED
            BY <4>1, <5>1, <5>2, UnauthorizedStep
        <4> QED
          BY <1>0, <2>2, <4>1 DEF Answered, Granted, Retry, Refused, Signed, Left,
             Abandoned, Fail, Finish, Idle, Call
      <3> QED
        BY <1>0, <3>1, <3>2, NoNewHolder
    <2> QED
      BY <1>2, <2>1, <2>2, RotateChain, IssueChain DEF Proceed
  <1>3. CASE \E t \in Tabs : Reload(t)
    <2>1. UNCHANGED <<refresh, login>>
      BY <1>3 DEF Reload, tokenVars
    <2>2. \A d \in Calls : call'[d].at = call[d].at /\ call'[d].login = call[d].login
      BY <1>0, <1>3 DEF Reload, Call
    <2> QED
      BY <1>0, <2>1, <2>2, NoNewHolder
  <1>4. CASE Expiry
    <2>1. /\ login' = login /\ call' = call
          /\ \A k \in Pairs : refresh'[k] = "live" => refresh[k] = "live"
      BY <1>0, <1>4 DEF Expiry, AccessExpires, RefreshExpires, TokensTypeOK
    <2> QED
      BY <1>0, <2>1, NoNewHolder
  <1>5. CASE UNCHANGED vars
    BY <1>0, <1>5, NoNewHolder DEF vars, tokenVars
  <1> QED
    BY <1>1, <1>2, <1>3, <1>4, <1>5 DEF Next

-----------------------------------------------------------------------------
(* A sign-in that is over stays over, and a logout is final *)

\* The sign-in of an issued pair is known, and never reassigned.
LEMMA LoginStays ==
  ASSUME SessionInv, [Next]_vars, NEW k \in Pairs, Issued(k)
  PROVE  login'[k] = login[k]
  <1>0. TypeOK /\ TokensTypeOK
    BY DEF SessionInv, TypeOK
  <1>1. CASE \E c \in Calls, j \in Pairs : Issue(c, j)
    BY <1>0, <1>1 DEF Issue, IssuePair, Issued, TokensTypeOK
  <1>2. CASE ~ \E c \in Calls, j \in Pairs : Issue(c, j)
    BY <1>2 DEF Next, vars, tokenVars, Begin, Proceed, Expiry, SignIn, Request,
       SignOut, Reload, Rotate, Logout, Fail, Answered, Unauthorized, Granted,
       Retry, Refused, Signed, Left, Abandoned, RotateRefresh, RevokeRefresh,
       AccessExpires, RefreshExpires
  <1> QED
    BY <1>1, <1>2

\* It is over as long as no token of it becomes live and no call starts to issue
\* one.
LEMMA NothingNew ==
  ASSUME SessionInv, [Next]_vars, NEW l \in Logins, Over(l),
         \A k \in Pairs : refresh'[k] = "live" /\ login'[k] = l =>
            refresh[k] = "live" /\ login[k] = l,
         \A c \in Calls : call'[c].at \in {"saving", "signing"} /\ call'[c].login = l =>
            call[c].at \in {"saving", "signing"} /\ call[c].login = l
  PROVE  Over(l)'
  <1>1. PICK k \in Pairs : Issued(k) /\ login[k] = l
    BY DEF Over
  <1>2. Issued(k)' /\ login'[k] = l
    BY <1>1, IssuedStays, LoginStays
  <1>3. LiveOf(l)' = {} /\ IssuingFor(l)' = {}
    BY DEF Over, LiveOf, IssuingFor
  <1> QED
    BY <1>2, <1>3 DEF Over

\* Who signs in does so anew, and who rotates or issues does so for a sign-in
\* that is not over.
LEMMA OverStep ==
  ASSUME SessionInv, [Next]_vars, NEW l \in Logins, Over(l)
  PROVE  Over(l)'
  <1>0. /\ TypeOK /\ TokensTypeOK /\ call \in [Calls -> Call]
        /\ LiveOf(l) = {} /\ IssuingFor(l) = {}
        /\ \E k \in Pairs : Issued(k) /\ login[k] = l
    BY DEF SessionInv, TypeOK, Over
  <1>1. ASSUME NEW c \in Calls, Begin(c) PROVE Over(l)'
    <2>1. UNCHANGED <<refresh, login>>
      BY <1>1 DEF Begin, SignIn, Request, SignOut, tokenVars
    <2>2. \A d \in Calls : \/ call'[d] = call[d] \/ call'[d].at \in {"sent", "leaving"}
                          \/ call'[d].login # l
      BY <1>0, <1>1 DEF Begin, SignIn, Request, SignOut, Start, Idle
    <2> QED
      BY <2>1, <2>2, NothingNew
  <1>2. ASSUME NEW c \in Calls, NEW k \in Pairs, Issue(c, k) PROVE Over(l)'
    <2>1. call[c].login # l
      BY <1>0, <1>2 DEF Issue, At, IssuingFor
    <2>2. /\ login'[k] = call[c].login
          /\ \A j \in Pairs : j # k => refresh'[j] = refresh[j] /\ login'[j] = login[j]
      BY <1>0, <1>2 DEF Issue, IssuePair, TokensTypeOK
    <2>3. \A d \in Calls : call'[d] = call[d] \/ call'[d].at \in {"granted", "signed"}
      BY <1>0, <1>2 DEF Issue, Call
    <2> QED
      BY <2>1, <2>2, <2>3, NothingNew
  <1>3. ASSUME NEW c \in Calls, Rotate(c) PROVE Over(l)'
    <2> DEFINE k == call[c].pair
    <2>1. k \in Pairs
      BY <1>3, CallFacts DEF Rotate, At, CallSound, Issued
    <2>2. /\ login' = login
          /\ \A j \in Pairs : refresh'[j] = "live" => refresh[j] = "live"
      BY <1>0, <1>3 DEF Rotate, RotateRefresh, TokensTypeOK
    <2>3. \A d \in Calls : d # c => call'[d] = call[d]
      BY <1>0, <1>3 DEF Rotate
    <2>4. CASE refresh[k] = "live"
      <3>1. login[k] # l
        BY <1>0, <2>1, <2>4 DEF LiveOf
      <3>2. call'[c].login = login[k]
        BY <1>0, <1>3, <2>4 DEF Rotate, Rotatable, Call
      <3> QED
        BY <2>2, <2>3, <3>1, <3>2, NothingNew
    <2>5. CASE refresh[k] # "live"
      <3>1. call'[c].at = "refused"
        BY <1>0, <1>3, <2>5 DEF Rotate, Rotatable, Call
      <3> QED
        BY <2>2, <2>3, <3>1, NothingNew
    <2> QED
      BY <2>4, <2>5
  <1>4. ASSUME NEW c \in Calls, Logout(c) PROVE Over(l)'
    <2>1. call[c].pair \in Pairs
      BY <1>4, CallFacts DEF Logout, At, CallSound, Issued
    <2>2. /\ login' = login
          /\ \A j \in Pairs : refresh'[j] = "live" => refresh[j] = "live"
      BY <1>0, <1>4, <2>1 DEF Logout, RevokeRefresh, TokensTypeOK
    <2>3. \A d \in Calls : call'[d] = call[d] \/ call'[d].at = "left"
      BY <1>0, <1>4 DEF Logout, Call
    <2> QED
      BY <2>2, <2>3, NothingNew
  <1>5. ASSUME NEW c \in Calls,
               \/ Answered(c) \/ Unauthorized(c) \/ Granted(c) \/ Retry(c)
               \/ Refused(c) \/ Signed(c) \/ Left(c) \/ Abandoned(c) \/ Fail(c)
        PROVE  Over(l)'
    <2>1. UNCHANGED <<refresh, login>>
      BY <1>5 DEF Answered, Unauthorized, Granted, Retry, Refused, Signed, Left,
                  Abandoned, Fail, tokenVars
    <2>2. \A d \in Calls : \/ call'[d] = call[d]
                          \/ call'[d].at \in {"idle", "refresh", "retry", "sent",
                                              "refused", "left"}
      <3>1. CASE Unauthorized(c)
        <4>1. CASE call' = [call EXCEPT ![c] = Idle]
          BY <1>0, <4>1 DEF Idle
        <4>2. ASSUME NEW k \in Pairs,
                     call' = [call EXCEPT ![c].at = "refresh", ![c].pair = k,
                                          ![c].retry = FALSE]
              PROVE  \A d \in Calls : call'[d] = call[d] \/ call'[d].at = "refresh"
          BY <1>0, <4>2 DEF Call
        <4> QED
          BY <3>1, <4>1, <4>2, UnauthorizedStep
      <3> QED
        BY <1>0, <1>5, <3>1 DEF Answered, Granted, Retry, Refused, Signed, Left,
           Abandoned, Fail, Finish, Idle, Call
    <2> QED
      BY <2>1, <2>2, NothingNew
  <1>6. CASE \E t \in Tabs : Reload(t)
    <2>1. UNCHANGED <<refresh, login>>
      BY <1>6 DEF Reload, tokenVars
    <2>2. \A d \in Calls : call'[d].at = call[d].at /\ call'[d].login = call[d].login
      BY <1>0, <1>6 DEF Reload, Call
    <2> QED
      BY <2>1, <2>2, NothingNew
  <1>7. CASE Expiry
    <2>1. /\ login' = login /\ call' = call
          /\ \A k \in Pairs : refresh'[k] = "live" => refresh[k] = "live"
      BY <1>0, <1>7 DEF Expiry, AccessExpires, RefreshExpires, TokensTypeOK
    <2> QED
      BY <2>1, NothingNew
  <1>8. CASE UNCHANGED vars
    BY <1>8, NothingNew DEF vars, tokenVars
  <1> QED
    BY <1>1, <1>2, <1>3, <1>4, <1>5, <1>6, <1>7, <1>8 DEF Next, Proceed

\* A logout that revokes a live token finds the sign-in's only one, and no call
\* about to issue another.
LEMMA LogoutEnds ==
  ASSUME SessionInv, [Next]_vars, NEW c \in Calls, Logout(c),
         NEW k, k = call[c].pair, refresh[k] = "live", NEW l, l = login[k]
  PROVE  Over(l)'
  <1>0. TypeOK /\ TokensTypeOK /\ OneChain /\ PairsSound /\ call \in [Calls -> Call]
    BY DEF SessionInv, TypeOK
  <1>1. k \in Pairs /\ l \in Logins /\ Issued(k)
    BY <1>0, CallFacts DEF Logout, At, CallSound, Issued, PairsSound
  <1>2. (\A j \in LiveOf(l) : j = k) /\ IssuingFor(l) = {}
    BY <1>0, <1>1 DEF OneChain, LiveOf
  <1>3. /\ login' = login
        /\ \A j \in Pairs : refresh'[j] = "live" => refresh[j] = "live" /\ j # k
    BY <1>0, <1>1 DEF Logout, RevokeRefresh, TokensTypeOK
  <1>4. \A d \in Calls : call'[d] = call[d] \/ call'[d].at = "left"
    BY <1>0 DEF Logout, Call
  <1>5. Issued(k)'
    BY <1>1, IssuedStays
  <1> QED
    BY <1>1, <1>2, <1>3, <1>4, <1>5 DEF Over, LiveOf, IssuingFor

\* Who is signed out is over.
LEMMA FinalStep ==
  SessionInv /\ [Next]_vars =>
    LogoutIsFinal' /\ (\A l \in signedOut : \E k \in Pairs : Issued(k) /\ login[k] = l)'
  <1> SUFFICES ASSUME SessionInv, [Next]_vars, NEW l \in signedOut' PROVE Over(l)'
    BY DEF LogoutIsFinal, Over
  <1>1. CASE l \in signedOut
    <2>1. l \in Logins /\ Over(l)
      BY <1>1 DEF SessionInv, TypeOK, LogoutIsFinal, Over
    <2> QED
      BY <2>1, OverStep
  <1>2. CASE l \notin signedOut
    <2>1. \E c \in Calls : Logout(c)
      BY <1>2 DEF Next, vars, Begin, Proceed, Expiry, SignIn, Request, SignOut,
         Reload, Rotate, Issue, Fail, Answered, Unauthorized, Granted, Retry,
         Refused, Signed, Left, Abandoned
    <2>2. PICK c \in Calls : Logout(c)
      BY <2>1
    <2>3. l = login[call[c].pair] /\ refresh[call[c].pair] = "live"
      BY <1>2, <2>2 DEF Logout
    <2> QED
      BY <2>2, <2>3, LogoutEnds
  <1> QED
    BY <1>1, <1>2

-----------------------------------------------------------------------------
(* Refusals *)

\* A token that was revoked or has expired is never live again.
LEMMA DeadStays ==
  ASSUME SessionInv, [Next]_vars, NEW k \in Pairs, refresh[k] \in {"revoked", "expired"}
  PROVE  refresh'[k] \in {"revoked", "expired"}
  BY DEF SessionInv, TypeOK, TokensTypeOK, Next, vars, tokenVars, Begin, Proceed,
         Expiry, SignIn, Request, SignOut, Reload, Rotate, Issue, Logout, Fail, Answered,
         Unauthorized, Granted, Retry, Refused, Signed, Left, Abandoned, IssuePair,
         RotateRefresh, RevokeRefresh, AccessExpires, RefreshExpires

\* While nothing fails, a call is refused by Rotate alone, which found the row
\* dead; and dead it stays.
LEMMA RefusedStep == SessionInv /\ RefusedIsDead /\ [Next]_vars => RefusedIsDead'
  <1> SUFFICES ASSUME SessionInv, RefusedIsDead, [Next]_vars, NEW c \in Calls,
                      call'[c].at = "refused", faults' = 0
               PROVE  refresh'[call'[c].pair] \in {"revoked", "expired"}
    BY DEF RefusedIsDead, At
  <1>0. /\ TypeOK /\ TokensTypeOK /\ call \in [Calls -> Call] /\ CallSound(call[c])
    BY CallFacts DEF SessionInv, TypeOK
  <1>1. CASE call[c].at = "refused" /\ call'[c].pair = call[c].pair /\ faults = 0
    <2>1. refresh[call[c].pair] \in {"revoked", "expired"} /\ call[c].pair \in Pairs
      BY <1>0, <1>1 DEF RefusedIsDead, At, CallSound, Issued
    <2> QED
      BY <1>1, <2>1, DeadStays
  <1>2. CASE call[c].at # "refused" /\ Rotate(c)
    <2>1. call[c].pair \in Pairs /\ refresh[call[c].pair] # "none"
      BY <1>0, <1>2 DEF Rotate, At, CallSound, Issued
    <2>2. refresh[call[c].pair] # "live" /\ call'[c].pair = call[c].pair
      BY <1>0, <1>2 DEF Rotate, Rotatable, Call
    <2>3. refresh[call[c].pair] \in {"revoked", "expired"}
      BY <1>0, <2>1, <2>2 DEF TokensTypeOK
    <2> QED
      BY <2>1, <2>2, <2>3, DeadStays
  <1>3. faults = 0
    <2>1. faults \in Nat
      BY <1>0, SessionAssumption DEF TypeOK
    <2>2. \A d \in Calls : Begin(d) \/ Proceed(d) => faults' = faults
      BY DEF Begin, Proceed, SignIn, Request, SignOut, Rotate, Issue, Logout, Answered,
         Unauthorized, Granted, Retry, Refused, Signed, Left, Abandoned
    <2>3. \A d \in Calls : Fail(d) => faults' = faults + 1
      BY DEF Fail
    <2>4. Expiry \/ UNCHANGED vars \/ (\E t \in Tabs : Reload(t)) => faults' = faults
      BY DEF Expiry, vars, Reload
    <2> QED
      BY <2>1, <2>2, <2>3, <2>4 DEF Next
  <1>4. CASE \E d \in Calls : Begin(d)
    BY <1>0, <1>1, <1>3, <1>4 DEF Begin, SignIn, Request, SignOut, Start, Idle
  <1>5. ASSUME NEW d \in Calls, Proceed(d)
        PROVE  refresh'[call'[c].pair] \in {"revoked", "expired"}
    <2>1. CASE d # c
      <3>1. call'[c] = call[c]
        BY <1>0, <1>5, <2>1 DEF Proceed, Rotate, Issue, Logout, Answered,
           Unauthorized, Granted, Retry, Refused, Signed, Left, Abandoned, Finish
      <3> QED
        BY <1>1, <1>3, <3>1
    <2>2. CASE d = c /\ Unauthorized(c)
      <3>1. CASE call' = [call EXCEPT ![c] = Idle]
        BY <1>0, <3>1 DEF Idle
      <3>2. ASSUME NEW k \in Pairs,
                   call' = [call EXCEPT ![c].at = "refresh", ![c].pair = k,
                                        ![c].retry = FALSE]
            PROVE  FALSE
        BY <1>0, <3>2 DEF Call
      <3> QED
        BY <2>2, <3>1, <3>2, UnauthorizedStep
    <2>3. CASE d = c /\ ~Rotate(c) /\ ~Unauthorized(c)
      BY <1>0, <1>5, <2>3 DEF Proceed, Issue, Logout, Answered, Granted, Retry,
         Refused, Signed, Left, Abandoned, Finish, Idle, Call
    <2>4. CASE Rotate(c)
      BY <1>2, <2>4 DEF Rotate, At
    <2> QED
      BY <2>1, <2>2, <2>3, <2>4
  <1>6. CASE \E d \in Calls : Fail(d)
    <2>1. faults' = faults + 1
      BY <1>6 DEF Fail
    <2> QED
      BY <1>3, <2>1
  <1>7. CASE \E t \in Tabs : Reload(t)
    BY <1>0, <1>1, <1>3, <1>7 DEF Reload, Call
  <1>8. CASE Expiry \/ UNCHANGED vars
    BY <1>1, <1>3, <1>8 DEF Expiry, vars
  <1> QED
    BY <1>4, <1>5, <1>6, <1>7, <1>8 DEF Next

-----------------------------------------------------------------------------
(* The theorems *)

\* The inductive invariant, for every number of tabs, overlapping calls,
\* reloads, expiries and failures.
THEOREM Invariance == Spec => []SessionInv
  <1>1. SessionInv /\ [Next]_vars => SessionInv'
    BY TypeStep, PairsStep, CallsStep, ChainStep, FinalStep DEF SessionInv
  <1> QED
    BY InitInv, <1>1, PTL DEF Spec

\* The tokens, tabs and calls keep their types.
THEOREM TypeCorrect == Spec => []TypeOK
  <1>1. SessionInv => TypeOK
    BY DEF SessionInv
  <1> QED
    BY Invariance, <1>1, PTL

\* One sign-in never has two usable refresh tokens: RotateRefresh's UPDATE
\* decides which of several concurrent refreshes gets the next pair.
THEOREM SingleChain == Spec => []OneChain
  <1>1. SessionInv => OneChain
    BY DEF SessionInv
  <1> QED
    BY Invariance, <1>1, PTL

\* A logout that revoked a live refresh token is final: no call, however late
\* or often retried, makes a token of that sign-in usable again.
THEOREM LogoutEndsSession == Spec => []LogoutIsFinal
  <1>1. SessionInv => LogoutIsFinal
    BY DEF SessionInv
  <1> QED
    BY Invariance, <1>1, PTL

\* A sign-in without a usable token, however it lost the last one, is over for
\* good: issuePair only follows a rotation that found one, or a password.
THEOREM SessionsEndForGood == Spec => StaysOver
  <1>1. SessionInv /\ [Next]_vars => [\A l \in Logins : Over(l) => Over(l)']_vars
    BY OverStep
  <1> QED
    BY Invariance, <1>1, PTL DEF Spec, StaysOver

\* However the refreshes of tabs and calls overlap: without failures no live
\* token is ever refused.
THEOREM RefusalsAreRight == Spec => []RefusedIsDead
  <1>1. Init => RefusedIsDead
    BY DEF Init, RefusedIsDead, At, Idle
  <1> QED
    BY Invariance, <1>1, RefusedStep, PTL DEF Spec

-----------------------------------------------------------------------------
(* How long a call may take *)

\* The step that could go round in a circle is the retry after a 401, and it
\* spends the call's only one.
LEMMA AheadStep ==
  ASSUME SessionInv, [Next]_vars, NEW c \in Calls
  PROVE  /\ At(c, "idle") \/ StepsLeft(call'[c]) <= StepsLeft(call[c])
         /\ Proceed(c) => StepsLeft(call'[c]) < StepsLeft(call[c])
  <1>0. /\ call \in [Calls -> Call] /\ call[c].at \in Point /\ call[c].retry \in BOOLEAN
        /\ StepsLeft(Idle) = 0 /\ StepsLeft(call[c]) \in Nat
        /\ call[c].at # "idle" => StepsLeft(call[c]) > 0
    BY CallFacts DEF Idle, Point, StepsLeft, Ahead
  <1>1. ASSUME Proceed(c)
        PROVE  StepsLeft(call'[c]) \in Nat /\ StepsLeft(call'[c]) < StepsLeft(call[c])
    <2>1. CASE Finish(c) /\ call[c].at # "idle"
      BY <1>0, <2>1 DEF Finish
    <2>2. CASE Unauthorized(c) /\ ~Finish(c)
      <3>1. /\ call[c].at = "sent" /\ call[c].retry
            /\ call'[c].at = "refresh" /\ ~call'[c].retry
        BY <1>0, <2>2 DEF Unauthorized, Waiting, At, Call
      <3> QED
        BY <3>1 DEF StepsLeft, Ahead
    <2>3. CASE Rotate(c) \/ Logout(c) \/ Granted(c) \/ Retry(c) \/ \E k \in Pairs : Issue(c, k)
      <3>1. /\ call'[c].retry = call[c].retry
            /\ <<call[c].at, call'[c].at>> \in
                 {<<"refresh", "saving">>, <<"refresh", "refused">>, <<"leaving", "left">>,
                  <<"granted", "retry">>, <<"retry", "sent">>, <<"saving", "granted">>,
                  <<"signing", "signed">>}
        BY <1>0, <2>3 DEF Rotate, Logout, Granted, Retry, Issue, Waiting, At, Call
      <3> QED
        BY <1>0, <3>1 DEF StepsLeft, Ahead
    <2> QED
      BY <1>1, <2>1, <2>2, <2>3 DEF Proceed, Answered, Unauthorized, Refused, Signed,
         Left, Abandoned, Waiting, At
  <1>2. ASSUME NEW d \in Calls, d # c, Begin(d) \/ Proceed(d) \/ Fail(d)
        PROVE  call'[c] = call[c]
    BY <1>0, <1>2 DEF Begin, SignIn, Request, SignOut, Start, Proceed, Rotate, Issue,
       Logout, Answered, Unauthorized, Granted, Retry, Refused, Signed, Left, Abandoned,
       Fail, Finish
  <1>3. Begin(c) => At(c, "idle")
    BY DEF Begin, SignIn, Request, SignOut, Start
  <1>4. ASSUME Fail(c) PROVE StepsLeft(call'[c]) <= StepsLeft(call[c])
    <2>1. CASE Finish(c)
      BY <1>0, <2>1 DEF Finish
    <2>2. CASE ~Finish(c)
      <3>1. /\ call'[c].retry = call[c].retry
            /\ <<call[c].at, call'[c].at>> \in
                 {<<"refresh", "refused">>, <<"saving", "refused">>,
                  <<"granted", "refused">>, <<"leaving", "left">>}
        BY <1>0, <1>4, <2>2 DEF Fail, At, Call
      <3> QED
        BY <1>0, <3>1 DEF StepsLeft, Ahead
    <2> QED
      BY <2>1, <2>2
  <1>5. Expiry \/ UNCHANGED vars \/ (\E t \in Tabs : Reload(t)) =>
          call'[c].at = call[c].at /\ call'[c].retry = call[c].retry
    BY <1>0 DEF Expiry, vars, Reload, Call
  <1>6. At(c, "idle") \/ StepsLeft(call'[c]) <= StepsLeft(call[c])
    <2>1. CASE Expiry \/ UNCHANGED vars \/ \E t \in Tabs : Reload(t)
      BY <1>0, <1>5, <2>1 DEF StepsLeft
    <2>2. CASE \E d \in Calls \ {c} : Begin(d) \/ Proceed(d) \/ Fail(d)
      BY <1>0, <1>2, <2>2
    <2>3. CASE Proceed(c)
      BY <1>0, <1>1, <2>3 DEF At, Proceed
    <2> QED
      BY <1>3, <1>4, <2>1, <2>2, <2>3 DEF Next
  <1> QED
    BY <1>1, <1>6

\* A call takes six steps at most, whatever expires, fails or is reloaded and
\* however the other calls interleave: what RequestsEnd needs besides fairness.
THEOREM CallsMoveOn == Spec => CallsGetOn
  <1>1. SessionInv /\ [Next]_vars =>
          [\A c \in Calls :
             /\ At(c, "idle") \/ StepsLeft(call'[c]) <= StepsLeft(call[c])
             /\ Proceed(c) => StepsLeft(call'[c]) < StepsLeft(call[c])]_vars
    BY AheadStep
  <1> QED
    BY Invariance, <1>1, PTL DEF Spec, CallsGetOn

-----------------------------------------------------------------------------
\* A tab whose calls do not overlap keeps the token that it has sent.
LEMMA HoldsStep ==
  SessionInv /\ TabHolds /\ OneCallPerTab /\ faults = 0 /\ (faults = 0)' /\ [Next]_vars
    => TabHolds'
  <1> SUFFICES ASSUME SessionInv, TabHolds, OneCallPerTab, faults = 0, faults' = 0,
                      [Next]_vars,
                      NEW d \in Calls, call'[d].at \in {"refresh", "refused"},
                      call'[d].tab # NoTab
               PROVE  memory'[call'[d].tab] = call'[d].pair
    BY DEF TabHolds
  <1>0. /\ call \in [Calls -> Call] /\ memory \in [Tabs -> Pairs \cup {NoPair}]
        /\ \A c \in Calls : call[c].tab \in Tabs \cup {NoTab}
    BY CallFacts DEF SessionInv, TypeOK
  <1>1. CASE UNCHANGED vars
    BY <1>1 DEF vars, TabHolds
  <1>2. ASSUME NEW c \in Calls, Begin(c)
        PROVE  memory'[call'[d].tab] = call'[d].pair
    BY <1>0, <1>2 DEF Begin, SignIn, Request, SignOut, Start, TabHolds, Idle
  <1>3. ASSUME NEW c \in Calls, Fail(c) PROVE FALSE
    BY <1>3 DEF Fail
  <1>4. ASSUME NEW t \in Tabs, Reload(t)
        PROVE  memory'[call'[d].tab] = call'[d].pair
    <2>1. call'[d] = call[d] /\ call[d].tab # t /\ call[d].tab \in Tabs
      BY <1>0, <1>4 DEF Reload
    <2> QED
      BY <1>0, <1>4, <2>1 DEF Reload, TabHolds
  <1>5. CASE Expiry
    BY <1>5 DEF Expiry, TabHolds
  <1>6. ASSUME NEW c \in Calls, Proceed(c)
        PROVE  memory'[call'[d].tab] = call'[d].pair
    <2>1. CASE c # d
      <3>1. call'[d] = call[d]
        BY <1>0, <1>6, <2>1 DEF Proceed, Rotate, Logout, Issue, Answered, Unauthorized,
           Granted, Retry, Refused, Signed, Left, Abandoned, Finish
      <3>2. memory[call[d].tab] = call[d].pair /\ call[c].tab # call[d].tab
        BY <2>1, <3>1 DEF TabHolds, OneCallPerTab
      <3>3. memory'[call[d].tab] = memory[call[d].tab]
        BY <1>0, <1>6, <3>1, <3>2 DEF Proceed, Rotate, Logout, Issue, Answered, Unauthorized,
           Granted, Retry, Refused, Signed, Left, Abandoned, Keep
      <3> QED
        BY <3>1, <3>2, <3>3
    <2>2. CASE c = d
      <3>0. call'[d] # Idle
        BY DEF Idle
      <3>1. Rotate(d) \/ Unauthorized(d)
        <4>1. ~Finish(d)
          BY <1>0, <3>0 DEF Finish
        <4>2. ~Logout(d) /\ ~Granted(d) /\ ~Retry(d) /\ \A k \in Pairs : ~Issue(d, k)
          BY <1>0 DEF Logout, Issue, Granted, Retry, Call
        <4> QED
          BY <1>6, <2>2, <4>1, <4>2 DEF Proceed, Answered, Refused, Signed, Left, Abandoned
      <3>2. CASE Rotate(d)
        <4>1. /\ call[d].at = "refresh" /\ memory' = memory
              /\ call'[d].tab = call[d].tab /\ call'[d].pair = call[d].pair
          BY <1>0, <3>2 DEF Rotate, At
        <4> QED
          BY <4>1 DEF TabHolds
      <3>3. CASE Unauthorized(d)
        <4>1. ~Finish(d)
          BY <1>0, <3>0 DEF Finish
        <4>2. PICK k : k = memory[call[d].tab]
          OBVIOUS
        <4>3. /\ memory' = memory
              /\ call' = [call EXCEPT ![d].at = "refresh", ![d].pair = k, ![d].retry = FALSE]
          BY <3>3, <4>1, <4>2 DEF Unauthorized
        <4>4. call'[d].tab = call[d].tab /\ call'[d].pair = k
          BY <1>0, <4>3
        <4> QED
          BY <4>2, <4>3, <4>4
      <3> QED
        BY <3>1, <3>2, <3>3
    <2> QED
      BY <2>1, <2>2
  <1> QED
    BY <1>1, <1>2, <1>3, <1>4, <1>5, <1>6 DEF Next

\* Where no two calls of a tab overlap and nothing fails, however many tabs
\* refresh one token, and whatever they sign out, reload or let expire: a tab
\* forgets its tokens over a refused refresh (api.js) only when the refresh token
\* it holds is dead.
THEOREM LiveSessionsKept ==
  Spec /\ []OneCallPerTab /\ [](faults = 0) => LiveSessionKept
  <1>1. Init => TabHolds
    BY DEF Init, TabHolds, Idle
  <1>2. SessionInv /\ RefusedIsDead /\ TabHolds /\ faults = 0 =>
          [\A c \in Calls :
             /\ At(c, "refused") /\ call'[c].at = "idle" /\ call[c].tab # NoTab
             /\ memory[call[c].tab] # NoPair
             => refresh[memory[call[c].tab]] # "live"]_vars
    BY DEF TabHolds, RefusedIsDead, At
  <1> QED
    BY <1>1, <1>2, HoldsStep, Invariance, RefusalsAreRight, PTL DEF Spec, LiveSessionKept

\* The same of a client that makes one call at a time, as in the instance TLC
\* checks.
COROLLARY SoleCallKept ==
  ASSUME \A c, d \in Calls : c = d, MaxFaults = 0
  PROVE  Spec => LiveSessionKept
  <1>1. OneCallPerTab
    BY DEF OneCallPerTab
  <1>2. SessionInv => faults = 0
    BY DEF SessionInv, TypeOK
  <1> QED
    BY <1>1, <1>2, Invariance, LiveSessionsKept, PTL
=============================================================================
