----------------------------- MODULE JobsProofs -----------------------------
(***************************************************************************)
(* The jobs that run beside the requests: the auto-chase sweep of          *)
(* ChaseSweep, the migration of LegacyLoad, the ingestion of RagIndex.     *)
(***************************************************************************)
EXTENDS ChaseSweep, LegacyLoad, RagIndex, FiniteSetTheorems, TLAPS

-----------------------------------------------------------------------------
(***************************************************************************)
(* The sweep, for any orders, window, interval and failures, and sweeps as *)
(* slow as they like: a customer who has paid or left is reminded at most  *)
(* once more; and while sweeps are on time, whoever has neither is         *)
(* reminded before the order expires.                                      *)
(***************************************************************************)

\* The invariant holds before the first checkout.
LEMMA SweepInitial == SweepInit => ChaseInv
  <1> SUFFICES ASSUME SweepInit PROVE ChaseInv
    OBVIOUS
  <1> USE DEF SweepInit
  <1>1. /\ now \in 0 .. MaxTime /\ since \in 0 .. MaxTime
        /\ due \in 0 .. MaxTime + Interval
        /\ \A o \in Orders : expiry[o] \in 0 .. MaxTime + Life
    BY ChaseAssumption
  <1>2. SweepTypeOK
    <2>1. /\ status \in [Orders -> {"none", "pending", "left"}]
          /\ expiry \in [Orders -> 0 .. MaxTime + Life]
          /\ failed \in [Orders -> 0 .. MaxFailures]
          /\ late \in [Orders -> 0 .. 2]
      BY <1>1, ChaseAssumption
    <2> QED
      BY <1>1, <2>1 DEF SweepTypeOK
  <1>3. LateIsOver /\ \A o \in todo : status[o] # "none"
    BY DEF LateIsOver
  <1>4. ClockSound
    BY ChaseAssumption DEF ClockSound, LastTick
  <1>5. WindowCovered
    BY DEF WindowCovered
  <1> QED
    BY <1>2, <1>3, <1>4, <1>5 DEF ChaseInv

\* Every step of the orders, the clock and the loop keeps the types.
LEMMA TypeStep == SweepTypeOK /\ [SweepNext]_sweepVars => SweepTypeOK'
  <1> SUFFICES ASSUME SweepTypeOK, [SweepNext]_sweepVars PROVE SweepTypeOK'
    OBVIOUS
  <1> USE ChaseAssumption DEF SweepTypeOK, clock, orderVars, loopVars, sentVars
  <1>1. ASSUME NEW o \in Orders, Checkout(o) \/ Charge(o) \/ Paid(o) \/ Leave(o)
        PROVE  SweepTypeOK'
    BY <1>1 DEF Checkout, Charge, Paid, Leave
  <1>2. CASE Tick
    <2>1. now' \in 0 .. MaxTime
      BY <1>2 DEF Tick
    <2>2. ticked' \in BOOLEAN
      BY <1>2 DEF Tick
    <2>3. due' \in 0 .. MaxTime + Interval
      <3>1. CASE due' = due
        BY <3>1
      <3>2. CASE due' = due + Interval /\ now' = due
        BY <2>1, <3>2
      <3> QED
        BY <1>2, <3>1, <3>2 DEF Tick
    <2> QED
      BY <1>2, <2>1, <2>2, <2>3 DEF Tick
  <1>3. CASE SweepQuery \/ SweepEnds \/ Stop
    BY <1>3 DEF SweepQuery, SweepEnds, Stop
  <1>7. CASE Boot
    <2>1. due' \in 0 .. MaxTime + Interval
      BY <1>7 DEF Boot
    <2> QED
      BY <1>7, <2>1 DEF Boot
  <1>4. CASE SweepFails
    <2>1. failed' \in [Orders -> 0 .. MaxFailures]
      BY <1>4 DEF SweepFails
    <2> QED
      BY <1>4, <2>1 DEF SweepFails
  <1>5. ASSUME NEW o \in Orders, Remind(o) \/ RemindFails(o) PROVE SweepTypeOK'
    BY <1>5 DEF Remind, RemindFails
  <1>6. CASE UNCHANGED sweepVars
    BY <1>6 DEF sweepVars
  <1> QED
    BY <1>1, <1>2, <1>3, <1>4, <1>5, <1>6, <1>7 DEF SweepNext

\* A late reminder is the last one, after every step.
LEMMA LateStep ==
  ChaseInv /\ [SweepNext]_sweepVars => LateIsOver' /\ \A o \in todo' : status'[o] # "none"
  <1> SUFFICES ASSUME ChaseInv, [SweepNext]_sweepVars
               PROVE  LateIsOver' /\ \A o \in todo' : status'[o] # "none"
    OBVIOUS
  <1> USE DEF ChaseInv, SweepTypeOK, LateIsOver, clock, orderVars, loopVars, sentVars
  <1>1. ASSUME NEW o \in Orders, Checkout(o) \/ Charge(o) \/ Paid(o) \/ Leave(o)
        PROVE  LateIsOver' /\ \A x \in todo' : status'[x] # "none"
    BY <1>1 DEF Checkout, Charge, Paid, Leave
  <1>2. CASE SweepQuery
    BY <1>2 DEF SweepQuery, Chaseable
  <1>3. ASSUME NEW o \in Orders, Remind(o)
        PROVE  LateIsOver' /\ \A x \in todo' : status'[x] # "none"
    <2>1. late[o] = 0 /\ status[o] # "none"
      BY <1>3 DEF Remind
    <2> QED
      BY <1>3, <2>1 DEF Remind
  <1>4. CASE \/ Tick \/ SweepFails \/ SweepEnds \/ Stop \/ Boot \/ UNCHANGED sweepVars
             \/ \E o \in Orders : RemindFails(o)
    BY <1>4 DEF Tick, SweepFails, SweepEnds, Stop, Boot, RemindFails, sweepVars
  <1> QED
    BY <1>1, <1>2, <1>3, <1>4 DEF SweepNext

-----------------------------------------------------------------------------
(* Reminders are in time *)

\* The loop stays between two ticks of its ticker.
LEMMA ClockStep == ChaseInv /\ [SweepNext]_sweepVars => ClockSound'
  <1> SUFFICES ASSUME ChaseInv, [SweepNext]_sweepVars PROVE ClockSound'
    OBVIOUS
  <1>0. /\ SweepTypeOK /\ ClockSound
        /\ now \in Nat /\ due \in Nat /\ since \in Nat /\ Interval \in Nat \ {0}
    BY ChaseAssumption DEF ChaseInv, SweepTypeOK
  <1> USE DEF ClockSound, LastTick, clock, orderVars, loopVars, sentVars
  <1>1. CASE \/ UNCHANGED sweepVars
             \/ \E o \in Orders : Checkout(o) \/ Charge(o) \/ Paid(o) \/ Leave(o)
    BY <1>0, <1>1 DEF sweepVars, Checkout, Charge, Paid, Leave
  <1>2. CASE Tick
    BY <1>0, <1>2 DEF Tick, SweepTypeOK
  <1>3. CASE SweepQuery \/ SweepFails \/ SweepEnds \/ Stop \/ Boot
    BY <1>0, <1>3 DEF SweepQuery, SweepFails, SweepEnds, Stop, Boot
  <1>4. CASE \E o \in Orders : Remind(o) \/ RemindFails(o)
    BY <1>0, <1>4 DEF Remind, RemindFails
  <1> QED
    BY <1>1, <1>2, <1>3, <1>4 DEF SweepNext

\* What WindowCovered says of one order.
Covered(o) ==
  /\ status[o] = "pending" /\ o \notin hasPayment /\ o \notin reminded
  /\ Attended(o)
  /\ expiry[o] <= LastTick + Window
  => IF LastTick < expiry[o]
     THEN (failed[o] + Outstanding(o)) * Interval > LastTick + Window - expiry[o]
     ELSE failed[o] * Interval > Window - Interval

\* Multiplication by the interval, as far as the argument needs it.
LEMMA OneMore ==
  ASSUME NEW f \in Nat, NEW i \in Nat
  PROVE  /\ f * i \in Nat
         /\ (f + 0) * i = f * i
         /\ (f + 1) * i = f * i + i
         /\ (f + 1) * i >= i
  OBVIOUS

LEMMA Monotone ==
  ASSUME NEW a \in Nat, NEW b \in Nat, NEW i \in Nat, a <= b
  PROVE  a * i <= b * i
  <1> DEFINE d == b - a
  <1>1. d \in Nat /\ b = a + d
    OBVIOUS
  <1>2. d * i \in Nat /\ a * i \in Nat
    BY <1>1, OneMore
  <1> HIDE DEF d
  <1>3. b * i = a * i + d * i
    BY <1>1
  <1> QED
    BY <1>2, <1>3

\* A tick is one more chance for every order whose window is open: if it was
\* open at the last one, that one was used up before the clock moved on.
LEMMA TickCovers ==
  ASSUME ChaseInv, Tick, NEW o \in Orders
  PROVE  Covered(o)'
  <1>0. /\ SweepTypeOK /\ ClockSound /\ Covered(o)
        /\ now \in Nat /\ due \in Nat /\ since \in Nat /\ expiry[o] \in Nat
        /\ failed[o] \in Nat
        /\ Interval \in Nat \ {0} /\ Window \in Nat /\ Interval <= Window
    BY ChaseAssumption DEF ChaseInv, SweepTypeOK, WindowCovered, Covered
  <1> DEFINE f == failed[o]
             last == due - Interval
  <1>1. /\ status' = status /\ hasPayment' = hasPayment /\ reminded' = reminded
        /\ expiry' = expiry /\ since' = since /\ up' = up /\ todo' = todo
        /\ failed' = failed /\ now' = now + 1
        /\ lagged' = (lagged \/ ticked \/ sweeping)
    BY DEF Tick, orderVars, sentVars
  <1> SUFFICES ASSUME status[o] = "pending", o \notin hasPayment, o \notin reminded,
                      up, since + Window < expiry[o], ~lagged, ~ticked, ~sweeping,
                      expiry[o] <= due' - Interval + Window
               PROVE  IF due' - Interval < expiry[o]
                      THEN (f + Outstanding(o)') * Interval > due' - Interval + Window - expiry[o]
                      ELSE f * Interval > Window - Interval
    BY <1>0, <1>1 DEF Covered, Attended, LastTick, SweepTypeOK
  <1>2. o \notin todo /\ Outstanding(o) = 0
    BY <1>0 DEF ClockSound, Outstanding
  <1>3. expiry[o] <= last + Window =>
          IF last < expiry[o]
          THEN f * Interval > last + Window - expiry[o]
          ELSE f * Interval > Window - Interval
    BY <1>0, <1>2, OneMore DEF Covered, Attended, LastTick
  <1>4. CASE due' = due
    <2>1. ticked' = FALSE
      BY <1>0, <1>4 DEF Tick
    <2>2. Outstanding(o)' = 0
      BY <1>1, <1>2, <2>1 DEF Outstanding
    <2> QED
      BY <1>0, <1>3, <1>4, <2>2, OneMore
  <1>5. CASE due' = due + Interval
    <2>1. ticked' = TRUE
      BY <1>0, <1>5 DEF Tick
    <2>2. Outstanding(o)' = 1
      BY <2>1 DEF Outstanding
    <2>3. (f + 1) * Interval = f * Interval + Interval /\ f * Interval \in Nat
      BY <1>0, OneMore
    <2>4. CASE expiry[o] <= last + Window
      BY <1>0, <1>3, <1>5, <2>2, <2>3, <2>4
    <2>5. CASE expiry[o] > last + Window
      BY <1>0, <1>5, <2>2, <2>3, <2>5
    <2> QED
      BY <1>0, <2>4, <2>5
  <1> QED
    BY <1>4, <1>5 DEF Tick

\* A sweep that is on time finds every order it should: the query runs at the
\* time of the tick.
LEMMA SweepCovers ==
  ASSUME ChaseInv, NEW o \in Orders,
         SweepQuery \/ SweepFails \/ \E x \in Orders : Remind(x) \/ RemindFails(x)
  PROVE  Covered(o)'
  <1>0. /\ SweepTypeOK /\ ClockSound /\ Covered(o)
        /\ now \in Nat /\ due \in Nat /\ expiry[o] \in Nat /\ failed[o] \in Nat
        /\ Interval \in Nat \ {0} /\ Window \in Nat
    BY ChaseAssumption DEF ChaseInv, SweepTypeOK, WindowCovered, Covered
  <1>1. /\ UNCHANGED <<status, expiry, hasPayment, since, up, due, lagged, now>>
        /\ reminded \subseteq reminded'
        /\ failed'[o] \in {failed[o], failed[o] + 1}
    BY <1>0 DEF SweepQuery, SweepFails, Remind, RemindFails, clock, orderVars, sentVars, SweepTypeOK
  <1>2. SUFFICES ASSUME status[o] = "pending", o \notin hasPayment, o \notin reminded',
                        up, since + Window < expiry[o], ~lagged,
                        expiry[o] <= due - Interval + Window
                 PROVE  IF due - Interval < expiry[o]
                        THEN (failed'[o] + Outstanding(o)') * Interval
                               > due - Interval + Window - expiry[o]
                        ELSE failed'[o] * Interval > Window - Interval
    BY <1>1 DEF Covered, Attended, LastTick
  <1>3. IF due - Interval < expiry[o]
        THEN (failed[o] + Outstanding(o)) * Interval > due - Interval + Window - expiry[o]
        ELSE failed[o] * Interval > Window - Interval
    BY <1>0, <1>1, <1>2 DEF Covered, Attended, LastTick
  <1>4. failed'[o] * Interval >= failed[o] * Interval
    BY <1>0, <1>1, OneMore
  <1>5. CASE due - Interval >= expiry[o]
    <2>1. failed[o] * Interval \in Nat /\ failed'[o] * Interval \in Nat
      BY <1>0, <1>1, OneMore
    <2> QED
      BY <1>0, <1>3, <1>4, <1>5, <2>1
  <1>6. CASE due - Interval < expiry[o]
    <2>1. \/ failed'[o] = failed[o] /\ Outstanding(o)' = Outstanding(o)
          \/ failed'[o] = failed[o] + 1 /\ Outstanding(o)' \in {0, 1}
      <3>1. CASE SweepQuery
        <4>1. Chaseable(o) /\ ticked
          BY <1>0, <1>2, <1>6, <3>1 DEF SweepQuery, Chaseable, InWindow, ClockSound, LastTick
        <4> QED
          BY <3>1, <4>1 DEF SweepQuery, Outstanding, sentVars
      <3>2. CASE SweepFails
        BY <1>0, <3>2 DEF SweepFails, Outstanding, SweepTypeOK
      <3>3. ASSUME NEW x \in Orders, Remind(x) \/ RemindFails(x)
            PROVE  \/ failed'[o] = failed[o] /\ Outstanding(o)' = Outstanding(o)
                   \/ failed'[o] = failed[o] + 1 /\ Outstanding(o)' \in {0, 1}
        <4>1. x = o => RemindFails(x)
          BY <1>2, <3>3 DEF Remind
        <4> QED
          BY <1>0, <3>3, <4>1 DEF Remind, RemindFails, Outstanding, SweepTypeOK
      <3> QED
        BY <3>1, <3>2, <3>3
    <2>2. Outstanding(o) \in {0, 1} /\ Outstanding(o)' \in {0, 1}
      BY DEF Outstanding
    <2>3. (failed'[o] + Outstanding(o)') * Interval >= (failed[o] + Outstanding(o)) * Interval
      BY <1>0, <2>1, <2>2, OneMore
    <2>4. /\ (failed[o] + Outstanding(o)) * Interval \in Nat
          /\ (failed'[o] + Outstanding(o)') * Interval \in Nat
      BY <1>0, <1>1, <2>2, OneMore
    <2> QED
      BY <1>0, <1>3, <1>6, <2>3, <2>4
  <1> QED
    BY <1>0, <1>5, <1>6

\* An order is covered from its checkout, or from the restart before its
\* window, until it is reminded, pays or leaves.
LEMMA CoveredStep == ChaseInv /\ [SweepNext]_sweepVars => WindowCovered'
  <1> SUFFICES ASSUME ChaseInv, [SweepNext]_sweepVars, NEW o \in Orders PROVE Covered(o)'
    BY DEF WindowCovered, Covered
  <1>0. /\ SweepTypeOK /\ ClockSound /\ Covered(o)
        /\ now \in Nat /\ due \in Nat /\ since \in Nat /\ Life \in Nat
        /\ Interval \in Nat \ {0} /\ Window \in Nat /\ Window < Life
    BY ChaseAssumption DEF ChaseInv, SweepTypeOK, WindowCovered, Covered
  <1>1. ASSUME NEW x \in Orders, Checkout(x) PROVE Covered(o)'
    <2>1. CASE x = o
      <3>1. expiry'[o] = now + Life /\ due' = due /\ up' = up
        BY <1>0, <1>1, <2>1 DEF Checkout, SweepTypeOK, loopVars
      <3>2. up => due - Interval <= now
        BY <1>0 DEF ClockSound, LastTick
      <3>3. up => expiry'[o] > due' - Interval + Window
        BY <1>0, <3>1, <3>2
      <3> QED
        BY <1>0, <3>1, <3>3 DEF Covered, Attended, LastTick
    <2>2. CASE x # o
      BY <1>0, <1>1, <2>2 DEF Checkout, SweepTypeOK, Covered, Attended, LastTick,
         Outstanding, clock, loopVars, sentVars
    <2> QED
      BY <2>1, <2>2
  <1>2. ASSUME NEW x \in Orders, Charge(x) \/ Paid(x) \/ Leave(x) PROVE Covered(o)'
    <2>1. /\ status'[o] = "pending" => status[o] = "pending"
          /\ hasPayment \subseteq hasPayment'
          /\ expiry' = expiry
          /\ UNCHANGED <<clock, loopVars, sentVars>>
      BY <1>0, <1>2 DEF Charge, Paid, Leave, SweepTypeOK
    <2> QED
      BY <1>0, <2>1 DEF Covered, Attended, LastTick, Outstanding, clock, loopVars, sentVars
  <1>3. CASE UNCHANGED sweepVars \/ SweepEnds
    <2>1. /\ status' = status /\ expiry' = expiry /\ hasPayment' = hasPayment
          /\ lagged' = lagged /\ up' = up /\ due' = due /\ since' = since
          /\ ticked' = ticked /\ todo' = todo
          /\ reminded' = reminded /\ failed' = failed
      BY <1>3 DEF sweepVars, SweepEnds, clock, orderVars, loopVars, sentVars
    <2> QED
      BY <1>0, <2>1 DEF Covered, Attended, LastTick, Outstanding
  <1>4. CASE Stop
    BY <1>4 DEF Stop, Covered, Attended
  <1>5. CASE Boot
    <2>1. since' = now /\ due' = now + Interval /\ expiry' = expiry
      BY <1>5 DEF Boot, orderVars
    <2>2. expiry[o] \in Nat
      BY <1>0, ChaseAssumption DEF SweepTypeOK
    <2> QED
      BY <1>0, <2>1, <2>2 DEF Covered, Attended, LastTick
  <1> QED
    BY <1>1, <1>2, <1>3, <1>4, <1>5, TickCovers, SweepCovers DEF SweepNext

\* At its expiry a covered order has lost a reminder for every tick in a window.
LEMMA InTime == ChaseInv => TimelyReminder
  <1> SUFFICES ASSUME ChaseInv, NEW o \in Orders,
                      status[o] = "pending", o \notin hasPayment, now >= expiry[o],
                      Attended(o), failed[o] < Window \div Interval, o \notin reminded
               PROVE  FALSE
    BY DEF TimelyReminder
  <1>0. /\ SweepTypeOK /\ ClockSound /\ Covered(o)
        /\ now \in Nat /\ due \in Nat /\ expiry[o] \in Nat /\ failed[o] \in Nat
        /\ Interval \in Nat \ {0} /\ Window \in Nat /\ Interval <= Window
    BY ChaseAssumption DEF ChaseInv, SweepTypeOK, WindowCovered, Covered
  <1> DEFINE q == Window \div Interval
  <1>1. q \in Nat /\ q * Interval <= Window
    BY <1>0
  <1>2. (failed[o] + 1) * Interval <= Window
    <2>1. failed[o] + 1 \in Nat /\ failed[o] + 1 <= q
      BY <1>0, <1>1
    <2>2. (failed[o] + 1) * Interval <= q * Interval
      BY <1>0, <1>1, <2>1, Monotone
    <2>3. (failed[o] + 1) * Interval \in Nat /\ q * Interval \in Nat
      BY <1>0, <1>1, <2>1, OneMore
    <2> QED
      BY <1>0, <1>1, <2>2, <2>3
  <1>3. failed[o] * Interval \in Nat /\ failed[o] * Interval <= Window - Interval
    <2>1. PICK lost \in Nat : lost = failed[o] * Interval
      BY <1>0, OneMore
    <2>2. lost + Interval <= Window
      BY <1>0, <1>2, <2>1, OneMore
    <2> QED
      BY <1>0, <2>1, <2>2
  <1>4. due - Interval <= now /\ now < due
    BY <1>0 DEF ClockSound, Attended, LastTick
  <1>5. due - Interval < expiry[o] /\ now # due - Interval
    BY <1>0, <1>3, <1>4 DEF Covered, LastTick
  <1>6. Outstanding(o) = 0
    BY <1>0, <1>5 DEF ClockSound, Attended, LastTick, Outstanding
  <1>7. failed[o] * Interval > due - Interval + Window - expiry[o]
    BY <1>0, <1>4, <1>5, <1>6, OneMore DEF Covered, LastTick
  <1> DEFINE p == failed[o] * Interval
  <1>8. p \in Nat /\ p <= Window - Interval /\ p > due - Interval + Window - expiry[o]
    BY <1>3, <1>7
  <1> HIDE DEF p
  <1> QED
    BY <1>0, <1>4, <1>8

-----------------------------------------------------------------------------
(* The theorems *)

\* The inductive invariant of the sweep, whatever its speed.
THEOREM SweepInvariant == SweepSpec => []ChaseInv
  <1>1. ChaseInv /\ [SweepNext]_sweepVars => ChaseInv'
    BY TypeStep, LateStep, ClockStep, CoveredStep DEF ChaseInv
  <1> QED
    BY SweepInitial, <1>1, PTL DEF SweepSpec

\* runChaseSweep reminds a customer who has paid or left at most once more.
THEOREM NoEndlessReminders == SweepSpec => []RemindersStop
  <1>1. ChaseInv => RemindersStop
    BY DEF ChaseInv, LateIsOver, RemindersStop, SweepTypeOK
  <1> QED
    BY SweepInvariant, <1>1, PTL

\* An order still unpaid at its expiry was reminded, whatever the window and
\* the interval, and however many restarts and failures came before: as long
\* as fewer reminders were lost than a window has ticks.
THEOREM RemindedInTime == SweepSpec => []TimelyReminder
  BY SweepInvariant, InTime, PTL

\* The WHERE clause of the sweep and DecideChase agree on every order.
THEOREM RulesAgree == SweepSpec => []DecideAgrees
  <1>1. ChaseInv => DecideAgrees
    BY ChaseAssumption DEF ChaseInv, SweepTypeOK, DecideAgrees, DecideChase, Chaseable, InWindow
  <1> QED
    BY SweepInvariant, <1>1, PTL

\* The loop's variables keep their types.
THEOREM SweepTypeCorrect == SweepSpec => []SweepTypeOK
  <1>1. ChaseInv => SweepTypeOK
    BY DEF ChaseInv
  <1> QED
    BY SweepInvariant, <1>1, PTL

-----------------------------------------------------------------------------
(***************************************************************************)
(* However often the legacy database is loaded, whatever fails, and        *)
(* whatever sellers do meanwhile: their rows are kept, and a load that     *)
(* commits has left out no row it read.                                    *)
(***************************************************************************)

\* Nothing is loaded and nobody has edited at first.
LEMMA LoadInitial == LoadInit => LoadInv
  BY LoadAssumption DEF LoadInit, LoadInv, LoadTypeOK, NoTx

\* A row of the new database, as the transaction sees it.
LEMMA SeenRow ==
  ASSUME LoadTypeOK, NEW r \in Rows
  PROVE  Seen(r) \in Row \cup {Absent}
  BY DEF LoadTypeOK, Seen

\* What is written over a row keeps what sellers have written into it.
LEMMA MergedKeeps ==
  ASSUME LoadTypeOK, NEW r \in Rows, legacy[r] # Absent
  PROVE  /\ Merged(r) \in Row
         /\ Seen(r) # Absent /\ Keeps(Seen(r), r) => Keeps(Merged(r), r)
  <1>1. legacy[r] \in Versions
    BY DEF LoadTypeOK
  <1>2. CASE Seen(r) = Absent
    BY <1>1, <1>2 DEF Merged, Row
  <1>3. CASE Seen(r) # Absent
    <2>1. Seen(r) \in Row
      BY <1>3, SeenRow
    <2> QED
      BY <1>1, <1>3, <2>1 DEF Merged, Row, Keeps
  <1> QED
    BY <1>2, <1>3

\* One table loaded.
LEMMA TableStep ==
  ASSUME LoadInv, LoadTable
  PROVE  LoadInv'
  <1>0. LoadTypeOK /\ at \in Nat /\ Tables \in Nat
    BY LoadAssumption DEF LoadInv, LoadTypeOK
  <1>1. /\ UNCHANGED <<legacy, db, runs, live, edited, deleted>>
        /\ at \in 1 .. Tables
    BY DEF LoadTable
  <1>2. CASE at' = at + 1 /\ read' = read \cup ToLoad /\ Wrote(ToLoad) /\ UNCHANGED loadFaults
    <2>1. \A r \in Rows : tx'[r] = IF r \in ToLoad /\ (Seen(r) = Absent \/ TableOf[r] \in Overwritten)
                                   THEN Merged(r) ELSE tx[r]
      BY <1>2 DEF Wrote
    <2>2. tx' \in [Rows -> Row \cup {Absent}]
      <3>1. \A r \in Rows : tx'[r] \in Row \cup {Absent}
        BY <1>0, <2>1, MergedKeeps DEF ToLoad, LoadTypeOK
      <3> QED
        BY <1>2, <3>1 DEF Wrote
    <2>3. LoadTypeOK'
      BY <1>0, <1>1, <1>2, <2>2 DEF LoadTypeOK, ToLoad
    <2>4. ASSUME NEW r \in edited, tx'[r] # Absent PROVE Keeps(tx'[r], r)
      <3>1. r \in Rows /\ Seen(r) # Absent /\ Keeps(Seen(r), r)
        BY <1>0 DEF LoadInv, LoadTypeOK, Seen
      <3> QED
        BY <1>0, <2>1, <2>4, <3>1, MergedKeeps DEF ToLoad, LoadInv
    <2>5. ASSUME NEW r \in read' PROVE Seen(r)' # Absent \/ r \in deleted
      <3>1. r \in Rows
        BY <2>3 DEF LoadTypeOK
      <3>2. CASE r \in ToLoad /\ (Seen(r) = Absent \/ TableOf[r] \in Overwritten)
        BY <1>0, <2>1, <3>1, <3>2, MergedKeeps, LoadAssumption DEF ToLoad, Seen
      <3>3. CASE ~(r \in ToLoad /\ (Seen(r) = Absent \/ TableOf[r] \in Overwritten))
        BY <1>1, <1>2, <2>1, <3>1, <3>3 DEF Seen, LoadInv
      <3> QED
        BY <3>2, <3>3
    <2> QED
      BY <1>1, <2>3, <2>4, <2>5 DEF LoadInv, Keeps
  <1>3. CASE EndLoad /\ UNCHANGED loadFaults
    BY <1>0, <1>1, <1>3 DEF LoadInv, LoadTypeOK, EndLoad, NoTx, Keeps
  <1>4. CASE LoadFault /\ at' = at + 1 /\ UNCHANGED <<tx, read>>
    <2>1. LoadTypeOK'
      BY <1>0, <1>1, <1>4, LoadAssumption DEF LoadTypeOK, LoadFault
    <2> QED
      BY <1>1, <1>4, <2>1 DEF LoadInv, Keeps, Seen
  <1> QED
    BY <1>2, <1>3, <1>4 DEF LoadTable

\* The end of a load, and its beginning.
LEMMA RunStep ==
  ASSUME LoadInv, Begin \/ Commit \/ Abort
  PROVE  LoadInv'
  <1>0. LoadTypeOK
    BY DEF LoadInv
  <1>1. CASE Begin
    <2>1. LoadTypeOK'
      BY <1>0, <1>1, LoadAssumption DEF LoadTypeOK, Begin
    <2> QED
      BY <1>1, <2>1 DEF LoadInv, Begin, Keeps, Seen
  <1>2. CASE Commit
    <2>1. \A r \in Rows : db'[r] = Seen(r) /\ Seen(r) \in Row \cup {Absent}
      BY <1>0, <1>2, SeenRow DEF Commit
    <2>2. LoadTypeOK'
      BY <1>0, <1>2, <2>1 DEF LoadTypeOK, Commit, EndLoad, NoTx
    <2>3. \A r \in edited : r \in Rows /\ Seen(r) # Absent /\ Keeps(Seen(r), r)
      BY <1>0 DEF LoadInv, LoadTypeOK, Seen
    <2> QED
      BY <1>2, <2>1, <2>2, <2>3 DEF LoadInv, Commit, EndLoad, NoTx, Keeps, LoadTypeOK
  <1>3. CASE Abort
    <2>1. LoadTypeOK'
      BY <1>0, <1>3, LoadAssumption DEF LoadTypeOK, Abort, LoadFault, EndLoad, NoTx
    <2> QED
      BY <1>0, <1>3, <2>1 DEF LoadInv, Abort, EndLoad, NoTx, Keeps, LoadTypeOK
  <1> QED
    BY <1>1, <1>2, <1>3

\* Sellers and the legacy system at work.
LEMMA UseStep ==
  ASSUME LoadInv, NEW r \in Rows,
         LiveEdit(r) \/ LiveCreate(r) \/ LiveDelete(r) \/ \E v \in Versions : LegacyWrite(r, v)
  PROVE  LoadInv'
  <1>0. LoadTypeOK /\ live \in Nat /\ MaxLive \in Nat
    BY LoadAssumption DEF LoadInv, LoadTypeOK
  <1>1. [head |-> Live, rest |-> Live] \in Row
    BY DEF Row
  <1>2. CASE LiveEdit(r) \/ LiveCreate(r)
    <2>1. /\ db' = [db EXCEPT ![r] = [head |-> Live, rest |-> Live]]
          /\ edited' = edited \cup {r} /\ tx[r] = Absent /\ tx' = tx
          /\ read' = read /\ deleted' = deleted
      BY <1>0, <1>2 DEF LiveEdit, LiveCreate, Seen, LoadTypeOK
    <2>2. LoadTypeOK'
      BY <1>0, <1>1, <1>2, <2>1 DEF LoadTypeOK, LiveEdit, LiveCreate
    <2>3. \A q \in Rows : db'[q] = IF q = r THEN [head |-> Live, rest |-> Live] ELSE db[q]
      BY <1>0, <2>1 DEF LoadTypeOK
    <2>4. \A q \in read' : Seen(q)' # Absent \/ q \in deleted'
      BY <1>0, <1>1, <2>1, <2>3, LoadAssumption DEF LoadInv, LoadTypeOK, Seen
    <2>5. ASSUME NEW q \in edited'
          PROVE  /\ db'[q] # Absent /\ Keeps(db'[q], q)
                 /\ tx'[q] # Absent => Keeps(tx'[q], q)
      BY <1>0, <1>1, <2>1, <2>3, LoadAssumption DEF LoadInv, LoadTypeOK, Keeps
    <2> QED
      BY <2>2, <2>4, <2>5 DEF LoadInv, Keeps
  <1>3. CASE LiveDelete(r)
    <2>1. LoadTypeOK'
      BY <1>0, <1>3 DEF LoadTypeOK, LiveDelete
    <2>2. \A q \in Rows : db'[q] = IF q = r THEN Absent ELSE db[q]
      BY <1>0, <1>3 DEF LoadTypeOK, LiveDelete
    <2> QED
      BY <1>0, <1>3, <2>1, <2>2 DEF LoadInv, LiveDelete, Keeps, Seen, LoadTypeOK
  <1>4. ASSUME NEW v \in Versions, LegacyWrite(r, v) PROVE LoadInv'
    <2>1. LoadTypeOK'
      BY <1>0, <1>4 DEF LoadTypeOK, LegacyWrite
    <2> QED
      BY <1>4, <2>1 DEF LoadInv, LegacyWrite, Keeps, Seen
  <1> QED
    BY <1>2, <1>3, <1>4

-----------------------------------------------------------------------------
\* The inductive invariant, for any databases and any number of loads.
THEOREM LoadInvariant == LoadSpec => []LoadInv
  <1>1. LoadInv /\ UNCHANGED loadVars => LoadInv'
    BY DEF LoadInv, LoadTypeOK, loadVars, Keeps, Seen
  <1>2. LoadInv /\ [LoadNext]_loadVars => LoadInv'
    BY <1>1, TableStep, RunStep, UseStep DEF LoadNext
  <1> QED
    BY LoadInitial, <1>2, PTL DEF LoadSpec

\* The databases and the transaction keep their types.
THEOREM LoadTypeCorrect == LoadSpec => []LoadTypeOK
  <1>1. LoadInv => LoadTypeOK
    BY DEF LoadInv
  <1> QED
    BY LoadInvariant, <1>1, PTL

\* What sellers have written survives every later load, but for the columns
\* that the tool refreshes.
THEOREM SellersKeepTheirs == LoadSpec => []LiveKept
  <1>1. LoadInv => LiveKept
    BY DEF LoadInv, LiveKept, Keeps
  <1> QED
    BY LoadInvariant, <1>1, PTL

\* A load that commits has dropped no row that it read.
THEOREM NothingDropped == LoadSpec => RowsArrive
  <1>1. LoadInv /\ [LoadNext]_loadVars =>
          [at = Tables + 1 /\ at' = 0 /\ loadFaults' = loadFaults =>
             \A r \in read : db'[r] # Absent \/ r \in deleted]_loadVars
    <2> SUFFICES ASSUME LoadInv, [LoadNext]_loadVars, at = Tables + 1, at' = 0, loadFaults' = loadFaults,
                        NEW r \in read
                 PROVE  db'[r] # Absent \/ r \in deleted
      OBVIOUS
    <2>0. /\ LoadTypeOK /\ Tables \in Nat /\ loadFaults \in Nat /\ r \in Rows
          /\ Seen(r) # Absent \/ r \in deleted
      BY LoadAssumption DEF LoadInv, LoadTypeOK
    <2>1. Commit
      BY <2>0 DEF LoadNext, loadVars, Begin, LoadTable, Abort, LoadFault, LiveEdit, LiveCreate,
         LiveDelete, LegacyWrite
    <2> QED
      BY <2>0, <2>1 DEF Commit
  <1> QED
    BY LoadInvariant, <1>1, PTL DEF LoadSpec, RowsArrive
-----------------------------------------------------------------------------
\* Every step leaves the rows of the new database loaded, or created by sellers.
LEMMA LoadedStep == LoadInv /\ Loaded /\ [LoadNext]_loadVars => Loaded'
  <1> SUFFICES ASSUME LoadInv, Loaded, [LoadNext]_loadVars PROVE Loaded'
    OBVIOUS
  <1>0. LoadTypeOK
    BY DEF LoadInv
  <1>1. CASE UNCHANGED loadVars
    BY <1>1 DEF loadVars, Loaded
  <1>2. CASE Begin \/ Abort
    BY <1>2 DEF Begin, Abort, EndLoad, NoTx, Loaded
  <1>3. CASE LoadTable
    <2>1. CASE Wrote(ToLoad)
      BY <1>3, <2>1 DEF Wrote, ToLoad, LoadTable, Loaded
    <2> QED
      BY <1>3, <2>1 DEF LoadTable, EndLoad, NoTx, Loaded
  <1>4. CASE Commit
    BY <1>4 DEF Commit, EndLoad, NoTx, Seen, Loaded
  <1>5. ASSUME NEW r \in Rows, LiveEdit(r) \/ LiveCreate(r) \/ LiveDelete(r) PROVE Loaded'
    <2>1. \A q \in Rows \ {r} : db'[q] = db[q]
      BY <1>0, <1>5 DEF LoadTypeOK, LiveEdit, LiveCreate, LiveDelete
    <2>2. UNCHANGED <<tx, legacy>> /\ edited \ {r} \subseteq edited'
      BY <1>5 DEF LiveEdit, LiveCreate, LiveDelete
    <2>3. db'[r] # Absent \/ tx'[r] # Absent => legacy[r] # Absent \/ r \in edited' \cap LiveRows
      BY <1>0, <1>5 DEF LoadTypeOK, LiveEdit, LiveCreate, LiveDelete, Loaded
    <2> QED
      BY <2>1, <2>2, <2>3 DEF Loaded
  <1>6. ASSUME NEW r \in Rows, NEW v \in Versions, LegacyWrite(r, v) PROVE Loaded'
    BY <1>0, <1>6, LoadAssumption DEF LoadTypeOK, LegacyWrite, Loaded
  <1> QED
    BY <1>1, <1>2, <1>3, <1>4, <1>5, <1>6 DEF LoadNext

\* Equal numbers, where one database's rows are among the other's, are equal rows.
LEMMA CountsAgree ==
  ASSUME LoadInv, Loaded, edited \cap LiveRows = {}, Matches
  PROVE  \A r \in Rows : legacy[r] # Absent => db[r] # Absent
  <1> SUFFICES ASSUME NEW r \in Rows, legacy[r] # Absent PROVE db[r] # Absent
    OBVIOUS
  <1> DEFINE k == TableOf[r]
             new == {q \in Rows : TableOf[q] = k /\ db[q] # Absent}
             old == {q \in Rows : TableOf[q] = k /\ legacy[q] # Absent}
  <1>1. new \subseteq old
    BY DEF Loaded
  <1>2. IsFiniteSet(old)
    BY LoadAssumption, FS_Subset
  <1>3. Cardinality(new) = Cardinality(old)
    BY LoadAssumption DEF Matches, Count
  <1>4. new = old
    BY <1>1, <1>2, <1>3, FS_Subset
  <1> QED
    BY <1>4

\* A reconciliation that finds equal numbers has found every legacy row, as long
\* as sellers have neither created nor deleted rows (cmd_reconcile).
THEOREM EqualCountsSuffice == LoadSpec => []ReconcileSound
  <1>1. LoadInit => Loaded
    BY DEF LoadInit, NoTx, Loaded
  <1>2. LoadInv /\ Loaded => ReconcileSound
    BY CountsAgree DEF ReconcileSound
  <1> QED
    BY <1>1, <1>2, LoadedStep, LoadInvariant, PTL DEF LoadSpec

-----------------------------------------------------------------------------
(***************************************************************************)
(* The index, for any number of documents, tenants, texts and chunks.      *)
(*                                                                         *)
(* chunk_text: the windows of a text cover it, and a longer text has no    *)
(* fewer of them, so that every chunk of every text has its point.         *)
(***************************************************************************)

LEMMA Division ==
  ASSUME NEW a \in Nat, NEW b \in Nat \ {0}
  PROVE  a \div b \in Nat /\ b * (a \div b) <= a /\ a < b * (a \div b) + b
OBVIOUS

LEMMA TimesMonotone ==
  ASSUME NEW a \in Nat, NEW b \in Nat, NEW c \in Nat, a <= b PROVE c * a <= c * b
OBVIOUS

LEMMA DivisionMonotone ==
  ASSUME NEW a \in Nat, NEW c \in Nat, NEW b \in Nat \ {0}, a <= c
  PROVE  a \div b <= c \div b
<1>. DEFINE p == a \div b
            q == c \div b
<1>1. p \in Nat /\ q \in Nat /\ b * p <= a /\ c < b * q + b
  BY Division
<1>. HIDE DEF p, q
<1>2. q + 1 <= p => b * (q + 1) <= b * p
  BY <1>1, TimesMonotone
<1>3. b * (q + 1) = b * q + b /\ b * q \in Nat /\ b * p \in Nat
  BY <1>1
<1>4. ~(q + 1 <= p)
  BY <1>1, <1>2, <1>3
<1>. QED
  BY <1>1, <1>4 DEF p, q

LEMMA StepType == Step \in Nat \ {0} /\ Step <= MaxWords /\ MaxWords \in Nat \ {0}
BY IndexAssumption DEF Step

Chunks(n) == IF n <= MaxWords THEN 1 ELSE (n + Step - 1) \div Step

LEMMA WindowsType ==
  ASSUME NEW n \in Nat \ {0}
  PROVE  /\ Chunks(n) \in Nat \ {0}
         /\ DOMAIN Windows(n) = 1 .. Chunks(n) /\ Len(Windows(n)) = Chunks(n)
<1>1. CASE n <= MaxWords
  BY <1>1, StepType DEF Windows, Chunks
<1>2. CASE ~(n <= MaxWords)
  <2>. DEFINE k == (n + Step - 1) \div Step
  <2>1. /\ n + Step - 1 \in Nat /\ Step \in Nat \ {0} /\ n + Step - 1 >= Step
    BY StepType, <1>2
  <2>2. /\ k \in Nat /\ n + Step - 1 < Step * k + Step
    BY <2>1, Division
  <2>. HIDE DEF k
  <2>3. k # 0
    BY <2>1, <2>2
  <2>4. Windows(n) = [i \in 1 .. k |->
          [from |-> (i - 1) * Step + 1,
           to   |-> IF (i - 1) * Step + MaxWords > n THEN n ELSE (i - 1) * Step + MaxWords]]
    BY <1>2 DEF Windows, k
  <2>5. DOMAIN Windows(n) = 1 .. k /\ Len(Windows(n)) = k
    BY <2>2, <2>4
  <2>. QED
    BY <1>2, <2>2, <2>3, <2>5 DEF Chunks, k
<1>. QED
  BY <1>1, <1>2

LEMMA ChunksMonotone ==
  ASSUME NEW m \in Nat \ {0}, NEW n \in Nat \ {0}, m <= n PROVE Chunks(m) <= Chunks(n)
<1>1. CASE m <= MaxWords
  BY <1>1, WindowsType, StepType DEF Chunks
<1>2. CASE ~(m <= MaxWords)
  <2>1. ~(n <= MaxWords) /\ m + Step - 1 \in Nat /\ n + Step - 1 \in Nat
        /\ m + Step - 1 <= n + Step - 1
    BY <1>2, StepType
  <2>. QED
    BY <1>2, <2>1, StepType, DivisionMonotone DEF Chunks
<1>. QED
  BY <1>1, <1>2

\* No word of a text falls between its windows.
THEOREM WindowsCover ==
  ASSUME NEW n \in Nat \ {0}, NEW j \in 1 .. n
  PROVE  \E i \in DOMAIN Windows(n) : j \in Windows(n)[i].from .. Windows(n)[i].to
<1>1. CASE n <= MaxWords
  <2>1. Windows(n) = <<[from |-> 1, to |-> n]>>
    BY <1>1 DEF Windows
  <2>2. 1 \in DOMAIN Windows(n) /\ j \in Windows(n)[1].from .. Windows(n)[1].to
    BY <2>1
  <2>. QED
    BY <2>2
<1>2. CASE ~(n <= MaxWords)
  <2>. DEFINE k == (n + Step - 1) \div Step
              q == (j - 1) \div Step
  <2>1. Step \in Nat \ {0} /\ j - 1 \in Nat /\ n + Step - 1 \in Nat
    BY StepType
  <2>2. /\ k \in Nat /\ n + Step - 1 < Step * k + Step
        /\ q \in Nat /\ Step * q <= j - 1 /\ j - 1 < Step * q + Step
    BY <2>1, Division
  <2>3. Windows(n) = [i \in 1 .. k |->
          [from |-> (i - 1) * Step + 1,
           to   |-> IF (i - 1) * Step + MaxWords > n THEN n ELSE (i - 1) * Step + MaxWords]]
    BY <1>2 DEF Windows
  <2>. HIDE DEF k, q
  <2>4. q + 1 \in 1 .. k
    <3>1. k <= q => Step * k <= Step * q
      BY <2>1, <2>2, TimesMonotone
    <3>2. Step * k \in Nat /\ Step * q \in Nat
      BY <2>1, <2>2
    <3>3. ~(k <= q)
      BY <2>1, <2>2, <3>1, <3>2
    <3>. QED
      BY <2>2, <3>3
  <2>5. PICK i \in 1 .. k : i = q + 1
    BY <2>4
  <2>6. PICK before \in Nat : before = (i - 1) * Step /\ before = Step * q
    BY <2>1, <2>2, <2>5
  <2>7. /\ Windows(n)[i].from = before + 1
        /\ Windows(n)[i].to = IF before + MaxWords > n THEN n ELSE before + MaxWords
    BY <2>3, <2>6
  <2>8. j \in Windows(n)[i].from .. Windows(n)[i].to
    BY <2>2, <2>6, <2>7, StepType
  <2>. QED
    BY <2>3, <2>8
<1>. QED
  BY <1>1, <1>2

\* No window is empty, longer than the 180 words of chunk_text, or beyond the text.
THEOREM WindowsFit ==
  ASSUME NEW n \in Nat \ {0}, NEW i \in DOMAIN Windows(n)
  PROVE  LET w == Windows(n)[i] IN
         /\ 1 <= w.from /\ w.from <= w.to /\ w.to <= n
         /\ w.to - w.from < MaxWords
<1>1. CASE n <= MaxWords
  <2>1. Windows(n) = <<[from |-> 1, to |-> n]>>
    BY <1>1 DEF Windows
  <2>2. i = 1 /\ Windows(n)[i].from = 1 /\ Windows(n)[i].to = n
    BY <2>1
  <2>. QED
    BY <1>1, <2>2, StepType
<1>2. CASE ~(n <= MaxWords)
  <2>. DEFINE k == (n + Step - 1) \div Step
  <2>1. Step \in Nat \ {0} /\ n + Step - 1 \in Nat
    BY StepType
  <2>2. k \in Nat /\ Step * k <= n + Step - 1
    BY <2>1, Division
  <2>3. Windows(n) = [h \in 1 .. k |->
          [from |-> (h - 1) * Step + 1,
           to   |-> IF (h - 1) * Step + MaxWords > n THEN n ELSE (h - 1) * Step + MaxWords]]
    BY <1>2 DEF Windows
  <2>. HIDE DEF k
  <2>4. i \in 1 .. k
    BY <2>3
  <2>5. Step * i <= Step * k
    BY <2>1, <2>2, <2>4, TimesMonotone
  <2>6. Step * i = (i - 1) * Step + Step /\ (i - 1) * Step \in Nat /\ Step * k \in Nat
    BY <2>1, <2>2, <2>4
  <2>7. PICK before \in Nat : before = (i - 1) * Step /\ before + 1 <= n
    BY <2>1, <2>2, <2>5, <2>6
  <2>8. /\ Windows(n)[i].from = before + 1
        /\ Windows(n)[i].to = IF before + MaxWords > n THEN n ELSE before + MaxWords
    BY <2>3, <2>4, <2>7
  <2>. QED
    BY <2>7, <2>8, StepType
<1>. QED
  BY <1>1, <1>2

LEMMA LongestIs == \A t \in Texts : /\ Words[t] \in Nat \ {0} /\ Longest \in Nat \ {0}
                                    /\ Words[t] <= Longest
<1>1. PICK t \in Texts : \A u \in Texts : Words[u] <= Words[t]
  BY IndexAssumption
<1>2. \E n \in {Words[u] : u \in Texts} : \A u \in Texts : Words[u] <= n
  BY <1>1
<1>3. Longest \in {Words[u] : u \in Texts} /\ \A u \in Texts : Words[u] <= Longest
  BY <1>2 DEF Longest
<1>. QED
  BY <1>3, IndexAssumption

LEMMA ChunkPoint ==
  ASSUME NEW d \in Docs, NEW text \in Texts, NEW i \in DOMAIN Windows(Words[text])
  PROVE  <<d, i>> \in Points
<1>1. Chunks(Words[text]) <= Chunks(Longest) /\ Len(Windows(Longest)) = Chunks(Longest)
      /\ Chunks(Longest) \in Nat /\ Chunks(Words[text]) \in Nat
      /\ i \in 1 .. Chunks(Words[text])
  BY LongestIs, ChunksMonotone, WindowsType
<1>. QED
  BY <1>1 DEF Points

(***************************************************************************)
(* IndexInv is inductive: what a run holds is what rows said when it read  *)
(* them, and no older than the index, unless two runs had its tenant.      *)
(***************************************************************************)

LEMMA IndexConstants ==
  /\ None \notin Payload /\ None \notin Texts /\ None \notin Tenants
  /\ MaxEdits \in Nat /\ MaxManual \in Nat /\ MaxFaults \in Nat
  /\ \A d \in Docs : TenantOf[d] \in Tenants
  /\ Len(Types) \in Nat \ {0} /\ DOMAIN Types = 1 .. Len(Types)
  /\ \A i, j \in DOMAIN Types : Types[i] = Types[j] => i = j
  /\ \A pt \in Points : pt[1] \in Docs
BY IndexAssumption, NoneAssumption DEF Points

LEMMA FaultsType == TypeOK /\ (Fault \/ UNCHANGED faults) => faults' \in 0 .. MaxFaults
BY IndexConstants DEF TypeOK, Fault

LEMMA IdleRun == Idle \in Run /\ Idle.at = "idle" /\ Idle.ten = None /\ Idle.docs = {}
BY IndexConstants DEF Idle, Run

LEMMA IndexInit == Init => IndexInv
<1>. SUFFICES ASSUME Init PROVE IndexInv
  OBVIOUS
<1>1. TypeOK
  BY IdleRun, IndexConstants DEF Init, TypeOK
<1>2. \A s \in Slots : run[s] = Idle
  BY DEF Init
<1>3. \A s \in Slots : RunSound(s)
  BY <1>2, IdleRun DEF RunSound
<1>4. \A d \in Docs : stamp[d] <= edits /\ ChunksTogether(d)
  BY DEF Init, ChunksTogether
<1>5. \A pt \in Points : index[pt] = None
  BY DEF Init
<1>. QED
  BY <1>1, <1>2, <1>3, <1>4, <1>5, IdleRun DEF IndexInv

\* A row changes: what was read of it is no longer what it says, and older.
LEMMA WriteKeeps ==
  ASSUME IndexInv, NEW d \in Docs, NEW text \in Texts \cup {None}, Write(d, text),
         events' \subseteq Tenants
  PROVE  IndexInv'
<1>1. /\ edits < MaxEdits /\ edits' = edits + 1 /\ edits \in Nat
      /\ row' = [row EXCEPT ![d] = text] /\ stamp' = [stamp EXCEPT ![d] = edits + 1]
      /\ UNCHANGED <<queued, index, run, manual, faults, overlapped>>
  BY DEF Write, IndexInv, TypeOK
<1>2. /\ stamp'[d] = edits + 1
      /\ \A e \in Docs : stamp[e] \in Nat /\ stamp[e] <= edits
      /\ \A e \in Docs \ {d} : stamp'[e] = stamp[e] /\ row'[e] = row[e]
  BY <1>1 DEF IndexInv, TypeOK
<1>3. TypeOK'
  <2>1. edits' \in 0 .. MaxEdits
    BY <1>1, IndexConstants
  <2>2. stamp' \in [Docs -> 0 .. MaxEdits] /\ row' \in [Docs -> Texts \cup {None}]
    BY <1>1, <2>1, IndexConstants DEF IndexInv, TypeOK
  <2>. QED
    BY <1>1, <2>1, <2>2 DEF IndexInv, TypeOK
<1>4. ASSUME NEW e \in Docs, NEW x, NEW n \in Nat, Authentic(e, x, n)
      PROVE  Authentic(e, x, n)' /\ (e = d => n # stamp'[d])
  BY <1>1, <1>2, <1>4 DEF Authentic
<1>5. ASSUME NEW pt \in Points, index[pt] # None
      PROVE  /\ Authentic(pt[1], index[pt].text, index[pt].stamp)'
             /\ pt[1] = d => index[pt].stamp # stamp'[d]
  <2>1. index[pt].stamp \in Nat /\ pt[1] \in Docs
    BY <1>5, IndexConstants DEF IndexInv, TypeOK, Payload
  <2>2. Authentic(pt[1], index[pt].text, index[pt].stamp)
    BY <1>5 DEF IndexInv
  <2>. QED
    BY <1>1, <1>4, <2>1, <2>2 DEF Authentic
<1>6. ASSUME NEW e \in Docs PROVE stamp'[e] <= edits' /\ ChunksTogether(e)'
  <2>1. stamp'[e] <= edits'
    BY <1>1, <1>2
  <2>2. CASE e = d
    BY <1>1, <1>5, <2>1, <2>2 DEF ChunksTogether
  <2>3. CASE e # d
    <3>1. ChunksTogether(e)
      BY DEF IndexInv
    <3>. QED
      BY <1>1, <1>2, <2>1, <2>3, <3>1 DEF ChunksTogether
  <2>. QED
    BY <2>2, <2>3
<1>7. ASSUME NEW s \in Slots PROVE RunSound(s)'
  <2>1. RunSound(s) /\ run'[s] = run[s]
    BY <1>1 DEF IndexInv
  <2>2. \A e \in run[s].docs : e.doc \in Docs /\ e.stamp \in Nat
    BY DEF IndexInv, TypeOK, Run, Document
  <2>3. \A e \in run[s].docs : Authentic(e.doc, e.text, e.stamp)'
    BY <1>4, <2>1, <2>2 DEF RunSound, Authentic
  <2>. QED
    BY <1>1, <2>1, <2>3 DEF RunSound, Authentic
<1>. QED
  BY <1>1, <1>3, <1>5, <1>6, <1>7 DEF IndexInv, Authentic

\* A step of one run that leaves the rows and the index alone.
LEMMA Ran ==
  ASSUME IndexInv, NEW s \in Slots, UNCHANGED <<table, index>>,
         run' \in [Slots -> Run], \A r \in Slots \ {s} : run'[r] = run[r],
         RunSound(s)',
         overlapped \subseteq overlapped', overlapped' \subseteq Tenants,
         run'[s].ten # None =>
           \A r \in Slots \ {s} : run[r].ten = run'[s].ten => run'[s].ten \in overlapped',
         events' \subseteq Tenants, queued' \subseteq Tenants \cup {None},
         manual' \in 0 .. MaxManual, faults' \in 0 .. MaxFaults
  PROVE  IndexInv'
<1>1. UNCHANGED <<row, stamp, edits, index>>
  BY DEF table
<1>2. TypeOK'
  BY <1>1 DEF IndexInv, TypeOK
<1>3. ASSUME NEW r \in Slots PROVE RunSound(r)'
  <2>1. CASE r # s
    <3>1. RunSound(r) /\ run'[r] = run[r]
      BY <2>1 DEF IndexInv
    <3>. QED
      BY <1>1, <3>1 DEF RunSound, Authentic
  <2>. QED
    BY <2>1
<1>4. ASSUME NEW d \in Docs PROVE stamp'[d] <= edits' /\ ChunksTogether(d)'
  <2>1. stamp[d] <= edits /\ ChunksTogether(d)
    BY DEF IndexInv
  <2>. QED
    BY <1>1, <2>1 DEF ChunksTogether
<1>5. \A pt \in Points :
        (index[pt] # None => Authentic(pt[1], index[pt].text, index[pt].stamp))'
  BY <1>1 DEF IndexInv, Authentic
<1>6. ASSUME NEW r \in Slots, NEW q \in Slots, r # q, run'[r].ten # None,
             run'[r].ten = run'[q].ten
      PROVE  run'[r].ten \in overlapped'
  <2>1. CASE r = s
    BY <1>6, <2>1
  <2>2. CASE q = s
    BY <1>6, <2>2
  <2>3. CASE r # s /\ q # s
    BY <1>6, <2>3 DEF IndexInv
  <2>. QED
    BY <2>1, <2>2, <2>3
<1>. QED
  BY <1>2, <1>3, <1>4, <1>5, <1>6 DEF IndexInv

\* A run that has no tenant at the moment has no documents either.
LEMMA RanEmpty ==
  ASSUME IndexInv, NEW s \in Slots, UNCHANGED <<table, index, overlapped>>,
         NEW q \in Run, run' = [run EXCEPT ![s] = q],
         q.at \in {"idle", "tenant"}, q.ten = None, q.docs = {},
         events' \subseteq Tenants, queued' \subseteq Tenants \cup {None},
         manual' \in 0 .. MaxManual, faults' \in 0 .. MaxFaults
  PROVE  IndexInv'
<1>1. /\ run' \in [Slots -> Run] /\ run'[s] = q
      /\ \A r \in Slots \ {s} : run'[r] = run[r]
  BY DEF IndexInv, TypeOK
<1>2. RunSound(s)'
  BY <1>1 DEF RunSound
<1>3. overlapped' \subseteq Tenants /\ overlapped \subseteq overlapped'
  BY DEF IndexInv, TypeOK
<1>. QED
  BY <1>1, <1>2, <1>3, Ran

LEMMA EmitKeeps == ASSUME IndexInv, NEW t \in Tenants, Emit(t) PROVE IndexInv'
<1>1. /\ UNCHANGED <<table, index, run, manual, overlapped>>
      /\ events' \subseteq Tenants /\ queued' \subseteq Tenants \cup {None}
      /\ faults' \in 0 .. MaxFaults
  BY FaultsType DEF Emit, IndexInv, TypeOK
<1>. QED
  BY <1>1, Ran DEF IndexInv, TypeOK, RunSound, Authentic, table, Slots

LEMMA ScheduleKeeps == ASSUME IndexInv, Schedule PROVE IndexInv'
<1>1. /\ UNCHANGED <<table, index, run, manual, overlapped>>
      /\ events' \subseteq Tenants /\ queued' \subseteq Tenants \cup {None}
      /\ faults' \in 0 .. MaxFaults
  BY DEF Schedule, IndexInv, TypeOK
<1>. QED
  BY <1>1, Ran DEF IndexInv, TypeOK, RunSound, Authentic, table, Slots

LEMMA StartDagKeeps ==
  ASSUME IndexInv, NEW t \in Tenants \cup {None}, StartDag(t) PROVE IndexInv'
<1>. DEFINE q == [Idle EXCEPT !.at = "tenant", !.conf = t,
                              !.left = IF t = None THEN Tenants ELSE {t}]
<1>1. /\ UNCHANGED <<table, index, overlapped, events, manual>> /\ queued' \subseteq Tenants \cup {None}
      /\ manual' \in 0 .. MaxManual /\ events' \subseteq Tenants
      /\ faults' \in 0 .. MaxFaults
  BY FaultsType DEF StartDag, IndexInv, TypeOK
<1>2. q \in Run /\ q.at = "tenant" /\ q.ten = None /\ q.docs = {} /\ "dag" \in Slots
  BY IdleRun DEF Run, Slots
<1>3. CASE run' = [run EXCEPT !["dag"] = q]
  <2>. HIDE DEF q
  <2>. QED
    BY <1>1, <1>2, <1>3, RanEmpty
<1>4. CASE UNCHANGED run
  BY <1>1, <1>4, Ran DEF IndexInv, TypeOK, RunSound, Authentic, table, Slots
<1>. QED
  BY <1>3, <1>4 DEF StartDag

LEMMA PostIngestKeeps ==
  ASSUME IndexInv, NEW t \in Tenants, NEW n \in 0 .. edits, PostIngest(t, n) PROVE IndexInv'
<1>. DEFINE q == [Idle EXCEPT !.at = "tenant", !.conf = t, !.left = {t}, !.since = n]
<1>1. /\ UNCHANGED <<table, index, overlapped>> /\ queued' \subseteq Tenants \cup {None}
      /\ manual' \in 0 .. MaxManual /\ events' \subseteq Tenants
      /\ faults' \in 0 .. MaxFaults /\ n \in 0 .. MaxEdits
  BY IndexConstants DEF PostIngest, IndexInv, TypeOK
<1>2. q \in Run /\ q.at = "tenant" /\ q.ten = None /\ q.docs = {} /\ "post" \in Slots
  BY <1>1, IdleRun DEF Run, Slots
<1>3. run' = [run EXCEPT !["post"] = q]
  BY DEF PostIngest
<1>. HIDE DEF q
<1>. QED
  BY <1>1, <1>2, <1>3, RanEmpty

LEMMA RunType ==
  ASSUME IndexInv, NEW s \in Slots
  PROVE  /\ run \in [Slots -> Run] /\ run[s] \in Run /\ RunSound(s)
         /\ overlapped \subseteq Tenants /\ faults \in 0 .. MaxFaults
         /\ events \subseteq Tenants /\ queued \subseteq Tenants \cup {None}
         /\ manual \in 0 .. MaxManual
BY DEF IndexInv, TypeOK

LEMMA NextTenantKeeps == ASSUME IndexInv, NEW s \in Slots, NextTenant(s) PROVE IndexInv'
<1>1. /\ run[s].at = "tenant" /\ UNCHANGED <<table, events, queued, index, manual>>
      /\ run[s].ten = None /\ run[s].docs = {}
  BY RunType DEF NextTenant, At, RunSound
<1>2. Fault \/ UNCHANGED faults => faults' \in 0 .. MaxFaults
  BY FaultsType DEF IndexInv
<1>3. CASE run' = [run EXCEPT ![s] = Idle] /\ UNCHANGED <<faults, overlapped>>
  BY <1>1, <1>2, <1>3, IdleRun, RunType, RanEmpty
<1>4. ASSUME NEW t \in run[s].left,
             run' = [run EXCEPT ![s] = [run[s] EXCEPT !.at = "extract", !.ten = t, !.left = @ \ {t}]],
             overlapped' = overlapped \cup {u \in {t} : \E r \in Slots \ {s} : run[r].ten = t},
             UNCHANGED faults
      PROVE  IndexInv'
  <2>1. t \in Tenants
    BY <1>4, RunType DEF Run
  <2>2. /\ run' \in [Slots -> Run] /\ \A r \in Slots \ {s} : run'[r] = run[r]
        /\ run'[s].at = "extract" /\ run'[s].ten = t /\ run'[s].docs = {}
    <3>. DEFINE q == [run[s] EXCEPT !.at = "extract", !.ten = t, !.left = @ \ {t}]
    <3>1. q \in Run /\ q.at = "extract" /\ q.ten = t /\ q.docs = {}
      BY <1>1, <2>1, RunType DEF Run
    <3>2. run' = [run EXCEPT ![s] = q]
      BY <1>4
    <3>. HIDE DEF q
    <3>. QED
      BY <3>1, <3>2, RunType
  <2>3. RunSound(s)'
    BY <2>1, <2>2 DEF RunSound
  <2>4. overlapped \subseteq overlapped' /\ overlapped' \subseteq Tenants
    BY <1>4, <2>1, RunType
  <2>5. \A r \in Slots \ {s} : run[r].ten = t => t \in overlapped'
    BY <1>4
  <2>. QED
    BY <1>1, <1>2, <1>4, <2>2, <2>3, <2>4, <2>5, RunType, Ran
<1>5. ASSUME NEW t \in run[s].left, Fault, run' = [run EXCEPT ![s].left = @ \ {t}],
             UNCHANGED overlapped
      PROVE  IndexInv'
  <2>. DEFINE q == [run[s] EXCEPT !.left = @ \ {t}]
  <2>1. q \in Run /\ q.at = "tenant" /\ q.ten = None /\ q.docs = {}
    BY <1>1, RunType DEF Run
  <2>2. run' = [run EXCEPT ![s] = q]
    BY <1>5
  <2>. HIDE DEF q
  <2>. QED
    BY <1>1, <1>2, <1>5, <2>1, <2>2, RunType, RanEmpty
<1>. QED
  BY <1>3, <1>4, <1>5 DEF NextTenant

LEMMA ExtractKeeps == ASSUME IndexInv, NEW s \in Slots, Extract(s) PROVE IndexInv'
<1>. DEFINE new == {[doc |-> d, text |-> row[d], stamp |-> stamp[d]] : d \in Selected(s)}
            k == run[s].type
<1>1. /\ run[s].at = "extract" /\ UNCHANGED <<table, events, queued, index, manual, faults, overlapped>>
      /\ run[s].ten \in Tenants /\ k \in 1 .. Len(Types)
  BY RunType, IndexConstants DEF Extract, At, RunSound, Run
<1>2. /\ row \in [Docs -> Texts \cup {None}] /\ stamp \in [Docs -> 0 .. MaxEdits]
      /\ index \in [Points -> Payload \cup {None}]
  BY DEF IndexInv, TypeOK
<1>3. ASSUME NEW e \in new
      PROVE  /\ e \in Document /\ TenantOf[e.doc] = run[s].ten /\ TypeOf[e.doc] = Types[k]
             /\ e.text = row[e.doc] /\ e.stamp = stamp[e.doc]
             /\ e = [doc |-> e.doc, text |-> row[e.doc], stamp |-> stamp[e.doc]]
  <2>1. PICK d \in Selected(s) : e = [doc |-> d, text |-> row[d], stamp |-> stamp[d]]
    OBVIOUS
  <2>2. d \in Docs /\ row[d] \in Texts /\ stamp[d] \in Nat
        /\ TenantOf[d] = run[s].ten /\ TypeOf[d] = Types[k]
    BY <1>2, IndexConstants DEF Selected
  <2>. QED
    BY <2>1, <2>2 DEF Document
<1>4. /\ run'[s].at = IF k = Len(Types) THEN "upsert" ELSE "extract"
      /\ run'[s].docs = run[s].docs \cup new /\ run'[s].ten = run[s].ten
      /\ run'[s].type = IF k = Len(Types) THEN 1 ELSE k + 1
      /\ run' \in [Slots -> Run] /\ \A r \in Slots \ {s} : run'[r] = run[r]
  <2>. DEFINE last == k = Len(Types)
              q == [run[s] EXCEPT !.docs = @ \cup new, !.type = IF last THEN 1 ELSE @ + 1,
                                  !.at = IF last THEN "upsert" ELSE @]
  <2>1. run' = [run EXCEPT ![s] = q]
    BY DEF Extract
  <2>2. new \subseteq Document
    BY <1>3
  <2>. HIDE DEF new
  <2>3. /\ q.at = (IF last THEN "upsert" ELSE "extract") /\ q.docs = run[s].docs \cup new
        /\ q.ten = run[s].ten /\ q.type = IF last THEN 1 ELSE k + 1
    BY <1>1, RunType DEF Run
  <2>4. q \in Run
    <3>1. /\ run[s].docs \cup new \subseteq Document
          /\ (IF last THEN 1 ELSE k + 1) \in DOMAIN Types
      BY <1>1, <2>2, RunType, IndexConstants DEF Run
    <3>. QED
      BY <1>1, <3>1, RunType DEF Run
  <2>. HIDE DEF q
  <2>. QED
    BY <2>1, <2>3, <2>4, RunType
<1>. HIDE DEF new
<1>5. ASSUME NEW e \in run[s].docs \cup new
      PROVE  /\ TenantOf[e.doc] = run[s].ten /\ Authentic(e.doc, e.text, e.stamp)
             /\ run'[s].at = "extract" => \E i \in 1 .. k : TypeOf[e.doc] = Types[i]
             /\ \A f \in run[s].docs \cup new : f.doc = e.doc => f = e
  <2>1. ASSUME NEW f \in run[s].docs
        PROVE  /\ TenantOf[f.doc] = run[s].ten /\ Authentic(f.doc, f.text, f.stamp)
               /\ \E i \in 1 .. k - 1 : TypeOf[f.doc] = Types[i]
               /\ \A g \in run[s].docs : g.doc = f.doc => g = f
    BY <1>1, RunType DEF RunSound
  <2>2. ASSUME NEW f \in new
        PROVE  /\ TenantOf[f.doc] = run[s].ten /\ Authentic(f.doc, f.text, f.stamp)
               /\ TypeOf[f.doc] = Types[k]
               /\ \A g \in new : g.doc = f.doc => g = f
    <3>1. stamp[f.doc] \in Nat
      BY <1>2, <1>3, IndexConstants DEF Document
    <3>. QED
      BY <1>3, <3>1 DEF Authentic
  <2>3. ASSUME NEW f \in run[s].docs, NEW g \in new PROVE f.doc # g.doc
    <3>1. PICK i \in 1 .. k - 1 : TypeOf[f.doc] = Types[i]
      BY <2>1
    <3>2. i # k /\ i \in DOMAIN Types /\ k \in DOMAIN Types
      BY <1>1, IndexConstants
    <3>. QED
      BY <2>2, <3>1, <3>2, IndexConstants
  <2>4. 1 .. k - 1 \subseteq 1 .. k /\ k \in 1 .. k
    BY <1>1, IndexConstants
  <2>. QED
    BY <2>1, <2>2, <2>3, <2>4
<1>6. ASSUME NEW e \in run[s].docs \cup new, NEW pt \in Points, pt[1] = e.doc,
             index[pt] # None, run[s].ten \notin overlapped
      PROVE  index[pt].stamp <= e.stamp
  <2>1. CASE e \in run[s].docs
    BY <1>6, <2>1, RunType DEF RunSound
  <2>2. CASE e \in new
    BY <1>3, <1>6, <2>2 DEF IndexInv, Authentic
  <2>. QED
    BY <2>1, <2>2
<1>7. RunSound(s)'
  <2>1. run'[s].at = "extract" => run'[s].type - 1 = k
    BY <1>1, <1>4, IndexConstants
  <2>2. UNCHANGED <<row, stamp, index, overlapped>>
    BY <1>1 DEF table
  <2>. QED
    BY <1>1, <1>4, <1>5, <1>6, <2>1, <2>2 DEF RunSound, Authentic
<1>8. \A r \in Slots \ {s} : run[r].ten = run'[s].ten => run'[s].ten \in overlapped'
  BY <1>1, <1>4, IndexConstants DEF IndexInv
<1>. QED
  BY <1>1, <1>4, <1>7, <1>8, RunType, Ran

\* Whether a document that is stored has a chunk at a point.
Hits(e, pt) == e.doc = pt[1] /\ pt[2] \in DOMAIN Windows(Words[e.text])

LEMMA StoredAt ==
  ASSUME NEW docs \in SUBSET Document, NEW pt \in Points,
         \A e, f \in docs : e.doc = f.doc => e = f
  PROVE  /\ \A e \in docs : Hits(e, pt) => Stored(docs)[pt] = [text |-> e.text, stamp |-> e.stamp]
         /\ (\A e \in docs : ~Hits(e, pt)) => Stored(docs)[pt] = index[pt]
<1>. DEFINE over == {e \in docs : e.doc = pt[1] /\ pt[2] \in DOMAIN Windows(Words[e.text])}
            first == CHOOSE e \in over : TRUE
<1>1. Stored(docs)[pt] = IF over = {} THEN index[pt]
                         ELSE [text |-> first.text, stamp |-> first.stamp]
  BY DEF Stored
<1>2. over = {e \in docs : Hits(e, pt)}
  BY DEF Hits
<1>3. over # {} => first \in over
  OBVIOUS
<1>. HIDE DEF over, first
<1>4. ASSUME NEW e \in docs, Hits(e, pt)
      PROVE  Stored(docs)[pt] = [text |-> e.text, stamp |-> e.stamp]
  <2>1. first \in docs /\ Hits(first, pt) /\ over # {}
    BY <1>2, <1>3, <1>4
  <2>2. first = e
    BY <1>4, <2>1 DEF Hits
  <2>. QED
    BY <1>1, <2>1, <2>2
<1>. QED
  BY <1>1, <1>2, <1>4

\* What the upsert of a run makes of a point.
LEMMA UpsertedAt ==
  ASSUME IndexInv, NEW s \in Slots, At(s, "upsert"), index' = Stored(run[s].docs)
  PROVE  /\ index' \in [Points -> Payload \cup {None}]
         /\ \A pt \in Points, e \in run[s].docs :
              Hits(e, pt) => index'[pt] = [text |-> e.text, stamp |-> e.stamp]
         /\ \A pt \in Points : (\A e \in run[s].docs : ~Hits(e, pt)) => index'[pt] = index[pt]
<1>1. /\ run[s].docs \in SUBSET Document
      /\ \A e, f \in run[s].docs : e.doc = f.doc => e = f
  BY RunType DEF Run, RunSound
<1>2. \A pt \in Points :
        /\ \A e \in run[s].docs :
             Hits(e, pt) => index'[pt] = [text |-> e.text, stamp |-> e.stamp]
        /\ (\A e \in run[s].docs : ~Hits(e, pt)) => index'[pt] = index[pt]
  BY <1>1, StoredAt
<1>3. ASSUME NEW pt \in Points PROVE index'[pt] \in Payload \cup {None}
  <2>1. \A e \in run[s].docs : [text |-> e.text, stamp |-> e.stamp] \in Payload
    BY <1>1 DEF Document, Payload
  <2>2. index[pt] \in Payload \cup {None}
    BY DEF IndexInv, TypeOK
  <2>. QED
    BY <1>2, <2>1, <2>2
<1>4. index' \in [Points -> Payload \cup {None}]
  <2>1. /\ index' = [pt \in Points |-> index'[pt]]
    BY DEF Stored
  <2>. QED
    BY <1>3, <2>1
<1>. QED
  BY <1>2, <1>4

\* No point of the tenant's goes back, where the run has had it for itself.
LEMMA UpsertForward ==
  ASSUME IndexInv, NEW s \in Slots, At(s, "upsert"), index' = Stored(run[s].docs),
         NEW pt \in Points, index[pt] # None, TenantOf[pt[1]] \notin overlapped
  PROVE  index'[pt] # None /\ index'[pt].stamp >= index[pt].stamp
<1>1. index[pt] \in Payload /\ index[pt].stamp \in Nat
  BY DEF IndexInv, TypeOK, Payload
<1>2. CASE \A e \in run[s].docs : ~Hits(e, pt)
  BY <1>1, <1>2, UpsertedAt
<1>3. ASSUME NEW e \in run[s].docs, Hits(e, pt)
      PROVE  index'[pt] # None /\ index'[pt].stamp >= index[pt].stamp
  <2>1. index'[pt] = [text |-> e.text, stamp |-> e.stamp] /\ e \in Document
    BY <1>3, UpsertedAt, RunType DEF Run
  <2>2. index'[pt] \in Payload /\ index'[pt].stamp = e.stamp /\ e.stamp \in Nat
    BY <2>1 DEF Document, Payload
  <2>3. run[s].ten = TenantOf[pt[1]] /\ pt[1] = e.doc
    BY <1>3, RunType DEF RunSound, Hits
  <2>4. index[pt].stamp <= e.stamp
    BY <2>3, RunType DEF RunSound
  <2>. QED
    BY <1>1, <2>2, <2>4, IndexConstants
<1>. QED
  BY <1>2, <1>3

LEMMA UpsertKeeps == ASSUME IndexInv, NEW s \in Slots, Upsert(s) PROVE IndexInv'
<1>1. /\ At(s, "upsert") /\ run[s].at = "upsert" /\ run[s].ten \in Tenants
      /\ UNCHANGED <<table, row, stamp, edits, events, manual, overlapped>>
  BY RunType DEF Upsert, At, RunSound, table
<1>2. ASSUME index' = Stored(run[s].docs), UNCHANGED <<queued, faults>>,
             run' = [run EXCEPT ![s] = [run[s] EXCEPT !.at = "tenant", !.ten = None, !.docs = {}]]
      PROVE  IndexInv'
  <2>. DEFINE docs == run[s].docs
  <2>1. /\ run' \in [Slots -> Run] /\ \A r \in Slots \ {s} : run'[r] = run[r]
        /\ run'[s].at = "tenant" /\ run'[s].ten = None /\ run'[s].docs = {}
    <3>. DEFINE q == [run[s] EXCEPT !.at = "tenant", !.ten = None, !.docs = {}]
    <3>1. q \in Run /\ q.at = "tenant" /\ q.ten = None /\ q.docs = {}
      BY RunType DEF Run
    <3>2. run' = [run EXCEPT ![s] = q]
      BY <1>2
    <3>. HIDE DEF q
    <3>. QED
      BY <3>1, <3>2, RunType
  <2>2. /\ index' \in [Points -> Payload \cup {None}]
        /\ \A pt \in Points, e \in docs :
             Hits(e, pt) => index'[pt] = [text |-> e.text, stamp |-> e.stamp]
        /\ \A pt \in Points : (\A e \in docs : ~Hits(e, pt)) => index'[pt] = index[pt]
    BY <1>1, <1>2, UpsertedAt
  <2>3. TypeOK'
    BY <1>1, <1>2, <2>1, <2>2 DEF IndexInv, TypeOK
  <2>4. \A e \in docs : /\ e \in Document /\ TenantOf[e.doc] = run[s].ten
                        /\ Authentic(e.doc, e.text, e.stamp) /\ e.stamp \in Nat /\ e.doc \in Docs
                        /\ \A f \in docs : f.doc = e.doc => f = e
    BY RunType DEF Run, RunSound, Document
  <2>. HIDE DEF docs
  <2>5. ASSUME NEW pt \in Points, index'[pt] # None
        PROVE  /\ index'[pt].stamp <= stamp[pt[1]]
               /\ index'[pt].stamp = stamp[pt[1]] => index'[pt].text = row[pt[1]]
    <3>1. CASE \A e \in docs : ~Hits(e, pt)
      BY <2>2, <2>5, <3>1 DEF IndexInv, Authentic
    <3>2. ASSUME NEW e \in docs, Hits(e, pt)
          PROVE  /\ index'[pt].stamp <= stamp[pt[1]]
                 /\ index'[pt].stamp = stamp[pt[1]] => index'[pt].text = row[pt[1]]
      BY <2>2, <2>4, <3>2 DEF Hits, Authentic
    <3>. QED
      BY <3>1, <3>2
  <2>6. ASSUME NEW r \in Slots PROVE RunSound(r)'
    <3>1. CASE r = s
      BY <2>1, <3>1 DEF RunSound
    <3>2. CASE r # s
      <4>1. RunSound(r) /\ run'[r] = run[r]
        BY <2>1, <3>2 DEF IndexInv
      <4>2. ASSUME NEW e \in run[r].docs, NEW pt \in Points, pt[1] = e.doc, index'[pt] # None,
                   run[r].ten \notin overlapped
            PROVE  index'[pt].stamp <= e.stamp
        <5>1. \A f \in docs : ~Hits(f, pt)
          <6>1. SUFFICES ASSUME NEW f \in docs, Hits(f, pt) PROVE FALSE
            OBVIOUS
          <6>2. f.doc = e.doc /\ TenantOf[e.doc] = run[r].ten /\ TenantOf[f.doc] = run[s].ten
            BY <2>4, <4>1, <4>2, <6>1 DEF RunSound, Hits
          <6>. QED
            BY <1>1, <3>2, <4>2, <6>2, IndexConstants DEF IndexInv
        <5>. QED
          BY <2>2, <4>1, <4>2, <5>1 DEF RunSound
      <4>. QED
        BY <1>1, <4>1, <4>2 DEF RunSound, Authentic
    <3>. QED
      BY <3>1, <3>2
  <2>7. ASSUME NEW d \in Docs PROVE ChunksTogether(d)'
    <3>1. SUFFICES ASSUME row[d] # None, TenantOf[d] \notin overlapped,
                          NEW p \in Points, NEW q \in Points,
                          p[1] = d, index'[p] # None, index'[p].stamp = stamp[d],
                          q[1] = d, q[2] \in DOMAIN Windows(Words[row[d]])
                   PROVE  index'[q] = [text |-> row[d], stamp |-> stamp[d]]
      BY <1>1 DEF ChunksTogether
    <3>2. row[d] \in Texts /\ stamp[d] \in Nat
      BY <3>1, IndexConstants DEF IndexInv, TypeOK
    <3>3. ASSUME NEW e \in docs, e.doc = d, e.stamp = stamp[d]
          PROVE  index'[q] = [text |-> row[d], stamp |-> stamp[d]]
      <4>1. e.text = row[d]
        BY <2>4, <3>3 DEF Authentic
      <4>. QED
        BY <2>2, <3>1, <3>3, <4>1 DEF Hits
    <3>4. ASSUME \A e \in docs : e.doc = d => e.stamp # stamp[d]
          PROVE  index'[q] = [text |-> row[d], stamp |-> stamp[d]]
      <4>1. \A e \in docs : ~Hits(e, p)
        BY <2>2, <3>1, <3>4 DEF Hits
      <4>2. index[p] = index'[p]
        BY <2>2, <4>1
      <4>3. index[q] = [text |-> row[d], stamp |-> stamp[d]]
        BY <3>1, <4>2 DEF IndexInv, ChunksTogether
      <4>4. \A e \in docs : e.doc # d
        <5>1. SUFFICES ASSUME NEW e \in docs, e.doc = d PROVE FALSE
          OBVIOUS
        <5>2. e.stamp <= stamp[d] /\ e.stamp \in Nat /\ run[s].ten = TenantOf[d]
          BY <2>4, <5>1 DEF Authentic
        <5>3. stamp[d] <= e.stamp
          BY <3>1, <4>2, <5>1, <5>2, RunType DEF RunSound, docs
        <5>. QED
          BY <3>2, <3>4, <5>1, <5>2, <5>3
      <4>. QED
        BY <2>2, <3>1, <4>3, <4>4 DEF Hits
    <3>. QED
      BY <3>3, <3>4
  <2>8. \A d \in Docs : stamp'[d] <= edits'
    BY <1>1 DEF IndexInv
  <2>9. \A r, q \in Slots : r # q /\ run'[r].ten # None /\ run'[r].ten = run'[q].ten
                            => run'[r].ten \in overlapped'
    BY <1>1, <2>1 DEF IndexInv
  <2>. QED
    BY <1>1, <2>3, <2>5, <2>6, <2>7, <2>8, <2>9 DEF IndexInv, Authentic
<1>3. ASSUME Fault, run' = [run EXCEPT ![s] = Idle], UNCHANGED index,
             queued' = IF s = "dag" THEN queued \cup {run[s].conf} ELSE queued
      PROVE  IndexInv'
  <2>1. queued' \subseteq Tenants \cup {None} /\ faults' \in 0 .. MaxFaults
    BY <1>3, RunType, FaultsType DEF Run, IndexInv
  <2>. QED
    BY <1>1, <1>3, <2>1, IdleRun, RunType, RanEmpty
<1>. QED
  BY <1>2, <1>3 DEF Upsert

LEMMA StutterKeeps == ASSUME IndexInv, UNCHANGED vars PROVE IndexInv'
<1>1. /\ UNCHANGED <<table, index, run, overlapped, events, queued, manual, faults>>
      /\ "dag" \in Slots
  BY DEF vars, Slots
<1>. QED
  BY <1>1, Ran DEF IndexInv, TypeOK, RunSound, Authentic, table

LEMMA IndexStep == IndexInv /\ [Next]_vars => IndexInv'
<1>. SUFFICES ASSUME IndexInv, [Next]_vars PROVE IndexInv'
  OBVIOUS
<1>1. ASSUME NEW d \in Docs, Delete(d) PROVE IndexInv'
  BY <1>1, WriteKeeps DEF Delete, IndexInv, TypeOK
<1>2. ASSUME NEW d \in Docs, NEW text \in Texts, Create(d, text) PROVE IndexInv'
  <2>1. events' \subseteq Tenants
    BY <1>2, IndexConstants DEF Create, IndexInv, TypeOK
  <2>. QED
    BY <1>2, <2>1, WriteKeeps DEF Create
<1>3. ASSUME NEW d \in Docs, NEW text \in Texts, Change(d, text) PROVE IndexInv'
  BY <1>3, WriteKeeps DEF Change, IndexInv, TypeOK
<1>4. ASSUME NEW t \in Tenants, Emit(t) PROVE IndexInv'
  BY <1>4, EmitKeeps
<1>5. ASSUME NEW t \in Tenants, NEW from \in 0 .. edits, PostIngest(t, from) PROVE IndexInv'
  BY <1>5, PostIngestKeeps
<1>6. CASE Schedule
  BY <1>6, ScheduleKeeps
<1>7. ASSUME NEW s \in Slots, Ingest(s) PROVE IndexInv'
  BY <1>7, NextTenantKeeps, ExtractKeeps, UpsertKeeps DEF Ingest
<1>8. ASSUME NEW t \in Tenants \cup {None}, StartDag(t) PROVE IndexInv'
  BY <1>8, StartDagKeeps
<1>9. CASE UNCHANGED vars
  BY <1>9, StutterKeeps
<1>. QED
  BY <1>1, <1>2, <1>3, <1>4, <1>5, <1>6, <1>7, <1>8, <1>9 DEF Next, Dag, Slots

(***************************************************************************)
(* What follows                                                            *)
(***************************************************************************)

\* The types of the model, and IndexInv with them, hold throughout.
THEOREM IndexInductive == Spec => []IndexInv
<1>. QED
  BY IndexInit, IndexStep, PTL DEF Spec

\* Rows, runs and the index keep their shapes; no run, row or point has a
\* stamp the clock has not reached.
THEOREM IndexTypeCorrect == Spec => []TypeOK
<1>1. IndexInv => TypeOK
  BY DEF IndexInv
<1>. QED
  BY <1>1, IndexInductive, PTL

\* Where one word of a present text is found, all are: chunk_text leaves no
\* word between windows, and no order of runs, changes and failures leaves
\* part of a text's chunks behind.
THEOREM TextsAreWhole == Spec => []WholeTexts
<1>1. ASSUME IndexInv PROVE WholeTexts
  <2>. SUFFICES ASSUME NEW d \in Docs, row[d] # None, TenantOf[d] \notin overlapped,
                       Findable(d, "admin") # {}
                PROVE  Answerable(d)
    BY DEF WholeTexts
  <2>1. row[d] \in Texts /\ Words[row[d]] \in Nat \ {0}
    BY <1>1, LongestIs DEF IndexInv, TypeOK
  <2>2. PICK p \in Points : /\ p[1] = d /\ index[p] # None
                            /\ index[p].text = row[d] /\ index[p].stamp = stamp[d]
    BY DEF Findable, Search
  <2>3. ASSUME NEW q \in Points, q[1] = d, q[2] \in DOMAIN Windows(Words[row[d]])
        PROVE  index[q] = [text |-> row[d], stamp |-> stamp[d]]
    BY <1>1, <2>2, <2>3 DEF IndexInv, ChunksTogether
  <2>4. ASSUME NEW j \in 1 .. Words[row[d]] PROVE j \in Findable(d, "admin")
    <3>1. PICK i \in DOMAIN Windows(Words[row[d]]) :
            j \in Windows(Words[row[d]])[i].from .. Windows(Words[row[d]])[i].to
      BY <2>1, WindowsCover
    <3>2. PICK q \in Points : q = <<d, i>>
      BY <2>1, ChunkPoint
    <3>3. /\ q[1] = d /\ q[2] = i /\ index[q] # None
          /\ index[q].text = row[d] /\ index[q].stamp = stamp[d]
      <4>1. index[q] = [text |-> row[d], stamp |-> stamp[d]]
        BY <2>3, <3>2
      <4>2. [text |-> row[d], stamp |-> stamp[d]] \in Payload
        BY <1>1, <2>1 DEF Payload, IndexInv, TypeOK
      <4>. QED
        BY <3>2, <4>1, <4>2, IndexConstants
    <3>4. q \in Search(TenantOf[d], "admin")
      BY <3>3 DEF Search
    <3>. QED
      BY <3>1, <3>3, <3>4 DEF Findable
  <2>5. ASSUME TypeOf[d] \in {"product", "category"}
        PROVE  Findable(d, "storefront") = Findable(d, "admin")
    <3>1. \A pt \in Points :
            pt[1] = d => (pt \in Search(TenantOf[d], "storefront")
                           <=> pt \in Search(TenantOf[d], "admin"))
      BY <2>5 DEF Search
    <3>2. {pt \in Search(TenantOf[d], "storefront") :
             pt[1] = d /\ index[pt].text = row[d] /\ index[pt].stamp = stamp[d]}
          = {pt \in Search(TenantOf[d], "admin") :
             pt[1] = d /\ index[pt].text = row[d] /\ index[pt].stamp = stamp[d]}
      BY <3>1 DEF Search
    <3>. QED
      BY <3>2 DEF Findable
  <2>. QED
    BY <2>4, <2>5 DEF Answerable
<1>. QED
  BY <1>1, IndexInductive, PTL

\* No step of any run stores an older text of a document over a newer one,
\* unless two runs have had its tenant at a time.
THEOREM IndexGoesForward == Spec => NeverBack
<1>1. ASSUME IndexInv, [Next]_vars, NEW pt \in Points,
             index[pt] # None, TenantOf[pt[1]] \notin overlapped'
      PROVE  index'[pt] # None /\ index'[pt].stamp >= index[pt].stamp
  <2>1. CASE UNCHANGED index
    <3>1. index[pt].stamp \in Nat
      BY <1>1, IndexConstants DEF IndexInv, TypeOK, Payload
    <3>. QED
      BY <1>1, <2>1, <3>1
  <2>2. ASSUME NEW s \in Slots, Upsert(s), index' = Stored(run[s].docs)
        PROVE  index'[pt] # None /\ index'[pt].stamp >= index[pt].stamp
    <3>1. At(s, "upsert") /\ overlapped' = overlapped
      BY <2>2 DEF Upsert
    <3>. QED
      BY <1>1, <2>2, <3>1, UpsertForward
  <2>3. UNCHANGED index \/ \E s \in Slots : Upsert(s) /\ index' = Stored(run[s].docs)
    BY <1>1 DEF Next, Delete, Create, Change, Write, Emit, PostIngest, Schedule, Dag, StartDag,
       Ingest, NextTenant, Extract, Upsert, Slots, vars
  <2>. QED
    BY <2>1, <2>2, <2>3
<1>2. IndexInv /\ [Next]_vars =>
        [\A pt \in Points :
           index[pt] # None /\ TenantOf[pt[1]] \notin overlapped' =>
             index'[pt] # None /\ index'[pt].stamp >= index[pt].stamp]_vars
  BY <1>1
<1>. QED
  BY <1>2, IndexInductive, PTL DEF Spec, NeverBack
=============================================================================
