----------------------------- MODULE ChaseSweep -----------------------------
(***************************************************************************)
(* EH-2 auto-chase: the background loop of one API process that, on every  *)
(* tick of its ticker, asks the database for unpaid pending orders about   *)
(* to expire and reminds each of their customers in turn.                  *)
(*                                                                         *)
(* The query sees one snapshot; the reminders are sent one by one after    *)
(* it, while customers pay, sellers cancel and time passes.  Time is       *)
(* counted in units (the code's hour), and orders have the three states    *)
(* the query tells apart: "pending", "left" (any other status, or          *)
(* deleted -- OrderFlow's NeverReopened says that is for good) and "none". *)
(***************************************************************************)
EXTENDS Integers, FiniteSets

CONSTANTS
  Orders,
  Life,         \* from checkout to expired_date (72 h)
  Window,       \* how long before expired_date an order is chased (24 h)
  Interval,     \* the ticker's period (MH_EH2_CHASE_INTERVAL, default 1 h)
  MaxTime,      \* bound: the clock stops here
  MaxFailures \* bound: reminders and queries that fail

ASSUME ChaseAssumption ==
  /\ Life \in Nat /\ Window \in Nat /\ MaxTime \in Nat /\ MaxFailures \in Nat
  /\ Interval \in Nat \ {0}
  /\ Interval <= Window
  /\ Window < Life

VARIABLES
  now,         \* the clock of the database and of the process
  status,      \* status[o]: "none", "pending" or "left"
  expiry,      \* orders.expired_date
  hasPayment,  \* orders with a payments row, whatever its status
  paid,        \* orders with a verified payment
  up,          \* the process is running
  due,         \* when the ticker fires next
  ticked,      \* a tick waits in the ticker's channel (of capacity 1)
  sweeping,    \* runChaseSweep is reading its rows
  todo,        \* rows of the snapshot it has not come to yet
  (* history *)
  lagged,      \* a sweep that was due did not end before the next time unit
  since,       \* when the process was started
  reminded,    \* orders whose customer was sent a reminder
  failed,      \* failed[o]: reminders to o's customer that were lost
  late         \* late[o]: reminders sent after o had left "pending" or had a payment

clock == <<now, lagged>>
orderVars == <<status, expiry, hasPayment, paid>>
loopVars  == <<up, due, ticked, sweeping, todo, since>>
sentVars  == <<reminded, failed, late>>
sweepVars == <<clock, orderVars, loopVars, sentVars>>

SweepTypeOK ==
  /\ now \in 0 .. MaxTime /\ since \in 0 .. MaxTime
  /\ status \in [Orders -> {"none", "pending", "left"}]
  /\ expiry \in [Orders -> 0 .. MaxTime + Life]
  /\ hasPayment \subseteq Orders /\ paid \subseteq hasPayment
  /\ lagged \in BOOLEAN /\ up \in BOOLEAN /\ ticked \in BOOLEAN /\ sweeping \in BOOLEAN
  /\ due \in 0 .. MaxTime + Interval
  /\ todo \subseteq Orders /\ reminded \subseteq Orders
  /\ failed \in [Orders -> 0 .. MaxFailures]
  /\ late \in [Orders -> 0 .. 2]

SweepInit ==
  /\ now = 0 /\ since = 0 /\ lagged = FALSE
  /\ status = [o \in Orders |-> "none"]
  /\ expiry = [o \in Orders |-> 0]
  /\ hasPayment = {} /\ paid = {}
  /\ up = TRUE /\ due = Interval
  /\ ticked = FALSE /\ sweeping = FALSE /\ todo = {}
  /\ reminded = {}
  /\ failed = [o \in Orders |-> 0]
  /\ late = [o \in Orders |-> 0]

-----------------------------------------------------------------------------
\* Mutant: the upper bound of the window is exclusive.
InWindowOpen(o) == now < expiry[o] /\ expiry[o] < now + Window

\* expired_date > now() AND expired_date <= now() + interval '24 hours'
InWindow(o) == now < expiry[o] /\ expiry[o] <= now + Window

\* Mutant: the status is not part of the WHERE clause.
ChaseableAnyStatus(o) ==
  status[o] # "none" /\ o \notin hasPayment /\ InWindow(o)

\* The WHERE clause of runChaseSweep and of chaseCandidates.
Chaseable(o) == status[o] = "pending" /\ o \notin hasPayment /\ InWindow(o)

\* DecideChase, the same rule in Go: expiresAt.Sub(now) <= 24h and
\* expiresAt.After(now).
DecideChase(st, expiresAt, pays, t) ==
  st = "pending" /\ ~pays /\ expiresAt <= t + Window /\ expiresAt > t

(* The customers and the sellers *)

\* repo.Create sets expired_date to three days from now.
Checkout(o) ==
  /\ status[o] = "none"
  /\ status' = [status EXCEPT ![o] = "pending"]
  /\ expiry' = [expiry EXCEPT ![o] = now + Life]
  /\ UNCHANGED <<clock, hasPayment, paid, loopVars, sentVars>>

\* A charge puts a "submitted" payment into the table before the customer pays.
Charge(o) ==
  /\ status[o] = "pending"
  /\ hasPayment' = hasPayment \cup {o}
  /\ UNCHANGED <<clock, status, expiry, paid, loopVars, sentVars>>

\* The gateway's callback: the payment is verified, the order accepted.
Paid(o) ==
  /\ status[o] # "none" /\ o \in hasPayment
  /\ paid' = paid \cup {o}
  /\ status' = [status EXCEPT ![o] = "left"]
  /\ UNCHANGED <<clock, expiry, hasPayment, loopVars, sentVars>>

\* Any other way out of "pending": a proof, a cancellation, a deletion.
Leave(o) ==
  /\ status[o] = "pending"
  /\ status' = [status EXCEPT ![o] = "left"]
  /\ UNCHANGED <<clock, expiry, hasPayment, paid, loopVars, sentVars>>

-----------------------------------------------------------------------------
(* Time and the loop *)

\* The ticker drops a tick its channel has no room for.
Tick ==
  /\ now < MaxTime
  /\ now' = now + 1
  /\ lagged' = (lagged \/ ticked \/ sweeping)
  /\ IF up /\ now' = due
     THEN ticked' = TRUE /\ due' = due + Interval
     ELSE UNCHANGED <<ticked, due>>
  /\ UNCHANGED <<up, sweeping, todo, since, orderVars, sentVars>>

\* Mutant: the tick is not taken out of the channel.
SweepQueryPeeks ==
  /\ up /\ ticked /\ ~sweeping
  /\ sweeping' = TRUE
  /\ todo' = {o \in Orders : Chaseable(o)}
  /\ UNCHANGED <<clock, up, due, ticked, since, orderVars, sentVars>>

\* The loop takes the tick and runs the query.
SweepQuery ==
  /\ up /\ ticked /\ ~sweeping
  /\ ticked' = FALSE
  /\ sweeping' = TRUE
  /\ todo' = {o \in Orders : Chaseable(o)}
  /\ UNCHANGED <<clock, up, due, since, orderVars, sentVars>>

\* The query fails: the sweep is over, every candidate has lost a reminder.
SweepFails ==
  /\ up /\ ticked /\ ~sweeping
  /\ \A o \in Orders : failed[o] < MaxFailures
  /\ ticked' = FALSE
  /\ failed' = [o \in Orders |-> failed[o] + 1]
  /\ UNCHANGED <<clock, up, due, sweeping, todo, since, orderVars, reminded, late>>

\* The next row: its customer is sent a reminder, whatever has become of the
\* order since the query.
Remind(o) ==
  /\ up /\ sweeping /\ o \in todo
  /\ todo' = todo \ {o}
  /\ reminded' = reminded \cup {o}
  /\ late' = IF status[o] = "left" \/ o \in hasPayment
             THEN [late EXCEPT ![o] = IF @ < 2 THEN @ + 1 ELSE @]
             ELSE late
  /\ UNCHANGED <<clock, up, due, ticked, sweeping, since, orderVars, failed>>

\* Notify or Scan fails; the error is dropped and the sweep goes on.
RemindFails(o) ==
  /\ up /\ sweeping /\ o \in todo
  /\ failed[o] < MaxFailures
  /\ todo' = todo \ {o}
  /\ failed' = [failed EXCEPT ![o] = @ + 1]
  /\ UNCHANGED <<clock, up, due, ticked, sweeping, since, orderVars, reminded, late>>

SweepEnds ==
  /\ up /\ sweeping /\ todo = {}
  /\ sweeping' = FALSE
  /\ UNCHANGED <<clock, up, due, ticked, todo, since, orderVars, sentVars>>

\* The process dies, in the middle of a sweep or between two.
Stop ==
  /\ up
  /\ up' = FALSE /\ ticked' = FALSE /\ sweeping' = FALSE /\ todo' = {}
  /\ UNCHANGED <<clock, due, since, orderVars, sentVars>>

\* StartBackground: a new ticker; nothing is swept before its first tick.
Boot ==
  /\ ~up
  /\ up' = TRUE /\ since' = now /\ due' = now + Interval
  /\ UNCHANGED <<clock, ticked, sweeping, todo, orderVars, sentVars>>

SweepNext ==
  \/ \E o \in Orders : Checkout(o) \/ Charge(o) \/ Paid(o) \/ Leave(o)
  \/ Tick \/ SweepQuery \/ SweepFails \/ SweepEnds \/ Stop \/ Boot
  \/ \E o \in Orders : Remind(o) \/ RemindFails(o)

\* The loop's goroutine is scheduled and its calls return.
SweepSpec == /\ SweepInit /\ [][SweepNext]_sweepVars
             /\ WF_sweepVars(SweepQuery) /\ WF_sweepVars(SweepEnds)
             /\ \A o \in Orders : WF_sweepVars(Remind(o))

-----------------------------------------------------------------------------
(* Properties *)

\* The process was started before the window of order o opened, it runs, and
\* its sweeps have all ended before the next time unit.
Attended(o) == up /\ since + Window < expiry[o] /\ ~lagged

\* An order that is still pending and without any payment when it expires was
\* reminded before, if the process ran through its window on time and fewer reminders
\* failed than there are ticks in a window: later sweeps make up for lost ones.
TimelyReminder ==
  \A o \in Orders :
     /\ status[o] = "pending" /\ o \notin hasPayment
     /\ now >= expiry[o]
     /\ Attended(o)
     /\ failed[o] < Window \div Interval
     => o \in reminded

\* The SQL of the sweep and the Go of DecideChase are one rule.
DecideAgrees ==
  \A o \in Orders :
     Chaseable(o) <=> DecideChase(status[o], expiry[o], o \in hasPayment, now)

\* An order that has left "pending" or has a payment is reminded at most once
\* more, by the sweep whose query was before that.
RemindersStop == \A o \in Orders : late[o] <= 1

\* Its inductive form: who was reminded late is in no sweep's snapshot again.
LateIsOver ==
  \A o \in Orders :
    late[o] # 0 => /\ late[o] = 1
                   /\ o \notin todo
                   /\ status[o] = "left" \/ (o \in hasPayment /\ status[o] # "none")

\* What TimelyReminder rests on: where the loop is between two ticks ...
LastTick == due - Interval

ClockSound ==
  /\ up => since <= LastTick /\ LastTick <= now /\ now < due
  /\ ~up => ~ticked /\ ~sweeping
  /\ ~sweeping => todo = {}
  /\ ~lagged /\ (ticked \/ sweeping) => now = LastTick

\* ... and that an order not reminded yet has lost a reminder, or is about to
\* be sent one, for every tick since its window opened.
Outstanding(o) == IF ticked \/ o \in todo THEN 1 ELSE 0

WindowCovered ==
  \A o \in Orders :
     /\ status[o] = "pending" /\ o \notin hasPayment /\ o \notin reminded
     /\ Attended(o)
     /\ expiry[o] <= LastTick + Window
     => IF LastTick < expiry[o]
        THEN (failed[o] + Outstanding(o)) * Interval > LastTick + Window - expiry[o]
        ELSE failed[o] * Interval > Window - Interval

ChaseInv ==
  /\ SweepTypeOK
  /\ LateIsOver /\ \A o \in todo : status[o] # "none"
  /\ ClockSound
  /\ WindowCovered

\* A sweep ends, and never keeps a tick from being served, unless the process
\* dies.
SweepsServed == (ticked ~> ~ticked) /\ (sweeping ~> ~sweeping)
=============================================================================
