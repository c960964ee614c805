----------------------------- MODULE ServerTime -----------------------------
(***************************************************************************)
(* ServerTimeManager: the app asks a public time service how far the       *)
(* device clock is from real time, and keeps the difference in             *)
(* timeDifference.  The daily question quota trusts only that difference.  *)
(*                                                                         *)
(* Everything here runs on the main queue, so every handler is one step.   *)
(* What makes it hard is that a failed request schedules its own retry     *)
(* (asyncAfter), that becoming active starts a request too, and that a     *)
(* request which finds another one in flight is silently dropped.          *)
(***************************************************************************)
EXTENDS Integers

CONSTANTS
  Offsets,          \* device clock minus real time: the values it can take
  NoDifference,     \* timeDifference before the first answer (nil)
  QuickRetries,     \* failures in a row retried after 3 s; later ones after 60 s
  MaxActivations    \* bound: how often the app becomes active

ASSUME OffsetsAssumption == Offsets # {} /\ NoDifference \notin Offsets
ASSUME QuickRetriesAssumption == QuickRetries \in Nat
ASSUME MaxActivationsAssumption == MaxActivations \in Nat

VARIABLES
  clock,                \* the device clock's offset now (the user may set it)
  timeDifference,       \* the offset the app believes in, or NoDifference
  isLoading,            \* a request is in flight
  failedRequestsCount,  \* failures in a row, saturated just past QuickRetries
  shortTimers,          \* retries waiting on a 3 s timer
  longTimers,           \* retries waiting on a 60 s timer
  activations,          \* how often handleActivePhase ran
  active,               \* the scene is in the foreground
  refreshed             \* handleActivePhase ran since the clock was last set

timeVars == <<clock, timeDifference, isLoading, failedRequestsCount, shortTimers,
              longTimers, activations, active, refreshed>>

timers == <<shortTimers, longTimers>>
scene == <<clock, activations, active, refreshed>>

TimeTypeOK ==
  /\ clock \in Offsets
  /\ timeDifference \in Offsets \cup {NoDifference}
  /\ isLoading \in BOOLEAN
  /\ failedRequestsCount \in 0 .. QuickRetries + 1
  /\ shortTimers \in Nat
  /\ longTimers \in Nat
  /\ activations \in 0 .. MaxActivations
  /\ active \in BOOLEAN
  /\ refreshed \in BOOLEAN

TimeInit ==
  /\ clock \in Offsets
  /\ timeDifference = NoDifference
  /\ isLoading = FALSE
  /\ failedRequestsCount = 0
  /\ shortTimers = 0
  /\ longTimers = 0
  /\ activations = 0
  /\ active = FALSE
  /\ refreshed = FALSE

-----------------------------------------------------------------------------
(* Mutant: the guard turned round, so that only a request in flight lets   *)
(* another one start.                                                      *)
RequestTimestampGuardInverted == isLoading' = isLoading

(* _requestTimestamp: dropped without a trace when one is in flight.       *)
RequestTimestamp == isLoading' = TRUE

(* The scene becomes active (or ContentView appears): updateServerTime     *)
(* forgets earlier failures and asks for the time.                         *)
BecomeActive ==
  /\ activations < MaxActivations
  /\ active' = TRUE
  /\ activations' = activations + 1
  /\ refreshed' = TRUE
  /\ failedRequestsCount' = 0
  /\ RequestTimestamp
  /\ UNCHANGED <<clock, timeDifference, timers>>

ResignActive ==
  /\ active
  /\ active' = FALSE
  /\ UNCHANGED <<clock, timeDifference, isLoading, failedRequestsCount, timers,
                 activations, refreshed>>

(* The device clock is set in the system settings, outside the app.        *)
SetClock(o) ==
  /\ ~active
  /\ o # clock
  /\ clock' = o
  /\ refreshed' = FALSE
  /\ UNCHANGED <<timeDifference, isLoading, failedRequestsCount, timers,
                 activations, active>>

(* An answer with a timestamp: the difference is taken when it is handled. *)
TimestampArrives ==
  /\ isLoading
  /\ isLoading' = FALSE
  /\ failedRequestsCount' = 0
  /\ timeDifference' = clock
  /\ UNCHANGED <<timers, scene>>

(* Mutants of TimestampFails.  The first gives up after the quick retries, *)
(* the second forgets to clear isLoading.                                  *)
TimestampFailsGivesUp ==
  /\ isLoading
  /\ isLoading' = FALSE
  /\ IF failedRequestsCount < QuickRetries
     THEN /\ failedRequestsCount' = failedRequestsCount + 1
          /\ shortTimers' = shortTimers + 1
     ELSE UNCHANGED <<failedRequestsCount, shortTimers>>
  /\ UNCHANGED <<timeDifference, longTimers, scene>>

TimestampFailsKeepsLoading ==
  /\ isLoading
  /\ failedRequestsCount <= QuickRetries
  /\ failedRequestsCount' = failedRequestsCount + 1
  /\ shortTimers' = shortTimers + 1
  /\ UNCHANGED <<timeDifference, isLoading, longTimers, scene>>

(* No data, no JSON or no unixtime in it: try again, soon or later.        *)
TimestampFails ==
  LET failures == IF failedRequestsCount > QuickRetries
                  THEN failedRequestsCount ELSE failedRequestsCount + 1
  IN
  /\ isLoading
  /\ isLoading' = FALSE
  /\ failedRequestsCount' = failures
  /\ IF failures <= QuickRetries
     THEN shortTimers' = shortTimers + 1 /\ UNCHANGED longTimers
     ELSE longTimers' = longTimers + 1 /\ UNCHANGED shortTimers
  /\ UNCHANGED <<timeDifference, scene>>

(* A retry timer fires; its request is dropped if one is in flight.        *)
RetryTimerFires ==
  /\ \/ shortTimers > 0 /\ shortTimers' = shortTimers - 1 /\ UNCHANGED longTimers
     \/ longTimers > 0 /\ longTimers' = longTimers - 1 /\ UNCHANGED shortTimers
  /\ RequestTimestamp
  /\ UNCHANGED <<timeDifference, failedRequestsCount, scene>>

TimeNext ==
  \/ BecomeActive
  \/ ResignActive
  \/ \E o \in Offsets : SetClock(o)
  \/ TimestampArrives
  \/ TimestampFails
  \/ RetryTimerFires

TimeSpec == TimeInit /\ [][TimeNext]_timeVars

(* URLSession ends every request (60 s timeout), a main-queue timer fires  *)
(* in the end, and the network is not down for ever: requests that keep    *)
(* being sent keep having the chance of an answer.                         *)
TimeFairness ==
  /\ WF_timeVars(RetryTimerFires)
  /\ WF_timeVars(TimestampArrives \/ TimestampFails)
  /\ SF_timeVars(TimestampArrives)

TimeFairSpec == TimeSpec /\ TimeFairness

-----------------------------------------------------------------------------
(* Once the app has been active since the clock was last set, a wrong or   *)
(* missing timeDifference is always being worked on: a request is in       *)
(* flight or a retry is scheduled.  ServerTimeManager drops requests and   *)
(* has no other timer, so one lost retry would leave the quota's day wrong *)
(* until the next activation.                                              *)
RetryNeverLost ==
  refreshed /\ timeDifference # clock => isLoading \/ shortTimers + longTimers > 0

(* Retry chains do not breed: every activation adds at most one chain      *)
(* (request in flight or pending timer), however the failures, the timers  *)
(* and the activations interleave.                                         *)
Chains == shortTimers + longTimers + (IF isLoading THEN 1 ELSE 0)
OneChainPerActivation == Chains <= activations

(* The app eventually believes in the right clock offset after it was      *)
(* opened with a changed clock, unless the clock is set once more.         *)
EventuallySynchronised ==
  refreshed /\ timeDifference # clock ~> timeDifference = clock \/ ~refreshed
=============================================================================
