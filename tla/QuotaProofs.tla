----------------------------- MODULE QuotaProofs -----------------------------
(***************************************************************************)
(* The question counter for any package, any length of a month, any number *)
(* of days and any number of failed writes and deaths inside a handler.    *)
(***************************************************************************)
EXTENDS Quota, TLAPS

(* A reset is under way; the day the app takes it to be meanwhile.         *)
Resetting == newStamp # Nothing
Now == IF Resetting THEN newStamp ELSE today

(* The handler has still to write the keychain's stamp, the counter in     *)
(* memory, the keychain's counter.                                         *)
StampPending == pc \in {"deleteStamp", "addStamp"}
MemoryPending == pc \in {"deleteStamp", "addStamp", "storeStamp", "setMemory"}
KeychainPending == MemoryPending \/ pc \in {"deleteCount", "addCount"}

(* The counters: in memory when the handler is through with it, and in the *)
(* two copies; what the faults so far may have lost.                       *)
Memory == IF MemoryPending THEN newCount ELSE accessQuestionsCount
Keychain == IF count["keychain"] = Nothing THEN 0 ELSE count["keychain"]
Defaults == count["defaults"]
Lost == FreeRequests * faults

InFlight(d) == IF asking = "timed" /\ askedOn = d THEN 1 ELSE 0
AskedNow == timed[Now] > 0 \/ InFlight(Now) = 1

(* What the running handler works with.                                    *)
HandlerInv ==
  /\ pc # "idle" => running
  /\ newCount <= FreeRequests
  /\ pc \in {"idle", "read"} => newCount = 0
  /\ Resetting => newCount = 0 /\ newStamp <= today /\ pc # "idle"
  /\ pc \in {"deleteStamp", "addStamp", "storeStamp", "read"} => Resetting
  /\ pc \in {"deleteCount", "addCount", "storeCount"} => accessQuestionsCount = newCount

(* No copy of the counter exceeds the package, and a question in flight    *)
(* has a place in it.                                                      *)
CounterInv ==
  /\ accessQuestionsCount <= FreeRequests
  /\ Keychain <= FreeRequests /\ Defaults <= FreeRequests
  /\ asking # "none" => running /\ accessQuestionsCount < FreeRequests
                        /\ (Resetting \/ pc = "idle")

(* No stamp is from the future, and only a fault leaves the keychain       *)
(* without the stamp of a reset.                                           *)
StampInv ==
  /\ \A c \in Copies : stamp[c] # Nothing => stamp[c] <= today
  /\ Resetting /\ ~StampPending /\ stamp["keychain"] # newStamp => faults >= 1
  /\ ~Resetting /\ stamp["keychain"] = Nothing /\ stamp["defaults"] # Nothing => faults >= 1

(* Nothing is asked or answered on the days to come.                       *)
FutureInv ==
  /\ askedOn <= Now
  /\ \A d \in Days : d > Now => answers[d] = 0 /\ timed[d] = 0

(* The keychain's stamp is not of this day: deleting the app can have the  *)
(* counter reset once more.                                                *)
Open == ~StampPending /\ DayOfMonth(stamp["keychain"]) # DayOfMonth(Now)
Reserve == IF Open THEN FreeRequests ELSE 0

(* The counter counts what was asked today with the time known, but for    *)
(* what the faults lost; a package of that is set aside while the stamp is *)
(* not of today.                                                           *)
TimedInv ==
  /\ running /\ AskedNow => timed[Now] + Reserve <= Lost + Memory
  /\ ~KeychainPending /\ AskedNow => timed[Now] + Reserve <= Lost + Keychain
  /\ \A d \in Days : timed[d] + InFlight(d) <= FreeRequests + Lost

(* The next reading with the time known resets the counter.                *)
Due == DayOfMonth(ResetStamp) # DayOfMonth(today)

(* As long as the app has not been reinstalled a fault loses one question. *)
OneEach ==
  /\ ~Resetting /\ AskedNow /\ Due => timed[Now] + InFlight(Now) <= faults
  /\ Resetting => timed[Now] + InFlight(Now) <= faults
  /\ Resetting /\ ~StampPending /\ stamp["keychain"] # newStamp => timed[Now] + 1 <= faults
  /\ running => timed[Now] <= faults + Memory
  /\ timed[Now] <= faults + Defaults + (IF pc # "idle" /\ ~Resetting THEN 1 ELSE 0)
  /\ \A d \in Days : timed[d] + InFlight(d) <= FreeRequests + faults

(* The counter counts today's answers, but for those before the reset of   *)
(* the day, at most a package, and for what the faults lost.               *)
BeforeReset == IF stamp["keychain"] = today THEN FreeRequests ELSE 0
BeforeResetNow == IF StampPending THEN FreeRequests ELSE BeforeReset
AnswersInv ==
  /\ running => answers[today] <= Lost + BeforeResetNow + Memory
  /\ ~KeychainPending => answers[today] <= Lost + BeforeReset + Keychain
  /\ \A d \in Days : answers[d] <= FreeRequests + FreeRequests + Lost

(* After the reset of the day every copy that is written counts today's    *)
(* answers only.                                                           *)
TodayInv ==
  faults = 0 /\ stamp["keychain"] = today =>
    /\ newCount <= answers[today]
    /\ running /\ ~MemoryPending => accessQuestionsCount <= answers[today]
    /\ ~KeychainPending => Keychain <= answers[today]
    /\ pc \in {"idle", "read"} => Defaults <= answers[today]

Counters ==
  /\ HandlerInv
  /\ CounterInv
  /\ StampInv
  /\ FutureInv
  /\ TimedInv
  /\ reinstalled \/ OneEach
  /\ AnswersInv
  /\ TodayInv
QuotaInv == TypeOK /\ Counters

USE QuotaAssumption DEF Days, Copies

-----------------------------------------------------------------------------
(* A multiple of m in 0 .. m - 1 is zero.                                  *)
LEMMA SmallMultiple ==
  ASSUME NEW m \in Nat \ {0}, NEW k \in Int, k * m < m, 0 <= k * m
  PROVE  k = 0
<1>1. k >= 1 => k * m >= m
  <2>1. k >= 1 => (k - 1) * m >= 0
    OBVIOUS
  <2>2. (k - 1) * m = k * m - m
    OBVIOUS
  <2> QED
    BY <2>1, <2>2
<1>2. k <= -1 => k * m <= -m
  OBVIOUS
<1> QED
  BY <1>1, <1>2

(* Two days less than a month apart with the same day of the month are one *)
(* day.                                                                    *)
LEMMA SameDay ==
  ASSUME NEW m \in Nat \ {0}, NEW a \in Nat, NEW b \in Nat, b <= a, a - b < m, a % m = b % m
  PROVE  a = b
<1>1. a = m * (a \div m) + (a % m) /\ (a \div m) \in Int
  OBVIOUS
<1>2. b = m * (b \div m) + (b % m) /\ (b \div m) \in Int
  OBVIOUS
<1>3. (a % m) \in Int
  OBVIOUS
<1>4. a - b = ((a \div m) - (b \div m)) * m
  BY <1>1, <1>2, <1>3
<1>5. (a \div m) - (b \div m) = 0
  BY <1>1, <1>2, <1>4, SmallMultiple
<1> QED
  BY <1>4, <1>5

(* _getStoredAccessQuestionsCount returns one of the copies, the larger.   *)
LEMMA MaxOfTwo ==
  ASSUME NEW a \in Nat, NEW b \in Nat
  PROVE  Max({a, b}) \in {a, b} /\ a <= Max({a, b}) /\ b <= Max({a, b})
<1>1. \E x \in {a, b} : \A y \in {a, b} : x >= y
  OBVIOUS
<1>2. Max({a, b}) \in {a, b} /\ \A y \in {a, b} : Max({a, b}) >= y
  BY <1>1 DEF Max
<1> QED
  BY <1>2

(* What the steps need of the types.                                       *)
Typed ==
  /\ today \in Nat /\ today \in Days /\ running \in BOOLEAN /\ timeKnown \in BOOLEAN
  /\ accessQuestionsCount \in Nat /\ Keychain \in Nat /\ Defaults \in Nat /\ Memory \in Nat
  /\ stamp["keychain"] \in Nat \cup {Nothing} /\ stamp["defaults"] \in Nat \cup {Nothing}
  /\ pc \in Steps /\ newCount \in Nat /\ newStamp \in Nat \cup {Nothing}
  /\ Now \in Nat /\ Now \in Days
  /\ asking \in {"none", "untimed", "timed"} /\ askedOn \in Nat /\ askedOn \in Days
  /\ faults \in Nat /\ Lost \in Nat
  /\ \A d \in Days : answers[d] \in Nat /\ timed[d] \in Nat /\ InFlight(d) \in {0, 1}

(* The faults' packages.                                                   *)
LEMMA LostPackages ==
  ASSUME NEW n \in Nat, NEW k \in Nat
  PROVE  /\ n * k \in Nat
         /\ n * (k + 1) = n * k + n
         /\ n * (2 + k) = n + n + n * k
         /\ k >= 1 => n * k >= n
         /\ k = 0 => n * k = 0
<1>1. n * k \in Nat /\ n * (k + 1) = n * k + n /\ n * (2 + k) = n + n + n * k
  OBVIOUS
<1>2. k >= 1 => n * k >= n
  <2>1. k >= 1 => n * (k - 1) \in Nat
    OBVIOUS
  <2>2. n * (k - 1) = n * k - n
    OBVIOUS
  <2> QED
    BY <2>1, <2>2, <1>1
<1> QED
  BY <1>1, <1>2

(* TypeOK says so.                                                         *)
LEMMA TypedState == TypeOK => Typed
<1> SUFFICES ASSUME TypeOK PROVE Typed
  OBVIOUS
<1>1. faults \in Nat /\ Lost \in Nat
  BY LostPackages DEF TypeOK, Lost
<1>2. Keychain \in Nat /\ Defaults \in Nat
  BY DEF TypeOK, Keychain, Defaults
<1>3. Memory \in Nat /\ newCount \in Nat /\ accessQuestionsCount \in Nat
  BY DEF TypeOK, Memory
<1>4. Now \in Nat /\ Now \in Days
  BY DEF TypeOK, Now, Resetting
<1>5. \A d \in Days : InFlight(d) \in {0, 1}
  BY DEF InFlight
<1> QED
  BY <1>1, <1>2, <1>3, <1>4, <1>5 DEF TypeOK, Typed

(* What one more fault is worth.                                           *)
LEMMA LostGrows ==
  ASSUME TypeOK
  PROVE  /\ faults' = faults => Lost' = Lost
         /\ faults' = faults + 1 => Lost' = Lost + FreeRequests
         /\ faults >= 1 => Lost >= FreeRequests
         /\ FreeRequests * (2 + faults) = FreeRequests + FreeRequests + Lost
<1>1. faults \in Nat /\ FreeRequests \in Nat
  BY TypedState DEF Typed
<1> QED
  BY <1>1, LostPackages DEF Lost

(* A day without a stamp is no day of the month.                           *)
LEMMA StampedDay ==
  ASSUME NEW d \in Nat, NEW e \in Nat \cup {Nothing}, DayOfMonth(e) = DayOfMonth(d)
  PROVE  e # Nothing
<1>1. d % MonthLength \in Int
  OBVIOUS
<1> QED
  BY <1>1 DEF DayOfMonth

(* A reset that is due leaves the keychain open.                           *)
LEMMA DueIsOpen ==
  ASSUME TypeOK, Due
  PROVE  DayOfMonth(stamp["keychain"]) # DayOfMonth(today)
<1>1. CASE stamp["keychain"] # Nothing
  BY <1>1 DEF Due, ResetStamp
<1>2. CASE stamp["keychain"] = Nothing
  BY <1>2, StampedDay, TypedState DEF Typed
<1> QED
  BY <1>1, <1>2

(* A step that leaves the day and the questions alone.                     *)
LEMMA SameQuestions ==
  ASSUME Now' = Now, timed' = timed, asking' = asking, askedOn' = askedOn
  PROVE  /\ \A d \in Days : InFlight(d)' = InFlight(d)
         /\ InFlight(Now)' = InFlight(Now)
         /\ timed'[Now'] = timed[Now]
         /\ AskedNow' <=> AskedNow
  BY DEF InFlight, AskedNow

-----------------------------------------------------------------------------
(* What the steps of a handler leave alone, and what follows.              *)
Framed ==
  UNCHANGED <<today, running, timeKnown, newStamp, asking, askedOn, answers, timed, reinstalled>>

LEMMA FramedQuestions ==
  ASSUME Framed, FutureInv
  PROVE  /\ FutureInv'
         /\ (Resetting' <=> Resetting) /\ Now' = Now
         /\ \A d \in Days : InFlight(d)' = InFlight(d)
         /\ InFlight(Now)' = InFlight(Now)
         /\ timed'[Now'] = timed[Now]
         /\ (AskedNow' <=> AskedNow)
<1>1. (Resetting' <=> Resetting) /\ Now' = Now
  BY DEF Framed, Resetting, Now
<1> QED
  BY <1>1, SameQuestions DEF Framed, FutureInv

(* KeychainSwift.set deletes the stamp.                                    *)
LEMMA DeleteStampKeeps ==
  ASSUME TypeOK, Counters, DeleteStamp
  PROVE  TypeOK' /\ Counters'
<1>1. /\ pc = "deleteStamp" /\ pc' = "addStamp" /\ count' = count /\ faults' = faults
      /\ stamp'["keychain"] = Nothing /\ stamp'["defaults"] = stamp["defaults"]
      /\ newCount' = newCount /\ accessQuestionsCount' = accessQuestionsCount /\ Framed
  BY DEF DeleteStamp, history, Framed, TypeOK
<1>2. Typed
  BY TypedState
<1>3. TypeOK'
  BY <1>1 DEF DeleteStamp, history, TypeOK, Steps
<1>4. /\ Memory' = Memory /\ Keychain' = Keychain /\ Defaults' = Defaults /\ Lost' = Lost
      /\ StampPending /\ StampPending' /\ KeychainPending' /\ MemoryPending' /\ Resetting
      /\ Reserve' = Reserve /\ BeforeResetNow' = BeforeResetNow
  BY <1>1 DEF Memory, Keychain, Defaults, Lost, StampPending, KeychainPending, MemoryPending,
              Reserve, Open, BeforeResetNow, Counters, HandlerInv
<1>5. /\ FutureInv' /\ Resetting' /\ Now' = Now /\ \A d \in Days : InFlight(d)' = InFlight(d)
      /\ InFlight(Now)' = InFlight(Now) /\ timed'[Now'] = timed[Now] /\ (AskedNow' <=> AskedNow)
  BY <1>1, <1>4, FramedQuestions DEF Counters
<1>6. HandlerInv'
  BY <1>1, <1>5 DEF Counters, HandlerInv, Framed
<1>7. CounterInv'
  BY <1>1, <1>4, <1>5 DEF Counters, CounterInv, Framed
<1>8. StampInv'
  BY <1>1, <1>4, <1>5 DEF Counters, StampInv, Framed
<1>9. TimedInv'
  BY <1>1, <1>4, <1>5 DEF Counters, TimedInv, Framed
<1>10. OneEach => OneEach'
  BY <1>1, <1>4, <1>5 DEF OneEach, Framed
<1>11. AnswersInv'
  BY <1>1, <1>4, <1>5 DEF Counters, AnswersInv, Framed
<1>12. TodayInv'
  BY <1>1, <1>2 DEF TodayInv, Framed, Typed
<1> QED
  BY <1>1, <1>3, <1>5, <1>6, <1>7, <1>8, <1>9, <1>10, <1>11, <1>12 DEF Counters, Framed

(* It adds the new one.                                                    *)
LEMMA AddStampKeeps ==
  ASSUME TypeOK, Counters, AddStamp
  PROVE  TypeOK' /\ Counters'
<1>1. /\ pc = "addStamp" /\ pc' = "storeStamp" /\ count' = count /\ faults' = faults
      /\ stamp'["keychain"] = newStamp /\ stamp'["defaults"] = stamp["defaults"]
      /\ newCount' = newCount /\ accessQuestionsCount' = accessQuestionsCount /\ Framed
  BY DEF AddStamp, history, Framed, TypeOK
<1>2. Typed
  BY TypedState
<1>3. TypeOK'
  BY <1>1 DEF AddStamp, history, TypeOK, Steps
<1>4. /\ Memory' = Memory /\ Keychain' = Keychain /\ Defaults' = Defaults /\ Lost' = Lost
      /\ StampPending /\ ~StampPending' /\ KeychainPending' /\ MemoryPending' /\ Resetting
      /\ Reserve = 0 /\ BeforeResetNow = FreeRequests
  BY <1>1 DEF Memory, Keychain, Defaults, Lost, StampPending, KeychainPending, MemoryPending,
              Reserve, Open, BeforeResetNow, Counters, HandlerInv
<1>5. /\ FutureInv' /\ Resetting' /\ Now' = Now /\ \A d \in Days : InFlight(d)' = InFlight(d)
      /\ InFlight(Now)' = InFlight(Now) /\ timed'[Now'] = timed[Now] /\ (AskedNow' <=> AskedNow)
  BY <1>1, <1>4, FramedQuestions DEF Counters
<1>6. Now = newStamp /\ Reserve' = 0
  BY <1>1, <1>4, <1>5 DEF Now, Reserve, Open
<1>7. HandlerInv'
  BY <1>1, <1>5 DEF Counters, HandlerInv, Framed
<1>8. CounterInv'
  BY <1>1, <1>4, <1>5 DEF Counters, CounterInv, Framed
<1>9. StampInv'
  BY <1>1, <1>4, <1>5 DEF Counters, StampInv, HandlerInv, Framed
<1>10. TimedInv'
  BY <1>1, <1>4, <1>5, <1>6 DEF Counters, TimedInv, Framed
<1>11. OneEach => OneEach'
  BY <1>1, <1>4, <1>5 DEF OneEach, Framed
<1>12. AnswersInv'
  <2>1. answers[today] <= Lost + BeforeResetNow' + Memory
    <3>1. CASE newStamp = today
      <4>1. BeforeResetNow' = FreeRequests
        BY <1>1, <1>4, <3>1 DEF BeforeResetNow, BeforeReset, Framed
      <4>2. answers[today] <= Lost + FreeRequests + Memory
        BY <1>1, <1>4 DEF Counters, AnswersInv, HandlerInv
      <4> QED
        BY <4>1, <4>2
    <3>2. CASE newStamp # today
      <4>1. answers[today] = 0
        BY <1>2, <1>4, <1>6, <3>2 DEF Counters, FutureInv, HandlerInv, Typed
      <4>2. BeforeResetNow' \in {0, FreeRequests}
        BY DEF BeforeResetNow, BeforeReset
      <4>3. Lost \in Nat /\ Memory \in Nat /\ answers[today] \in Nat
        BY <1>2 DEF Typed
      <4>4. CASE BeforeResetNow' = 0
        BY <4>1, <4>3, <4>4
      <4>5. CASE BeforeResetNow' = FreeRequests
        BY <4>1, <4>3, <4>5
      <4> QED
        BY <4>2, <4>4, <4>5
    <3> QED
      BY <3>1, <3>2
  <2> QED
    BY <1>1, <1>4, <2>1 DEF Counters, AnswersInv, Framed
<1>13. TodayInv'
  BY <1>1, <1>2, <1>4 DEF TodayInv, Framed, Typed, Counters, HandlerInv
<1> QED
  BY <1>1, <1>3, <1>5, <1>7, <1>8, <1>9, <1>10, <1>11, <1>12, <1>13 DEF Counters, Framed

(* The stamp in the defaults.                                              *)
LEMMA StoreStampKeeps ==
  ASSUME TypeOK, Counters, StoreStamp
  PROVE  TypeOK' /\ Counters'
<1>1. /\ pc = "storeStamp" /\ pc' = "setMemory" /\ count' = count /\ faults' = faults
      /\ stamp'["keychain"] = stamp["keychain"] /\ stamp'["defaults"] = newStamp
      /\ newCount' = newCount /\ accessQuestionsCount' = accessQuestionsCount /\ Framed
  BY DEF StoreStamp, history, Framed, TypeOK
<1>2. Typed
  BY TypedState
<1>3. TypeOK'
  BY <1>1 DEF StoreStamp, history, TypeOK, Steps
<1>4. /\ Memory' = Memory /\ Keychain' = Keychain /\ Defaults' = Defaults /\ Lost' = Lost
      /\ ~StampPending /\ ~StampPending' /\ KeychainPending' /\ MemoryPending' /\ Resetting
  BY <1>1 DEF Memory, Keychain, Defaults, Lost, StampPending, KeychainPending, MemoryPending,
              Counters, HandlerInv
<1>5. /\ FutureInv' /\ Resetting' /\ Now' = Now /\ \A d \in Days : InFlight(d)' = InFlight(d)
      /\ InFlight(Now)' = InFlight(Now) /\ timed'[Now'] = timed[Now] /\ (AskedNow' <=> AskedNow)
  BY <1>1, <1>4, FramedQuestions DEF Counters
<1>6. Reserve' = Reserve /\ BeforeResetNow' = BeforeResetNow
  BY <1>1, <1>4, <1>5 DEF Reserve, Open, BeforeReset, BeforeResetNow, Framed
<1>7. HandlerInv'
  BY <1>1, <1>5 DEF Counters, HandlerInv, Framed
<1>8. CounterInv'
  BY <1>1, <1>4, <1>5 DEF Counters, CounterInv, Framed
<1>9. StampInv'
  BY <1>1, <1>4, <1>5 DEF Counters, StampInv, HandlerInv, Framed
<1>10. TimedInv'
  BY <1>1, <1>4, <1>5, <1>6 DEF Counters, TimedInv, Framed
<1>11. OneEach => OneEach'
  BY <1>1, <1>4, <1>5 DEF OneEach, Framed
<1>12. AnswersInv'
  BY <1>1, <1>4, <1>6 DEF Counters, AnswersInv, Framed
<1>13. TodayInv'
  BY <1>1, <1>2, <1>4 DEF TodayInv, Framed, Typed, Counters, HandlerInv
<1> QED
  BY <1>1, <1>3, <1>5, <1>7, <1>8, <1>9, <1>10, <1>11, <1>12, <1>13 DEF Counters, Framed

(* The counter in memory.                                                  *)
LEMMA SetMemoryKeeps ==
  ASSUME TypeOK, Counters, SetMemory
  PROVE  TypeOK' /\ Counters'
<1>1. /\ pc = "setMemory" /\ pc' = "deleteCount" /\ count' = count /\ faults' = faults
      /\ stamp' = stamp /\ newCount' = newCount /\ accessQuestionsCount' = newCount /\ Framed
  BY DEF SetMemory, history, stored, Framed
<1>2. Typed
  BY TypedState
<1>3. TypeOK'
  BY <1>1 DEF SetMemory, stored, history, TypeOK, Steps
<1>4. /\ Memory' = Memory /\ Keychain' = Keychain /\ Defaults' = Defaults /\ Lost' = Lost
      /\ ~StampPending /\ ~StampPending' /\ KeychainPending' /\ ~MemoryPending'
  BY <1>1 DEF Memory, Keychain, Defaults, Lost, StampPending, KeychainPending, MemoryPending
<1>5. /\ FutureInv' /\ (Resetting' <=> Resetting) /\ Now' = Now
      /\ \A d \in Days : InFlight(d)' = InFlight(d)
      /\ InFlight(Now)' = InFlight(Now) /\ timed'[Now'] = timed[Now] /\ (AskedNow' <=> AskedNow)
  BY <1>1, FramedQuestions DEF Counters
<1>6. Reserve' = Reserve /\ BeforeResetNow' = BeforeResetNow /\ (Due' <=> Due)
  BY <1>1, <1>4, <1>5 DEF Reserve, Open, BeforeReset, BeforeResetNow, Due, ResetStamp,
                          Framed
<1>7. HandlerInv'
  BY <1>1, <1>5 DEF Counters, HandlerInv, Framed
<1>8. CounterInv'
  BY <1>1, <1>2, <1>4, <1>5 DEF Counters, CounterInv, HandlerInv, Framed, Typed
<1>9. StampInv'
  BY <1>1, <1>4, <1>5 DEF Counters, StampInv, Framed
<1>10. TimedInv'
  BY <1>1, <1>4, <1>5, <1>6 DEF Counters, TimedInv, Framed
<1>11. OneEach => OneEach'
  BY <1>1, <1>4, <1>5, <1>6 DEF OneEach, Framed
<1>12. AnswersInv'
  BY <1>1, <1>4, <1>6 DEF Counters, AnswersInv, Framed
<1>13. TodayInv'
  BY <1>1, <1>4 DEF TodayInv, Framed, Counters
<1> QED
  BY <1>1, <1>3, <1>5, <1>7, <1>8, <1>9, <1>10, <1>11, <1>12, <1>13 DEF Counters, Framed

(* The keychain's counter is deleted.                                      *)
LEMMA DeleteCountKeeps ==
  ASSUME TypeOK, Counters, DeleteCount
  PROVE  TypeOK' /\ Counters'
<1>1. /\ pc = "deleteCount" /\ pc' = "addCount" /\ faults' = faults
      /\ count'["keychain"] = Nothing /\ count'["defaults"] = count["defaults"]
      /\ stamp' = stamp /\ newCount' = newCount
      /\ accessQuestionsCount' = accessQuestionsCount /\ Framed
  BY DEF DeleteCount, history, Framed, TypeOK
<1>2. Typed
  BY TypedState
<1>3. TypeOK'
  BY <1>1 DEF DeleteCount, history, TypeOK, Steps
<1>4. /\ Memory' = Memory /\ Keychain' = 0 /\ Defaults' = Defaults /\ Lost' = Lost
      /\ ~StampPending /\ ~StampPending' /\ KeychainPending' /\ ~MemoryPending /\ ~MemoryPending'
  BY <1>1 DEF Memory, Keychain, Defaults, Lost, StampPending, KeychainPending, MemoryPending
<1>5. /\ FutureInv' /\ (Resetting' <=> Resetting) /\ Now' = Now
      /\ \A d \in Days : InFlight(d)' = InFlight(d)
      /\ InFlight(Now)' = InFlight(Now) /\ timed'[Now'] = timed[Now] /\ (AskedNow' <=> AskedNow)
  BY <1>1, FramedQuestions DEF Counters
<1>6. Reserve' = Reserve /\ BeforeResetNow' = BeforeResetNow /\ (Due' <=> Due)
  BY <1>1, <1>4, <1>5 DEF Reserve, Open, BeforeReset, BeforeResetNow, Due, ResetStamp,
                          Framed
<1>7. HandlerInv'
  BY <1>1, <1>5 DEF Counters, HandlerInv, Framed
<1>8. CounterInv'
  BY <1>1, <1>4, <1>5 DEF Counters, CounterInv, Framed
<1>9. StampInv'
  BY <1>1, <1>4, <1>5 DEF Counters, StampInv, Framed
<1>10. TimedInv'
  BY <1>1, <1>4, <1>5, <1>6 DEF Counters, TimedInv, Framed
<1>11. OneEach => OneEach'
  BY <1>1, <1>4, <1>5, <1>6 DEF OneEach, Framed
<1>12. AnswersInv'
  BY <1>1, <1>4, <1>6 DEF Counters, AnswersInv, Framed
<1>13. TodayInv'
  BY <1>1, <1>4 DEF TodayInv, Framed, Counters
<1> QED
  BY <1>1, <1>3, <1>5, <1>7, <1>8, <1>9, <1>10, <1>11, <1>12, <1>13 DEF Counters, Framed

(* And added: the keychain is up with memory again.                        *)
LEMMA AddCountKeeps ==
  ASSUME TypeOK, Counters, AddCount
  PROVE  TypeOK' /\ Counters'
<1>1. /\ pc = "addCount" /\ pc' = "storeCount" /\ faults' = faults
      /\ count'["keychain"] = newCount /\ count'["defaults"] = count["defaults"]
      /\ stamp' = stamp /\ newCount' = newCount
      /\ accessQuestionsCount' = accessQuestionsCount /\ Framed
  BY DEF AddCount, history, Framed, TypeOK
<1>2. Typed
  BY TypedState
<1>3. TypeOK'
  BY <1>1 DEF AddCount, history, TypeOK, Steps
<1>4. /\ Memory' = Memory /\ Keychain' = newCount /\ Defaults' = Defaults /\ Lost' = Lost
      /\ ~StampPending /\ ~StampPending' /\ ~KeychainPending' /\ ~MemoryPending
      /\ ~MemoryPending' /\ Memory = newCount /\ running
  BY <1>1, <1>2 DEF Memory, Keychain, Defaults, Lost, StampPending, KeychainPending, MemoryPending,
                    Counters, HandlerInv, Typed
<1>5. /\ FutureInv' /\ (Resetting' <=> Resetting) /\ Now' = Now
      /\ \A d \in Days : InFlight(d)' = InFlight(d)
      /\ InFlight(Now)' = InFlight(Now) /\ timed'[Now'] = timed[Now] /\ (AskedNow' <=> AskedNow)
  BY <1>1, FramedQuestions DEF Counters
<1>6. /\ Reserve' = Reserve /\ BeforeResetNow' = BeforeResetNow /\ (Due' <=> Due)
      /\ BeforeReset' = BeforeResetNow
  BY <1>1, <1>4, <1>5 DEF Reserve, Open, BeforeReset, BeforeResetNow, Due, ResetStamp,
                          Framed
<1>7. HandlerInv'
  BY <1>1, <1>5 DEF Counters, HandlerInv, Framed
<1>8. CounterInv'
  BY <1>1, <1>4, <1>5 DEF Counters, CounterInv, HandlerInv, Framed
<1>9. StampInv'
  BY <1>1, <1>4, <1>5 DEF Counters, StampInv, Framed
<1>10. TimedInv'
  BY <1>1, <1>4, <1>5, <1>6 DEF Counters, TimedInv, Framed
<1>11. OneEach => OneEach'
  BY <1>1, <1>4, <1>5, <1>6 DEF OneEach, Framed
<1>12. AnswersInv'
  BY <1>1, <1>4, <1>6 DEF Counters, AnswersInv, Framed
<1>13. TodayInv'
  BY <1>1, <1>4 DEF TodayInv, Framed, Counters
<1> QED
  BY <1>1, <1>3, <1>5, <1>7, <1>8, <1>9, <1>10, <1>11, <1>12, <1>13 DEF Counters, Framed

(* The counter in the defaults.                                            *)
LEMMA StoreCountKeeps ==
  ASSUME TypeOK, Counters, StoreCount
  PROVE  TypeOK' /\ Counters'
<1>1. /\ pc = "storeCount" /\ pc' \in {"idle", "read"} /\ (pc' = "read" <=> Resetting)
      /\ faults' = faults
      /\ count'["keychain"] = count["keychain"] /\ count'["defaults"] = newCount
      /\ stamp' = stamp /\ newCount' = 0
      /\ accessQuestionsCount' = accessQuestionsCount /\ Framed
  BY DEF StoreCount, history, Framed, TypeOK, Resetting
<1>2. Typed
  BY TypedState
<1>3. TypeOK'
  BY <1>1 DEF StoreCount, history, TypeOK, Steps
<1>4. /\ Memory' = Memory /\ Keychain' = Keychain /\ Defaults' = newCount /\ Lost' = Lost
      /\ ~StampPending /\ ~StampPending' /\ ~KeychainPending' /\ ~KeychainPending
      /\ ~MemoryPending /\ ~MemoryPending' /\ Memory = newCount /\ running
      /\ accessQuestionsCount = newCount
  BY <1>1, <1>2 DEF Memory, Keychain, Defaults, Lost, StampPending, KeychainPending, MemoryPending,
                    Counters, HandlerInv, Typed
<1>5. /\ FutureInv' /\ (Resetting' <=> Resetting) /\ Now' = Now
      /\ \A d \in Days : InFlight(d)' = InFlight(d)
      /\ InFlight(Now)' = InFlight(Now) /\ timed'[Now'] = timed[Now] /\ (AskedNow' <=> AskedNow)
  BY <1>1, FramedQuestions DEF Counters
<1>6. /\ Reserve' = Reserve /\ BeforeResetNow' = BeforeResetNow /\ (Due' <=> Due)
      /\ BeforeReset' = BeforeReset
  BY <1>1, <1>4, <1>5 DEF Reserve, Open, BeforeReset, BeforeResetNow, Due, ResetStamp,
                          Framed
<1>7. HandlerInv'
  BY <1>1, <1>4, <1>5 DEF Counters, HandlerInv, Framed
<1>8. CounterInv'
  BY <1>1, <1>4, <1>5 DEF Counters, CounterInv, HandlerInv, Framed
<1>9. StampInv'
  BY <1>1, <1>4, <1>5 DEF Counters, StampInv, Framed
<1>10. TimedInv'
  BY <1>1, <1>4, <1>5, <1>6 DEF Counters, TimedInv, Framed
<1>11. OneEach => OneEach'
  <2> SUFFICES ASSUME OneEach PROVE OneEach'
    OBVIOUS
  <2>1. timed[Now] <= faults + newCount
    BY <1>4 DEF OneEach
  <2>2. timed'[Now'] <= faults' + Defaults' + (IF pc' # "idle" /\ ~Resetting' THEN 1 ELSE 0)
    BY <1>1, <1>2, <1>4, <1>5, <2>1 DEF Typed
  <2> QED
    BY <1>1, <1>4, <1>5, <1>6, <2>2 DEF OneEach, Framed
<1>12. AnswersInv'
  BY <1>1, <1>4, <1>6 DEF Counters, AnswersInv, Framed
<1>13. TodayInv'
  BY <1>1, <1>2, <1>4 DEF TodayInv, Framed, Counters, Typed
<1> QED
  BY <1>1, <1>3, <1>5, <1>7, <1>8, <1>9, <1>10, <1>11, <1>12, <1>13 DEF Counters, Framed

(* A write to the keychain fails: that is a package lost, which makes good *)
(* for a stamp that is not there and for a counter that is too small.      *)
LEMMA SetFailsKeeps ==
  ASSUME TypeOK, Counters, SetFails
  PROVE  TypeOK' /\ Counters'
<1>1. /\ \/ pc \in {"deleteStamp", "addStamp"} /\ pc' = "storeStamp"
         \/ pc \in {"deleteCount", "addCount"} /\ pc' = "storeCount"
      /\ faults < MaxFaults /\ faults' = faults + 1 /\ count' = count /\ stamp' = stamp
      /\ newCount' = newCount /\ accessQuestionsCount' = accessQuestionsCount /\ Framed
  BY DEF SetFails, stored, Framed
<1>2. Typed
  BY TypedState
<1>3. TypeOK'
  BY <1>1, <1>2 DEF SetFails, stored, TypeOK, Typed, Steps
<1>4. /\ Memory' = Memory /\ Keychain' = Keychain /\ Defaults' = Defaults
      /\ Lost' = Lost + FreeRequests /\ ~StampPending' /\ Memory <= FreeRequests /\ running
      /\ StampPending => Resetting
  <2>1. Lost' = Lost + FreeRequests
    BY <1>1, LostGrows
  <2> QED
    BY <1>1, <2>1 DEF Memory, Keychain, Defaults, StampPending, KeychainPending, MemoryPending,
                      Counters, CounterInv, HandlerInv
<1>5. /\ FutureInv' /\ (Resetting' <=> Resetting) /\ Now' = Now
      /\ \A d \in Days : InFlight(d)' = InFlight(d)
      /\ InFlight(Now)' = InFlight(Now) /\ timed'[Now'] = timed[Now] /\ (AskedNow' <=> AskedNow)
  BY <1>1, FramedQuestions DEF Counters
<1>6. /\ Reserve' <= Reserve + FreeRequests /\ (~StampPending => Reserve' = Reserve)
      /\ (StampPending => Reserve = 0) /\ Reserve \in {0, FreeRequests} /\ Reserve' \in {0, FreeRequests}
      /\ (Due' <=> Due)
  BY <1>1, <1>4, <1>5 DEF Reserve, Open, Due, ResetStamp, Framed
<1>7. /\ BeforeReset' = BeforeReset /\ BeforeResetNow' = BeforeReset
      /\ BeforeResetNow \in {BeforeReset, FreeRequests} /\ BeforeReset \in {0, FreeRequests}
      /\ StampPending => BeforeResetNow = FreeRequests
      /\ ~StampPending => BeforeResetNow = BeforeReset
  BY <1>1, <1>4 DEF BeforeReset, BeforeResetNow, Framed
<1>8. HandlerInv'
  BY <1>1, <1>5 DEF Counters, HandlerInv, Framed
<1>9. CounterInv'
  BY <1>1, <1>4, <1>5 DEF Counters, CounterInv, Framed
<1>10. StampInv'
  BY <1>1, <1>2, <1>5 DEF Counters, StampInv, Framed, Typed
<1>11. TimedInv'
  <2>1. AskedNow => timed[Now] + Reserve <= Lost + Memory
    BY <1>4 DEF Counters, TimedInv
  <2>2. timed[Now] \in Nat /\ Lost \in Nat /\ Memory \in Nat /\ Keychain \in Nat
        /\ FreeRequests \in Nat
    BY <1>2 DEF Typed
  <2>3. AskedNow => timed[Now] + Reserve' <= Lost' + Memory
    BY <1>4, <1>6, <2>1, <2>2
  <2>4. AskedNow /\ ~KeychainPending' => timed[Now] + Reserve' <= Lost' + Keychain
    <3>1. ~KeychainPending' => ~StampPending
      BY <1>1 DEF KeychainPending, MemoryPending, StampPending
    <3> QED
      BY <1>4, <1>6, <2>1, <2>2, <3>1
  <2>5. ASSUME NEW d \in Days
        PROVE  timed[d] + InFlight(d) <= FreeRequests + Lost'
    <3>1. timed[d] + InFlight(d) <= FreeRequests + Lost /\ timed[d] \in Nat /\ InFlight(d) \in {0, 1}
      BY <1>2 DEF Counters, TimedInv, Typed
    <3> QED
      BY <1>4, <2>2, <3>1
  <2> QED
    BY <1>1, <1>4, <1>5, <2>3, <2>4, <2>5 DEF TimedInv, Framed
<1>12. OneEach => OneEach'
  <2> SUFFICES ASSUME OneEach PROVE OneEach'
    OBVIOUS
  <2>1. /\ timed[Now] \in Nat /\ faults \in Nat /\ InFlight(Now) \in {0, 1} /\ Memory \in Nat
        /\ Defaults \in Nat
    BY <1>2 DEF Typed
  <2>2. ~Resetting /\ AskedNow /\ Due => timed[Now] + InFlight(Now) <= faults'
    BY <1>1, <2>1 DEF OneEach
  <2>3. Resetting => timed[Now] + InFlight(Now) <= faults' /\ timed[Now] + 1 <= faults'
    BY <1>1, <2>1 DEF OneEach
  <2>4. timed[Now] <= faults' + Memory
    BY <1>1, <1>4, <2>1 DEF OneEach
  <2>5. timed[Now] <= faults' + Defaults + (IF pc' # "idle" /\ ~Resetting THEN 1 ELSE 0)
    <3>1. timed[Now] <= faults + Defaults + (IF pc # "idle" /\ ~Resetting THEN 1 ELSE 0)
      BY DEF OneEach
    <3>2. pc # "idle" /\ pc' # "idle"
      BY <1>1
    <3> QED
      BY <1>1, <2>1, <3>1, <3>2
  <2>6. ASSUME NEW d \in Days
        PROVE  timed[d] + InFlight(d) <= FreeRequests + faults'
    <3>1. timed[d] + InFlight(d) <= FreeRequests + faults /\ timed[d] \in Nat /\ InFlight(d) \in {0, 1}
      BY <1>2 DEF OneEach, Typed
    <3> QED
      BY <1>1, <2>1, <3>1
  <2> QED
    BY <1>1, <1>4, <1>5, <1>6, <2>2, <2>3, <2>4, <2>5, <2>6 DEF OneEach, Framed
<1>13. AnswersInv'
  <2>1. answers[today] <= Lost + BeforeResetNow + Memory
    BY <1>4 DEF Counters, AnswersInv
  <2>2. answers[today] \in Nat /\ Lost \in Nat /\ Memory \in Nat /\ Keychain \in Nat
        /\ FreeRequests \in Nat
    BY <1>2 DEF Typed
  <2>3. answers[today] <= Lost' + BeforeReset + Memory
    BY <1>4, <1>7, <2>1, <2>2
  <2>4. ~KeychainPending' => answers[today] <= Lost' + BeforeReset + Keychain
    <3>1. ~KeychainPending' => ~StampPending
      BY <1>1 DEF KeychainPending, MemoryPending, StampPending
    <3> QED
      BY <1>4, <1>7, <2>1, <2>2, <3>1
  <2>5. ASSUME NEW d \in Days
        PROVE  answers[d] <= FreeRequests + FreeRequests + Lost'
    <3>1. answers[d] <= FreeRequests + FreeRequests + Lost /\ answers[d] \in Nat
      BY <1>2 DEF Counters, AnswersInv, Typed
    <3> QED
      BY <1>4, <2>2, <3>1
  <2> QED
    BY <1>1, <1>4, <1>7, <2>3, <2>4, <2>5 DEF AnswersInv, Framed
<1>14. TodayInv'
  BY <1>1, <1>2 DEF TodayInv, Typed
<1> QED
  BY <1>1, <1>3, <1>5, <1>8, <1>9, <1>10, <1>11, <1>12, <1>13, <1>14 DEF Counters, Framed

-----------------------------------------------------------------------------
(* The end of a reading: the day is today again, and if midnight has       *)
(* passed since it began nothing is asked or answered on it.               *)
LEMMA TodayAgain ==
  ASSUME TypeOK, Counters, newStamp' = Nothing, today' = today, timed' = timed,
         asking' \in {"none", "untimed", "timed"}, askedOn' \in Days, askedOn' <= Now
  PROVE  /\ ~Resetting' /\ Now' = today /\ Now <= today
         /\ today # Now => /\ Resetting /\ timed[today] = 0 /\ answers[today] = 0
                           /\ ~AskedNow'
<1>1. Typed
  BY TypedState
<1>2. ~Resetting' /\ Now' = today /\ Now <= today /\ (today # Now => Resetting)
  BY <1>1 DEF Resetting, Now, Counters, HandlerInv, Typed
<1>3. today # Now => timed[today] = 0 /\ answers[today] = 0
  BY <1>1, <1>2 DEF Counters, FutureInv, Typed
<1>4. today # Now => InFlight(Now)' = 0
  BY <1>1, <1>2 DEF InFlight, Typed
<1> QED
  BY <1>1, <1>2, <1>3, <1>4 DEF AskedNow, Typed

(* getAccessQuestionsCount returns to a caller that only shows the number. *)
LEMMA ReadReturnsKeeps ==
  ASSUME TypeOK, Counters, ReadReturns
  PROVE  TypeOK' /\ Counters'
<1>1. /\ pc = "read" /\ pc' = "idle" /\ newStamp' = Nothing /\ count' = count /\ stamp' = stamp
      /\ faults' = faults /\ newCount' = newCount /\ accessQuestionsCount' = accessQuestionsCount
      /\ today' = today /\ running' = running /\ timeKnown' = timeKnown /\ asking' = asking
      /\ askedOn' = askedOn /\ answers' = answers /\ timed' = timed /\ reinstalled' = reinstalled
  BY DEF ReadReturns, stored, history
<1>2. Typed
  BY TypedState
<1>3. TypeOK'
  BY <1>1 DEF TypeOK, Steps
<1>4. /\ Memory' = Memory /\ Keychain' = Keychain /\ Defaults' = Defaults /\ Lost' = Lost
      /\ ~StampPending /\ ~StampPending' /\ ~KeychainPending' /\ ~KeychainPending
      /\ ~MemoryPending /\ ~MemoryPending' /\ Resetting /\ running
  BY <1>1 DEF Memory, Keychain, Defaults, Lost, StampPending, KeychainPending, MemoryPending,
              Counters, HandlerInv
<1>5. /\ ~Resetting' /\ Now' = today /\ Now <= today
      /\ today # Now => timed[today] = 0 /\ answers[today] = 0 /\ ~AskedNow'
  BY <1>1, <1>2, TodayAgain DEF Counters, FutureInv, Typed
<1>6. /\ \A d \in Days : InFlight(d)' = InFlight(d)
      /\ today = Now => /\ InFlight(Now)' = InFlight(Now) /\ (AskedNow' <=> AskedNow)
                        /\ Reserve' = Reserve
  BY <1>1, <1>4, <1>5, SameQuestions DEF Reserve, Open, InFlight
<1>7. BeforeReset' = BeforeReset /\ BeforeResetNow' = BeforeResetNow
  BY <1>1, <1>4 DEF BeforeReset, BeforeResetNow
<1>8. HandlerInv'
  BY <1>1, <1>5 DEF Counters, HandlerInv
<1>9. CounterInv'
  BY <1>1, <1>4 DEF Counters, CounterInv
<1>10. StampInv'
  BY <1>1, <1>4, <1>5 DEF Counters, StampInv, Resetting
<1>11. FutureInv'
  BY <1>1, <1>2, <1>5 DEF Counters, FutureInv, Typed
<1>12. TimedInv'
  BY <1>1, <1>4, <1>5, <1>6 DEF Counters, TimedInv
<1>13. OneEach => OneEach'
  <2> SUFFICES ASSUME OneEach PROVE OneEach'
    OBVIOUS
  <2>1. CASE today = Now
    BY <1>1, <1>4, <1>5, <1>6, <2>1 DEF OneEach
  <2>2. CASE today # Now
    <3>1. timed'[Now'] = 0 /\ ~AskedNow' /\ faults \in Nat /\ Memory \in Nat /\ Defaults \in Nat
      BY <1>1, <1>2, <1>5, <2>2 DEF Typed
    <3> QED
      BY <1>1, <1>4, <1>5, <1>6, <3>1 DEF OneEach
  <2> QED
    BY <2>1, <2>2
<1>14. AnswersInv'
  BY <1>1, <1>4, <1>7 DEF Counters, AnswersInv
<1>15. TodayInv'
  BY <1>1, <1>4 DEF Counters, TodayInv
<1> QED
  BY <1>1, <1>3, <1>8, <1>9, <1>10, <1>11, <1>12, <1>13, <1>14, <1>15 DEF Counters

(* A question that finds the counter below the limit: it is counted for    *)
(* the day of the reading, and if the stamp of that day is not in the      *)
(* keychain a fault has made room for it.                                  *)
LEMMA AskKeeps ==
  ASSUME TypeOK, Counters, Ask
  PROVE  TypeOK' /\ Counters'
<1>1. /\ (Idle /\ ~ResetDue) \/ pc = "read"
      /\ asking = "none" /\ accessQuestionsCount < FreeRequests
      /\ asking' = IF timeKnown THEN "timed" ELSE "untimed"
      /\ askedOn' = IF pc = "read" THEN newStamp ELSE today
      /\ pc' = "idle" /\ newStamp' = Nothing /\ count' = count /\ stamp' = stamp
      /\ faults' = faults /\ newCount' = newCount /\ accessQuestionsCount' = accessQuestionsCount
      /\ today' = today /\ running' = running /\ timeKnown' = timeKnown
      /\ answers' = answers /\ timed' = timed /\ reinstalled' = reinstalled
  BY DEF Ask, stored
<1>2. Typed
  BY TypedState
<1>3. /\ Memory' = Memory /\ Keychain' = Keychain /\ Defaults' = Defaults /\ Lost' = Lost
      /\ ~StampPending /\ ~StampPending' /\ ~KeychainPending' /\ ~KeychainPending
      /\ ~MemoryPending /\ ~MemoryPending' /\ Memory = accessQuestionsCount
      /\ (Resetting <=> pc = "read") /\ running /\ askedOn' = Now /\ pc \in {"idle", "read"}
  BY <1>1 DEF Memory, Keychain, Defaults, Lost, StampPending, KeychainPending, MemoryPending,
              Counters, HandlerInv, Idle, Now
<1>4. TypeOK'
  BY <1>1, <1>2, <1>3 DEF TypeOK, Steps, Typed
<1>5. /\ ~Resetting' /\ Now' = today /\ Now <= today
      /\ today # Now => Resetting /\ timed[today] = 0 /\ answers[today] = 0 /\ ~AskedNow'
  BY <1>1, <1>2, <1>3, TodayAgain DEF Typed
<1>6. /\ \A d \in Days : d # Now => InFlight(d)' = 0
      /\ \A d \in Days : InFlight(d) = 0 /\ InFlight(d)' \in {0, 1}
      /\ InFlight(Now) = 0
      /\ today = Now => Reserve' = Reserve
  BY <1>1, <1>2, <1>3, <1>5 DEF Reserve, Open, InFlight, Typed
<1>7. BeforeReset' = BeforeReset /\ BeforeResetNow' = BeforeResetNow /\ (Due' <=> Due)
  BY <1>1, <1>3 DEF BeforeReset, BeforeResetNow, Due, ResetStamp
<1>8. HandlerInv'
  BY <1>1, <1>5, <1>3 DEF Counters, HandlerInv
<1>9. CounterInv'
  BY <1>1, <1>3 DEF Counters, CounterInv
<1>10. StampInv'
  BY <1>1, <1>3, <1>5 DEF Counters, StampInv, Resetting
<1>11. FutureInv'
  BY <1>1, <1>2, <1>3, <1>5 DEF Counters, FutureInv, Typed
<1>12. /\ Reserve \in {0, FreeRequests} /\ timed[Now] \in Nat /\ Lost \in Nat /\ Memory \in Nat
       /\ Keychain \in Nat /\ FreeRequests \in Nat /\ faults \in Nat /\ Defaults \in Nat
  BY <1>2 DEF Reserve, Typed
<1>13. AskedNow' /\ today = Now /\ ~AskedNow => timed[Now] = 0 /\ Reserve <= Lost
  <2> SUFFICES ASSUME AskedNow', today = Now, ~AskedNow PROVE timed[Now] = 0 /\ Reserve <= Lost
    OBVIOUS
  <2>1. timed[Now] = 0
    BY <1>12 DEF AskedNow
  <2>2. asking' = "timed" /\ timeKnown
    BY <1>1, <1>5, <2>1 DEF AskedNow, InFlight
  <2>3. Open => faults >= 1
    <3>1. CASE pc = "read"
      BY <3>1, <1>3 DEF Open, Now, Counters, StampInv
    <3>2. CASE pc # "read"
      <4>1. ~Resetting /\ DayOfMonth(ResetStamp) = DayOfMonth(today)
        BY <1>1, <1>3, <2>2, <3>2 DEF ResetDue
      <4>2. ResetStamp # Nothing
        BY <1>2, <4>1, StampedDay DEF Typed, ResetStamp
      <4>3. Open => stamp["keychain"] = Nothing
        BY <4>1 DEF Open, ResetStamp, Now
      <4> QED
        BY <4>1, <4>2, <4>3 DEF ResetStamp, Counters, StampInv
    <3> QED
      BY <3>1, <3>2
  <2> QED
    BY <2>1, <2>3, <1>12, LostGrows DEF Reserve
<1>14. timed[Now] <= Lost + Memory
  BY <1>3, <1>12 DEF Counters, TimedInv, AskedNow
<1>15. TimedInv'
  <2>1. AskedNow' => timed'[Now'] + Reserve' <= Lost + Memory
                     /\ timed'[Now'] + Reserve' <= Lost + Keychain
    <3> SUFFICES ASSUME AskedNow' PROVE timed[Now] + Reserve <= Lost + Memory
                                        /\ timed[Now] + Reserve <= Lost + Keychain
      BY <1>1, <1>5, <1>6
    <3>1. CASE AskedNow
      BY <1>3, <3>1 DEF Counters, TimedInv
    <3>2. CASE ~AskedNow
      BY <1>5, <1>12, <1>13, <3>2
    <3> QED
      BY <3>1, <3>2
  <2>2. ASSUME NEW d \in Days
        PROVE  timed[d] + InFlight(d)' <= FreeRequests + Lost
    <3>1. CASE d = Now
      <4>1. InFlight(d)' \in {0, 1} /\ Memory < FreeRequests
        BY <1>1, <1>3, <1>6
      <4> QED
        BY <1>12, <1>14, <3>1, <4>1
    <3>2. CASE d # Now
      BY <1>6, <3>2 DEF Counters, TimedInv
    <3> QED
      BY <3>1, <3>2
  <2> QED
    BY <1>1, <1>3, <2>1, <2>2 DEF TimedInv
<1>16. OneEach => OneEach'
  <2> SUFFICES ASSUME OneEach PROVE OneEach'
    OBVIOUS
  <2>1. AskedNow' /\ Due => timed'[Now'] + InFlight(Now)' <= faults
    <3> SUFFICES ASSUME AskedNow', Due PROVE timed[Now] + InFlight(Now)' <= faults
      BY <1>1, <1>5 DEF InFlight
    <3>1. today = Now
      BY <1>5
    <3>2. CASE pc = "read"
      <4>1. stamp["keychain"] # newStamp
        BY <1>3, <3>1, <3>2, DueIsOpen DEF Now
      <4>2. timed[Now] + 1 <= faults
        BY <1>3, <3>2, <4>1 DEF OneEach
      <4>3. InFlight(Now)' \in {0, 1}
        BY DEF InFlight
      <4> QED
        BY <1>12, <4>2, <4>3
    <3>3. CASE pc # "read"
      <4>1. ~timeKnown /\ ~Resetting
        BY <1>1, <1>3, <3>3 DEF ResetDue, Due
      <4>2. InFlight(Now)' = 0 /\ AskedNow
        BY <1>1, <1>5, <3>1, <4>1 DEF InFlight, AskedNow
      <4> QED
        BY <1>6, <4>1, <4>2 DEF OneEach
    <3> QED
      BY <3>2, <3>3
  <2>2. timed'[Now'] <= faults + Memory /\ timed'[Now'] <= faults + Defaults
    <3>1. CASE today = Now
      <4>1. timed[Now] <= faults + Memory
        BY <1>3 DEF OneEach
      <4>2. timed[Now] <= faults + Defaults + 0
        BY <1>3 DEF OneEach
      <4> QED
        BY <1>1, <1>5, <1>12, <3>1, <4>1, <4>2
    <3>2. CASE today # Now
      BY <1>1, <1>5, <1>12, <3>2
    <3> QED
      BY <3>1, <3>2
  <2>3. ASSUME NEW d \in Days
        PROVE  timed[d] + InFlight(d)' <= FreeRequests + faults
    <3>1. CASE d = Now
      <4>1. timed[Now] <= faults + Memory
        BY <1>3 DEF OneEach
      <4>2. InFlight(d)' \in {0, 1} /\ Memory < FreeRequests
        BY <1>1, <1>3, <1>6
      <4> QED
        BY <1>12, <3>1, <4>1, <4>2
    <3>2. CASE d # Now
      BY <1>6, <3>2 DEF OneEach
    <3> QED
      BY <3>1, <3>2
  <2>4. timed'[Now'] <= faults + Defaults + 0
    BY <1>1, <1>2, <1>5, <1>12, <2>2 DEF Typed
  <2> QED
    BY <1>1, <1>3, <1>5, <1>7, <2>1, <2>2, <2>3, <2>4 DEF OneEach
<1>17. AnswersInv'
  BY <1>1, <1>3, <1>7 DEF Counters, AnswersInv
<1>18. TodayInv'
  BY <1>1, <1>3 DEF Counters, TodayInv
<1> QED
  BY <1>1, <1>4, <1>8, <1>9, <1>10, <1>11, <1>15, <1>16, <1>17, <1>18 DEF Counters

(* An answer is counted: today's answers grow with the counter to write.   *)
LEMMA AnswerKeeps ==
  ASSUME TypeOK, Counters, AnswerArrives
  PROVE  TypeOK' /\ Counters'
<1>1. /\ Idle /\ asking # "none" /\ asking' = "none"
      /\ pc' = "setMemory" /\ newCount' = accessQuestionsCount + 1 /\ newStamp' = newStamp
      /\ answers' = [answers EXCEPT ![today] = @ + 1]
      /\ timed' = IF asking = "timed" THEN [timed EXCEPT ![askedOn] = @ + 1] ELSE timed
      /\ askedOn' = askedOn /\ today' = today /\ running' = running /\ timeKnown' = timeKnown
      /\ accessQuestionsCount' = accessQuestionsCount /\ count' = count /\ stamp' = stamp
      /\ faults' = faults /\ reinstalled' = reinstalled
  BY DEF AnswerArrives, stored
<1>2. Typed /\ today \in Days /\ askedOn \in Days /\ answers \in [Days -> Nat]
      /\ timed \in [Days -> Nat]
  BY TypedState DEF TypeOK
<1>3. /\ Memory = accessQuestionsCount /\ Memory' = Memory + 1 /\ Keychain' = Keychain
      /\ Defaults' = Defaults /\ Lost' = Lost
      /\ ~StampPending /\ ~StampPending' /\ KeychainPending' /\ ~KeychainPending
      /\ ~MemoryPending /\ MemoryPending' /\ ~Resetting /\ running /\ pc = "idle"
  BY <1>1 DEF Memory, Keychain, Defaults, Lost, StampPending, KeychainPending, MemoryPending,
              Counters, HandlerInv, Idle
<1>4. ~Resetting' /\ Now = today /\ Now' = today
  BY <1>1, <1>3 DEF Resetting, Now
<1>5. accessQuestionsCount + 1 <= FreeRequests
  BY <1>1, <1>2 DEF Counters, CounterInv, Typed
<1>6. answers' \in [Days -> Nat] /\ answers'[today] = answers[today] + 1
      /\ \A d \in Days : d # today => answers'[d] = answers[d]
  <2>1. answers' = [answers EXCEPT ![today] = answers[today] + 1]
    BY <1>1
  <2>2. today \in Days /\ answers \in [Days -> Nat] /\ answers[today] + 1 \in Nat
    BY <1>2
  <2>3. answers'[today] = answers[today] + 1
    BY <2>1, <2>2, Zenon
  <2>4. \A d \in Days : d # today => answers'[d] = answers[d]
    BY <2>1, <2>2, Zenon
  <2>5. answers' \in [Days -> Nat]
    BY <2>1, <2>2
  <2> QED
    BY <2>3, <2>4, <2>5
<1>7. timed' \in [Days -> Nat] /\ \A d \in Days : timed'[d] = timed[d] + InFlight(d)
  <2>1. CASE asking = "timed"
    <3>1. timed' = [timed EXCEPT ![askedOn] = timed[askedOn] + 1]
      BY <1>1, <2>1
    <3> QED
      BY <1>2, <2>1, <3>1 DEF InFlight
  <2>2. CASE asking # "timed"
    BY <1>1, <1>2, <2>2 DEF InFlight
  <2> QED
    BY <2>1, <2>2
<1>8. /\ \A d \in Days : InFlight(d)' = 0
      /\ InFlight(Now)' = 0
      /\ timed'[Now'] = timed[Now] + InFlight(Now)
      /\ AskedNow' => AskedNow
  <2>1. \A d : InFlight(d)' = 0
    BY <1>1 DEF InFlight
  <2>2. timed'[Now'] = timed[Now] + InFlight(Now)
    BY <1>2, <1>4, <1>7
  <2>3. InFlight(Now)' = 0
    BY <1>1 DEF InFlight
  <2>4. timed[Now] \in Nat /\ InFlight(Now) \in {0, 1}
    BY <1>2 DEF Typed
  <2>5. AskedNow' => AskedNow
    BY <2>2, <2>3, <2>4 DEF AskedNow
  <2> QED
    BY <2>1, <2>2, <2>3, <2>5
<1>9. /\ answers[today] \in Nat /\ timed[Now] \in Nat /\ faults \in Nat /\ InFlight(Now) \in {0, 1}
      /\ Keychain \in Nat /\ Memory \in Nat /\ Defaults \in Nat /\ Lost \in Nat
      /\ FreeRequests \in Nat /\ accessQuestionsCount \in Nat
  BY <1>2 DEF Typed
<1>10. TypeOK'
  BY <1>1, <1>2, <1>6, <1>7 DEF TypeOK, Steps
<1>11. /\ BeforeReset' = BeforeReset /\ BeforeResetNow' = BeforeReset /\ BeforeResetNow = BeforeReset
       /\ BeforeReset \in {0, FreeRequests} /\ (Due' <=> Due) /\ Reserve' = Reserve
       /\ Reserve \in {0, FreeRequests}
  BY <1>1, <1>3, <1>4 DEF BeforeReset, BeforeResetNow, Due, ResetStamp, Reserve, Open
<1>12. HandlerInv'
  BY <1>1, <1>3, <1>4, <1>5, <1>9 DEF HandlerInv
<1>13. CounterInv'
  BY <1>1, <1>3 DEF Counters, CounterInv
<1>14. StampInv'
  BY <1>1, <1>3, <1>4 DEF Counters, StampInv
<1>15. FutureInv'
  <2>1. askedOn <= today
    BY <1>4 DEF Counters, FutureInv
  <2> SUFFICES ASSUME NEW d \in Days, d > today PROVE answers'[d] = 0 /\ timed'[d] = 0
    BY <1>1, <1>4, <2>1 DEF FutureInv
  <2>2. askedOn # d /\ d # today
    BY <1>2, <2>1 DEF Typed
  <2>3. InFlight(d) = 0
    BY <2>2 DEF InFlight
  <2> QED
    BY <1>4, <1>6, <1>7, <2>2, <2>3 DEF Counters, FutureInv
<1>16. TimedInv'
  <2>1. AskedNow' => timed'[Now'] + Reserve' <= Lost' + Memory'
    <3>1. AskedNow => timed[Now] + Reserve <= Lost + Memory
      BY <1>3 DEF Counters, TimedInv
    <3> QED
      BY <1>3, <1>8, <1>9, <1>11, <3>1
  <2>2. ASSUME NEW d \in Days PROVE timed'[d] + InFlight(d)' <= FreeRequests + Lost'
    <3>1. timed[d] + InFlight(d) <= FreeRequests + Lost /\ timed'[d] \in Nat
      BY <1>7 DEF Counters, TimedInv
    <3> QED
      BY <1>3, <1>7, <1>8, <1>9, <3>1
  <2> QED
    BY <1>3, <2>1, <2>2 DEF TimedInv
<1>17. OneEach => OneEach'
  <2> SUFFICES ASSUME OneEach PROVE OneEach'
    OBVIOUS
  <2>1. AskedNow' /\ Due' => timed'[Now'] + InFlight(Now)' <= faults'
    <3>1. AskedNow /\ Due => timed[Now] + InFlight(Now) <= faults
      BY <1>3 DEF OneEach
    <3> QED
      BY <1>1, <1>8, <1>9, <1>11, <3>1
  <2>2. timed'[Now'] <= faults' + Memory'
    <3>1. timed[Now] <= faults + Memory
      BY <1>3 DEF OneEach
    <3> QED
      BY <1>1, <1>3, <1>8, <1>9, <3>1
  <2>3. timed'[Now'] <= faults' + Defaults' + 1
    <3>1. timed[Now] <= faults + Defaults + 0
      BY <1>3 DEF OneEach
    <3> QED
      BY <1>1, <1>3, <1>8, <1>9, <3>1
  <2>4. ASSUME NEW d \in Days PROVE timed'[d] + InFlight(d)' <= FreeRequests + faults'
    <3>1. timed[d] + InFlight(d) <= FreeRequests + faults /\ timed'[d] \in Nat
      BY <1>7 DEF OneEach
    <3> QED
      BY <1>1, <1>7, <1>8, <1>9, <3>1
  <2> QED
    BY <1>1, <1>4, <2>1, <2>2, <2>3, <2>4 DEF OneEach
<1>18. AnswersInv'
  <2>1. answers[today] <= Lost + BeforeReset + Memory
    BY <1>3, <1>11 DEF Counters, AnswersInv
  <2>2. answers'[today'] <= Lost' + BeforeResetNow' + Memory'
    BY <1>1, <1>3, <1>6, <1>9, <1>11, <2>1
  <2>3. ASSUME NEW d \in Days PROVE answers'[d] <= FreeRequests + FreeRequests + Lost'
    <3>1. CASE d = today
      BY <1>3, <1>5, <1>6, <1>9, <1>11, <2>1, <3>1
    <3>2. CASE d # today
      BY <1>3, <1>6, <3>2 DEF Counters, AnswersInv
    <3> QED
      BY <3>1, <3>2
  <2> QED
    BY <1>3, <2>2, <2>3 DEF AnswersInv
<1>19. TodayInv'
  BY <1>1, <1>3, <1>6, <1>9 DEF Counters, TodayInv
<1> QED
  BY <1>1, <1>10, <1>12, <1>13, <1>14, <1>15, <1>16, <1>17, <1>18, <1>19 DEF Counters

(* A reset is due: the package set aside pays for the counter it loses.    *)
LEMMA ResetKeeps ==
  ASSUME TypeOK, Counters, ReadCountResets
  PROVE  TypeOK' /\ Counters'
<1>1. /\ Idle /\ ResetDue /\ pc' = "deleteStamp" /\ newStamp' = today /\ newCount' = 0
      /\ asking' = asking /\ askedOn' = askedOn /\ today' = today /\ running' = running
      /\ timeKnown' = timeKnown /\ accessQuestionsCount' = accessQuestionsCount
      /\ count' = count /\ stamp' = stamp /\ answers' = answers /\ timed' = timed
      /\ faults' = faults /\ reinstalled' = reinstalled
  BY DEF ReadCountResets, stored, history
<1>2. Typed
  BY TypedState
<1>3. /\ Memory = accessQuestionsCount /\ Memory' = 0 /\ Keychain' = Keychain
      /\ Defaults' = Defaults /\ Lost' = Lost
      /\ ~StampPending /\ StampPending' /\ KeychainPending' /\ ~KeychainPending
      /\ ~MemoryPending /\ MemoryPending' /\ ~Resetting /\ running /\ pc = "idle"
  BY <1>1 DEF Memory, Keychain, Defaults, Lost, StampPending, KeychainPending, MemoryPending,
              Counters, HandlerInv, Idle
<1>4. Resetting' /\ Now = today /\ Now' = Now
  BY <1>1, <1>2, <1>3 DEF Resetting, Now, Typed
<1>5. /\ \A d \in Days : InFlight(d)' = InFlight(d)
      /\ InFlight(Now)' = InFlight(Now) /\ timed'[Now'] = timed[Now] /\ (AskedNow' <=> AskedNow)
  BY <1>1, <1>4, SameQuestions
<1>6. Due /\ DayOfMonth(stamp["keychain"]) # DayOfMonth(today)
  BY <1>1, DueIsOpen DEF ResetDue, Due
<1>7. Reserve = FreeRequests /\ Reserve' = 0 /\ BeforeResetNow = 0 /\ BeforeResetNow' = FreeRequests
  BY <1>3, <1>4, <1>6 DEF Reserve, Open, BeforeReset, BeforeResetNow
<1>8. /\ timed[Now] \in Nat /\ faults \in Nat /\ InFlight(Now) \in {0, 1} /\ answers[today] \in Nat
      /\ Memory \in Nat /\ Defaults \in Nat /\ Lost \in Nat /\ FreeRequests \in Nat
      /\ Memory <= FreeRequests
  BY <1>2, <1>3 DEF Typed, Counters, CounterInv
<1>9. TypeOK'
  BY <1>1 DEF TypeOK, Steps
<1>10. HandlerInv'
  BY <1>1, <1>2, <1>3, <1>4 DEF HandlerInv, Typed
<1>11. CounterInv'
  BY <1>1, <1>3, <1>4 DEF Counters, CounterInv
<1>12. StampInv'
  BY <1>1, <1>3, <1>4 DEF Counters, StampInv
<1>13. FutureInv'
  BY <1>1, <1>4 DEF Counters, FutureInv
<1>14. TimedInv'
  <2>1. AskedNow => timed[Now] + FreeRequests <= Lost + Memory
    BY <1>3, <1>7 DEF Counters, TimedInv
  <2>2. AskedNow => timed[Now] + 0 <= Lost + 0
    BY <1>8, <2>1
  <2> QED
    BY <1>1, <1>3, <1>5, <1>7, <2>2 DEF Counters, TimedInv
<1>15. OneEach => OneEach'
  <2> SUFFICES ASSUME OneEach PROVE OneEach'
    OBVIOUS
  <2>1. timed[Now] + InFlight(Now) <= faults
    <3>1. CASE AskedNow
      BY <1>3, <1>6, <3>1 DEF OneEach
    <3>2. CASE ~AskedNow
      BY <1>8, <3>2 DEF AskedNow
    <3> QED
      BY <3>1, <3>2
  <2>2. timed[Now] <= faults + 0 /\ timed[Now] <= faults + Defaults + 0
    BY <1>8, <2>1
  <2> QED
    BY <1>1, <1>3, <1>4, <1>5, <2>1, <2>2 DEF OneEach
<1>16. AnswersInv'
  <2>1. answers[today] <= Lost + 0 + Memory
    BY <1>3, <1>7 DEF Counters, AnswersInv
  <2>2. answers[today] <= Lost + FreeRequests + 0
    BY <1>8, <2>1
  <2> QED
    BY <1>1, <1>3, <1>7, <2>2 DEF Counters, AnswersInv
<1>17. TodayInv'
  BY <1>1, <1>6 DEF TodayInv
<1> QED
  BY <1>1, <1>9, <1>10, <1>11, <1>12, <1>13, <1>14, <1>15, <1>16, <1>17 DEF Counters

(* The time comes, a question fails: no counter changes.                   *)
LEMMA CountersLeft ==
  ASSUME TypeOK, Counters, TypeOK', asking' \in {asking, "none"},
         UNCHANGED <<today, running, accessQuestionsCount, count, stamp, pc, newCount, newStamp,
                     askedOn, answers, timed, faults, reinstalled>>
  PROVE  Counters'
<1>1. Typed
  BY TypedState
<1>2. /\ (Resetting' <=> Resetting) /\ Now' = Now /\ Memory' = Memory /\ Keychain' = Keychain
      /\ Defaults' = Defaults /\ Lost' = Lost /\ (StampPending' <=> StampPending)
      /\ (KeychainPending' <=> KeychainPending) /\ (MemoryPending' <=> MemoryPending)
  BY DEF Resetting, Now, Memory, Keychain, Defaults, Lost, StampPending, KeychainPending,
         MemoryPending
<1>3. /\ Reserve' = Reserve /\ BeforeReset' = BeforeReset /\ BeforeResetNow' = BeforeResetNow
      /\ (Due' <=> Due)
  BY <1>2 DEF Reserve, Open, BeforeReset, BeforeResetNow, Due, ResetStamp
<1>4. /\ \A d \in Days : InFlight(d)' <= InFlight(d) /\ InFlight(d)' \in {0, 1}
      /\ InFlight(Now)' <= InFlight(Now) /\ InFlight(Now)' \in {0, 1}
      /\ AskedNow' => AskedNow
  BY <1>2 DEF InFlight, AskedNow
<1>5. /\ timed[Now] \in Nat /\ faults \in Nat /\ InFlight(Now) \in {0, 1}
      /\ FreeRequests \in Nat /\ Lost \in Nat
      /\ \A d \in Days : timed[d] \in Nat /\ InFlight(d) \in {0, 1}
  BY <1>1 DEF Typed
<1>6. HandlerInv' /\ StampInv' /\ FutureInv'
  BY <1>2 DEF Counters, HandlerInv, StampInv, FutureInv
<1>7. CounterInv'
  BY <1>2 DEF Counters, CounterInv
<1>8. TimedInv'
  <2>1. ASSUME NEW d \in Days PROVE timed[d] + InFlight(d)' <= FreeRequests + Lost
    <3>1. timed[d] + InFlight(d) <= FreeRequests + Lost
      BY DEF Counters, TimedInv
    <3> QED
      BY <1>4, <1>5, <3>1
  <2> QED
    BY <1>2, <1>3, <1>4, <2>1 DEF Counters, TimedInv
<1>9. OneEach => OneEach'
  <2> SUFFICES ASSUME OneEach PROVE OneEach'
    OBVIOUS
  <2>1. ASSUME NEW d \in Days PROVE timed[d] + InFlight(d)' <= FreeRequests + faults
    <3>1. timed[d] + InFlight(d) <= FreeRequests + faults
      BY DEF OneEach
    <3> QED
      BY <1>4, <1>5, <3>1
  <2>2. Resetting \/ (AskedNow' /\ Due) => timed[Now] + InFlight(Now)' <= faults
    <3>1. Resetting \/ (AskedNow' /\ Due) => timed[Now] + InFlight(Now) <= faults
      BY <1>4 DEF OneEach
    <3> QED
      BY <1>4, <1>5, <3>1
  <2> QED
    BY <1>2, <1>3, <1>4, <2>1, <2>2 DEF OneEach
<1>10. AnswersInv'
  BY <1>2, <1>3 DEF Counters, AnswersInv
<1>11. TodayInv'
  BY <1>2 DEF Counters, TodayInv
<1> QED
  BY <1>6, <1>7, <1>8, <1>9, <1>10, <1>11 DEF Counters

(* A launch takes the larger copy.                                         *)
LEMMA LaunchKeeps ==
  ASSUME TypeOK, Counters, Launch
  PROVE  TypeOK' /\ Counters'
<1>1. /\ ~running /\ running' /\ today' = today /\ timeKnown' = timeKnown /\ count' = count
      /\ stamp' = stamp /\ pc' = pc /\ newCount' = newCount /\ newStamp' = newStamp
      /\ asking' = asking /\ askedOn' = askedOn /\ answers' = answers /\ timed' = timed
      /\ faults' = faults /\ reinstalled' = reinstalled
  BY DEF Launch, stored, handler, history
<1>2. Typed
  BY TypedState
<1>3. /\ accessQuestionsCount' \in {Keychain, Defaults}
      /\ Keychain <= accessQuestionsCount' /\ Defaults <= accessQuestionsCount'
  <2>1. accessQuestionsCount' = IF count["keychain"] = Nothing THEN Defaults
                                ELSE Max({Keychain, Defaults})
    BY DEF Launch, StoredCount, Keychain, Defaults
  <2>2. Keychain \in Nat /\ Defaults \in Nat /\ (count["keychain"] = Nothing => Keychain = 0)
    BY <1>2 DEF Typed, Keychain
  <2> QED
    BY <2>1, <2>2, MaxOfTwo
<1>4. /\ pc = "idle" /\ ~Resetting /\ asking = "none" /\ ~StampPending /\ ~KeychainPending
      /\ ~MemoryPending /\ newCount = 0 /\ Now = today
  BY <1>1 DEF Counters, HandlerInv, CounterInv, StampPending, KeychainPending, MemoryPending, Now
<1>5. /\ ~Resetting' /\ ~StampPending' /\ ~KeychainPending' /\ ~MemoryPending'
      /\ Now' = Now /\ Memory' = accessQuestionsCount' /\ Keychain' = Keychain
      /\ Defaults' = Defaults /\ Lost' = Lost
  BY <1>1, <1>4 DEF Resetting, StampPending, KeychainPending, MemoryPending, Now, Memory, Keychain,
                    Defaults, Lost
<1>6. /\ \A d \in Days : InFlight(d)' = InFlight(d)
      /\ InFlight(Now)' = InFlight(Now) /\ timed'[Now'] = timed[Now] /\ (AskedNow' <=> AskedNow)
  BY <1>1, <1>5, SameQuestions
<1>7. /\ Reserve' = Reserve /\ Reserve \in {0, FreeRequests}
      /\ BeforeReset' = BeforeReset /\ BeforeResetNow' = BeforeReset /\ BeforeReset \in {0, FreeRequests}
      /\ (Due' <=> Due)
  BY <1>1, <1>4, <1>5 DEF Reserve, Open, BeforeReset, BeforeResetNow, Due, ResetStamp
<1>8. /\ timed[Now] \in Nat /\ faults \in Nat /\ Keychain \in Nat /\ Defaults \in Nat
      /\ Lost \in Nat /\ FreeRequests \in Nat /\ answers[today] \in Nat
      /\ accessQuestionsCount' \in Nat
  BY <1>2, <1>3 DEF Typed
<1>9. TypeOK'
  BY <1>1, <1>8 DEF TypeOK
<1>10. HandlerInv'
  BY <1>1, <1>4, <1>5 DEF Counters, HandlerInv
<1>11. CounterInv'
  BY <1>1, <1>3, <1>4, <1>5 DEF Counters, CounterInv
<1>12. StampInv' /\ FutureInv'
  BY <1>1, <1>4, <1>5 DEF Counters, StampInv, FutureInv
<1>13. TimedInv'
  <2>1. AskedNow => timed[Now] + Reserve <= Lost + Keychain
    BY <1>4 DEF Counters, TimedInv
  <2>2. AskedNow => timed[Now] + Reserve <= Lost + accessQuestionsCount'
    BY <1>3, <1>7, <1>8, <2>1
  <2> QED
    BY <1>1, <1>5, <1>6, <1>7, <2>1, <2>2 DEF Counters, TimedInv
<1>14. OneEach => OneEach'
  <2> SUFFICES ASSUME OneEach PROVE OneEach'
    OBVIOUS
  <2>1. timed[Now] <= faults + Defaults + 0
    BY <1>4 DEF OneEach
  <2>2. timed[Now] <= faults + accessQuestionsCount'
    BY <1>3, <1>8, <2>1
  <2> QED
    BY <1>1, <1>4, <1>5, <1>6, <1>7, <2>1, <2>2 DEF OneEach
<1>15. AnswersInv'
  <2>1. answers[today] <= Lost + BeforeReset + Keychain
    BY <1>4 DEF Counters, AnswersInv
  <2>2. answers[today] <= Lost + BeforeReset + accessQuestionsCount'
    BY <1>3, <1>7, <1>8, <2>1
  <2> QED
    BY <1>1, <1>5, <1>7, <2>1, <2>2 DEF Counters, AnswersInv
<1>16. TodayInv'
  BY <1>1, <1>3, <1>4, <1>5 DEF Counters, TodayInv
<1> QED
  BY <1>1, <1>9, <1>10, <1>11, <1>12, <1>13, <1>14, <1>15, <1>16 DEF Counters

(* Deleting the app leaves what the keychain says.                         *)
LEMMA ReinstallKeeps ==
  ASSUME TypeOK, Counters, Reinstall
  PROVE  TypeOK' /\ Counters'
<1>1. /\ ~running /\ count'["keychain"] = count["keychain"] /\ count'["defaults"] = 0
      /\ stamp'["keychain"] = stamp["keychain"] /\ stamp'["defaults"] = Nothing /\ reinstalled'
      /\ today' = today /\ running' = running /\ timeKnown' = timeKnown
      /\ accessQuestionsCount' = accessQuestionsCount /\ pc' = pc /\ newCount' = newCount
      /\ newStamp' = newStamp /\ asking' = asking /\ askedOn' = askedOn /\ answers' = answers
      /\ timed' = timed /\ faults' = faults
  BY DEF Reinstall, handler, TypeOK
<1>2. TypeOK'
  BY <1>1 DEF Reinstall, handler, TypeOK
<1>3. /\ (Resetting' <=> Resetting) /\ Now' = Now /\ Keychain' = Keychain
      /\ Defaults' = 0 /\ Lost' = Lost /\ (StampPending' <=> StampPending)
      /\ (KeychainPending' <=> KeychainPending) /\ (MemoryPending' <=> MemoryPending)
      /\ ~Resetting /\ 0 <= FreeRequests
  BY <1>1 DEF Resetting, Now, Keychain, Defaults, Lost, StampPending, KeychainPending,
              MemoryPending, Counters, HandlerInv
<1>4. Reserve' = Reserve /\ BeforeReset' = BeforeReset
  BY <1>1, <1>3 DEF Reserve, Open, BeforeReset
<1>5. /\ \A d \in Days : InFlight(d)' = InFlight(d)
      /\ InFlight(Now)' = InFlight(Now) /\ timed'[Now'] = timed[Now] /\ (AskedNow' <=> AskedNow)
  BY <1>1, <1>3, SameQuestions
<1>6. HandlerInv' /\ CounterInv' /\ StampInv' /\ FutureInv'
  BY <1>1, <1>3 DEF Counters, HandlerInv, CounterInv, StampInv, FutureInv
<1>7. TimedInv' /\ AnswersInv'
  BY <1>1, <1>3, <1>4, <1>5 DEF Counters, TimedInv, AnswersInv
<1>8. answers[today] \in Nat
  BY TypedState DEF Typed
<1>9. TodayInv'
  BY <1>1, <1>3, <1>8 DEF Counters, TodayInv
<1> QED
  BY <1>1, <1>2, <1>6, <1>7, <1>9 DEF Counters

(* A day passes: of the new one nothing is stamped, asked or answered yet. *)
LEMMA NextDayKeeps ==
  ASSUME TypeOK, Counters, NextDay
  PROVE  TypeOK' /\ Counters'
<1>1. /\ today < MaxDay /\ today' = today + 1 /\ asking' = asking /\ pc' = pc
      /\ newCount' = newCount /\ newStamp' = newStamp /\ askedOn' = askedOn
      /\ running' = running /\ timeKnown' = timeKnown
      /\ accessQuestionsCount' = accessQuestionsCount /\ count' = count /\ stamp' = stamp
      /\ answers' = answers /\ timed' = timed /\ faults' = faults /\ reinstalled' = reinstalled
  BY DEF NextDay, stored, handler, history
<1>2. Typed /\ today' \in Days /\ today' \in Nat /\ today < today'
  BY <1>1, TypedState DEF Typed
<1>3. /\ (Resetting' <=> Resetting) /\ Memory' = Memory /\ Keychain' = Keychain
      /\ Defaults' = Defaults /\ Lost' = Lost /\ (StampPending' <=> StampPending)
      /\ (KeychainPending' <=> KeychainPending) /\ (MemoryPending' <=> MemoryPending)
      /\ \A d \in Days : InFlight(d)' = InFlight(d)
  BY <1>1 DEF Resetting, Memory, Keychain, Defaults, Lost, StampPending, KeychainPending,
              MemoryPending, InFlight
<1>4. /\ Resetting => Now' = Now /\ Now <= today
      /\ ~Resetting => Now = today /\ Now' = today'
  BY <1>1, <1>2, <1>3 DEF Now, Counters, HandlerInv
<1>5. answers[today'] = 0 /\ timed[today'] = 0 /\ stamp["keychain"] # today' /\ askedOn # today'
  <2>1. Now < today' /\ askedOn <= Now
    BY <1>2, <1>4 DEF Typed, Counters, FutureInv
  <2> QED
    BY <1>2, <2>1 DEF Typed, Counters, FutureInv, StampInv
<1>6. /\ timed[Now] \in Nat /\ faults \in Nat /\ Keychain \in Nat /\ Defaults \in Nat
      /\ Lost \in Nat /\ FreeRequests \in Nat /\ Memory \in Nat
  BY <1>2 DEF Typed
<1>7. ~Resetting => timed'[Now'] = 0 /\ ~AskedNow'
  BY <1>1, <1>4, <1>5 DEF AskedNow, InFlight
<1>8. Resetting => /\ InFlight(Now)' = InFlight(Now) /\ timed'[Now'] = timed[Now]
                   /\ (AskedNow' <=> AskedNow) /\ Reserve' = Reserve
  BY <1>1, <1>3, <1>4, SameQuestions DEF Reserve, Open
<1>9. TypeOK'
  BY <1>1, <1>2 DEF TypeOK
<1>10. HandlerInv'
  BY <1>1, <1>2, <1>3 DEF Counters, HandlerInv, Typed, Resetting
<1>11. CounterInv'
  BY <1>1, <1>3 DEF Counters, CounterInv
<1>12. StampInv'
  BY <1>1, <1>2, <1>3 DEF Counters, StampInv, Typed
<1>13. FutureInv'
  BY <1>1, <1>2, <1>4 DEF Counters, FutureInv, Typed
<1>14. TimedInv'
  BY <1>1, <1>3, <1>7, <1>8 DEF Counters, TimedInv
<1>15. OneEach => OneEach'
  <2> SUFFICES ASSUME OneEach PROVE OneEach'
    OBVIOUS
  <2>1. CASE Resetting
    BY <1>1, <1>3, <1>8, <2>1 DEF OneEach
  <2>2. CASE ~Resetting
    <3>1. 0 <= faults + Memory
          /\ 0 <= faults + Defaults + (IF pc # "idle" /\ ~Resetting THEN 1 ELSE 0)
      BY <1>6
    <3> QED
      BY <1>1, <1>3, <1>7, <2>2, <3>1 DEF OneEach
  <2> QED
    BY <2>1, <2>2
<1>16. AnswersInv'
  <2>1. BeforeReset' = 0 /\ BeforeResetNow' \in {0, FreeRequests}
    BY <1>1, <1>5 DEF BeforeReset, BeforeResetNow
  <2>2. 0 <= Lost + BeforeResetNow' + Memory /\ 0 <= Lost + BeforeReset' + Keychain
    <3>1. CASE BeforeResetNow' = 0
      BY <1>6, <2>1, <3>1
    <3>2. CASE BeforeResetNow' = FreeRequests
      BY <1>6, <2>1, <3>2
    <3> QED
      BY <2>1, <3>1, <3>2
  <2> QED
    BY <1>1, <1>3, <1>5, <2>2 DEF Counters, AnswersInv
<1>17. TodayInv'
  BY <1>1, <1>5 DEF TodayInv
<1> QED
  BY <1>1, <1>9, <1>10, <1>11, <1>12, <1>13, <1>14, <1>15, <1>16, <1>17 DEF Counters

(* The process ends.  Inside a handler that is a fault, and pays for what  *)
(* the handler has not written.                                            *)
LEMMA StopKeeps ==
  ASSUME TypeOK, Counters, Stop
  PROVE  TypeOK' /\ Counters'
<1> DEFINE over == pc \in {"idle", "read"}
<1>1. /\ running /\ ~running' /\ ~timeKnown' /\ pc' = "idle" /\ newCount' = 0
      /\ newStamp' = Nothing /\ asking' = "none"
      /\ faults' = (IF over THEN faults ELSE faults + 1) /\ faults' <= MaxFaults
      /\ today' = today /\ accessQuestionsCount' = accessQuestionsCount /\ count' = count
      /\ stamp' = stamp /\ askedOn' = askedOn /\ answers' = answers /\ timed' = timed
      /\ reinstalled' = reinstalled
  BY DEF Stop, stored
<1>2. Typed
  BY TypedState
<1>3. TypeOK'
  <2>1. faults' \in 0 .. MaxFaults
    BY <1>1, <1>2 DEF Typed
  <2>2. running' = FALSE /\ timeKnown' = FALSE
    BY DEF Stop
  <2> QED
    BY <1>1, <2>1, <2>2 DEF TypeOK, Steps
<1>4. /\ Keychain' = Keychain /\ Defaults' = Defaults /\ Memory <= FreeRequests
      /\ ~StampPending' /\ ~KeychainPending' /\ ~MemoryPending'
      /\ over => ~KeychainPending /\ ~StampPending
      /\ StampPending => Memory = 0
  BY <1>1 DEF Memory, Keychain, Defaults, StampPending, KeychainPending, MemoryPending,
              Counters, HandlerInv, CounterInv
<1>5. Lost' = (IF over THEN Lost ELSE Lost + FreeRequests)
  BY <1>1, LostGrows
<1>6. /\ ~Resetting' /\ Now' = today /\ Now <= today
      /\ today # Now => Resetting /\ timed[today] = 0 /\ answers[today] = 0 /\ ~AskedNow'
  BY <1>1, <1>2, TodayAgain DEF Counters, FutureInv, Typed
<1>7. /\ \A d \in Days : InFlight(d)' = 0
      /\ InFlight(Now)' = 0
      /\ AskedNow' => AskedNow /\ today = Now
  BY <1>1, <1>6 DEF InFlight, AskedNow
<1>8. /\ Reserve \in {0, FreeRequests} /\ Reserve' \in {0, FreeRequests}
      /\ today = Now /\ ~StampPending => Reserve' = Reserve
  BY <1>1, <1>4, <1>6 DEF Reserve, Open
<1>9. /\ BeforeReset' = BeforeReset /\ BeforeReset \in {0, FreeRequests} /\ (Due' <=> Due)
      /\ StampPending => BeforeResetNow = FreeRequests
      /\ ~StampPending => BeforeResetNow = BeforeReset
  BY <1>1 DEF BeforeReset, BeforeResetNow, Due, ResetStamp
<1>10. /\ timed[Now] \in Nat /\ faults \in Nat /\ Keychain \in Nat /\ Defaults \in Nat
       /\ Lost \in Nat /\ FreeRequests \in Nat /\ Memory \in Nat /\ answers[today] \in Nat
       /\ InFlight(Now) \in {0, 1}
       /\ \A d \in Days : answers[d] \in Nat /\ timed[d] \in Nat /\ InFlight(d) \in {0, 1}
  BY <1>2 DEF Typed
<1>11. HandlerInv'
  BY <1>1, <1>6 DEF HandlerInv
<1>12. CounterInv'
  BY <1>1, <1>4 DEF Counters, CounterInv
<1>13. StampInv'
  <2>1. over => ~StampPending
    BY <1>4
  <2>2. stamp["keychain"] = Nothing /\ stamp["defaults"] # Nothing => faults' >= 1
    <3>1. CASE over /\ Resetting
      BY <1>1, <2>1, <3>1 DEF Counters, StampInv, Resetting
    <3>2. CASE over /\ ~Resetting
      BY <1>1, <2>1, <3>2 DEF Counters, StampInv
    <3>3. CASE ~over
      BY <1>1, <1>10, <3>3
    <3> QED
      BY <3>1, <3>2, <3>3
  <2> QED
    BY <1>1, <1>6, <2>2 DEF Counters, StampInv
<1>14. FutureInv'
  BY <1>1, <1>2, <1>6 DEF Counters, FutureInv, Typed
<1>15. TimedInv'
  <2>1. AskedNow' => timed[Now] + Reserve' <= Lost' + Keychain
    <3> SUFFICES ASSUME AskedNow' PROVE timed[Now] + Reserve' <= Lost' + Keychain
      OBVIOUS
    <3>1. AskedNow /\ today = Now
      BY <1>7
    <3>2. timed[Now] + Reserve <= Lost + Memory
      BY <1>1, <3>1 DEF Counters, TimedInv
    <3>3. CASE over
      <4>1. timed[Now] + Reserve <= Lost + Keychain
        BY <1>4, <3>1, <3>3 DEF Counters, TimedInv
      <4> QED
        BY <1>4, <1>5, <1>8, <3>1, <3>3, <4>1
    <3>4. CASE ~over /\ StampPending
      BY <1>4, <1>5, <1>8, <1>10, <3>2, <3>4
    <3>5. CASE ~over /\ ~StampPending
      BY <1>4, <1>5, <1>8, <1>10, <3>1, <3>2, <3>5
    <3> QED
      BY <3>3, <3>4, <3>5
  <2>2. AskedNow' => timed'[Now'] + Reserve' <= Lost' + Keychain
    BY <1>1, <1>6, <1>7, <2>1
  <2>3. ASSUME NEW d \in Days PROVE timed[d] + 0 <= FreeRequests + Lost'
    <3>1. timed[d] + InFlight(d) <= FreeRequests + Lost
      BY DEF Counters, TimedInv
    <3> QED
      BY <1>5, <1>10, <3>1
  <2> QED
    BY <1>1, <1>4, <1>7, <2>2, <2>3 DEF TimedInv
<1>16. OneEach => OneEach'
  <2> SUFFICES ASSUME OneEach PROVE OneEach'
    OBVIOUS
  <2>1. faults <= faults' /\ faults' \in Nat
    BY <1>1, <1>10
  <2>2. AskedNow' /\ Due => timed'[Now'] + 0 <= faults'
    <3> SUFFICES ASSUME AskedNow', Due PROVE timed[Now] <= faults'
      BY <1>1, <1>6, <1>7, <1>10
    <3>1. timed[Now] + InFlight(Now) <= faults
      BY <1>7 DEF OneEach
    <3> QED
      BY <1>10, <2>1, <3>1
  <2>3. timed'[Now'] <= faults' + Defaults + 0
    <3>1. CASE today = Now
      <4>1. timed[Now] <= faults + Defaults + (IF pc # "idle" /\ ~Resetting THEN 1 ELSE 0)
        BY DEF OneEach
      <4>2. pc # "idle" /\ ~Resetting => ~over
        BY DEF Counters, HandlerInv
      <4>3. timed[Now] <= faults' + Defaults + 0
        BY <1>1, <1>10, <4>1, <4>2
      <4> QED
        BY <1>1, <1>6, <3>1, <4>3
    <3>2. CASE today # Now
      BY <1>1, <1>6, <1>10, <2>1, <3>2
    <3> QED
      BY <3>1, <3>2
  <2>4. ASSUME NEW d \in Days PROVE timed[d] + 0 <= FreeRequests + faults'
    <3>1. timed[d] + InFlight(d) <= FreeRequests + faults
      BY DEF OneEach
    <3> QED
      BY <1>10, <2>1, <3>1
  <2> QED
    BY <1>1, <1>4, <1>6, <1>7, <1>9, <2>2, <2>3, <2>4 DEF OneEach
<1>17. AnswersInv'
  <2>1. answers[today] <= Lost + BeforeResetNow + Memory
    BY <1>1 DEF Counters, AnswersInv
  <2>2. answers[today] <= Lost' + BeforeReset + Keychain
    <3>1. CASE over
      BY <1>4, <1>5, <3>1 DEF Counters, AnswersInv
    <3>2. CASE ~over /\ StampPending
      BY <1>4, <1>5, <1>9, <1>10, <2>1, <3>2
    <3>3. CASE ~over /\ ~StampPending
      BY <1>4, <1>5, <1>9, <1>10, <2>1, <3>3
    <3> QED
      BY <3>1, <3>2, <3>3
  <2>3. ASSUME NEW d \in Days PROVE answers[d] <= FreeRequests + FreeRequests + Lost'
    <3>1. answers[d] <= FreeRequests + FreeRequests + Lost
      BY DEF Counters, AnswersInv
    <3> QED
      BY <1>5, <1>10, <3>1
  <2> QED
    BY <1>1, <1>4, <1>9, <2>2, <2>3 DEF AnswersInv
<1>18. TodayInv'
  BY <1>1, <1>4, <1>10 DEF Counters, TodayInv
<1> QED
  BY <1>1, <1>3, <1>11, <1>12, <1>13, <1>14, <1>15, <1>16, <1>17, <1>18 DEF Counters

-----------------------------------------------------------------------------
(* Before the first launch nothing is stored, asked or answered.           *)
LEMMA InitQuota == Init => QuotaInv
<1> SUFFICES ASSUME Init PROVE QuotaInv
  OBVIOUS
<1>1. TypeOK
  <2>1. count \in [Copies -> Nat \cup {Nothing}] /\ count["defaults"] # Nothing
    BY DEF Init
  <2>2. /\ stamp \in [Copies -> Days \cup {Nothing}] /\ today \in Days /\ askedOn \in Days
        /\ answers \in [Days -> Nat] /\ timed \in [Days -> Nat] /\ faults \in 0 .. MaxFaults
    BY DEF Init
  <2> QED
    BY <2>1, <2>2 DEF Init, TypeOK, Steps
<1>2. Typed
  BY <1>1, TypedState
<1>3. /\ today = 0 /\ running = FALSE /\ accessQuestionsCount = 0 /\ pc = "idle" /\ newCount = 0
      /\ newStamp = Nothing /\ asking = "none" /\ askedOn = 0 /\ faults = 0
      /\ \A c \in Copies : stamp[c] = Nothing
      /\ \A d \in Days : answers[d] = 0 /\ timed[d] = 0
  BY DEF Init
<1>4. /\ ~Resetting /\ Now = 0 /\ Keychain = 0 /\ Defaults = 0 /\ Lost = 0 /\ Memory = 0
      /\ ~StampPending /\ \A d \in Days : InFlight(d) = 0
  <2>1. Lost = 0
    BY <1>3, LostPackages DEF Lost
  <2> QED
    BY <1>3, <2>1 DEF Init, Resetting, Now, Keychain, Defaults, Memory, MemoryPending, StampPending,
                      InFlight
<1>5. ~AskedNow /\ timed[Now] = 0 /\ answers[today] = 0
  BY <1>2, <1>3, <1>4 DEF AskedNow, Typed
<1>6. HandlerInv /\ CounterInv /\ StampInv /\ FutureInv
  BY <1>3, <1>4 DEF HandlerInv, CounterInv, StampInv, FutureInv
<1>7. TimedInv
  BY <1>3, <1>4, <1>5 DEF TimedInv
<1>8. OneEach
  BY <1>3, <1>4, <1>5 DEF OneEach
<1>9. AnswersInv
  <2>1. BeforeReset = 0
    BY <1>2, <1>3 DEF BeforeReset, Typed
  <2> QED
    BY <1>3, <1>4, <1>5, <2>1 DEF AnswersInv
<1>10. TodayInv
  BY <1>2, <1>3 DEF TodayInv, Typed
<1> QED
  BY <1>1, <1>6, <1>7, <1>8, <1>9, <1>10 DEF QuotaInv, Counters

(* Every step keeps the invariant.                                         *)
LEMMA NextQuota == QuotaInv /\ [Next]_vars => QuotaInv'
<1> SUFFICES ASSUME TypeOK, Counters, [Next]_vars PROVE TypeOK' /\ Counters'
  BY DEF QuotaInv
<1>1. CASE Launch
  BY <1>1, LaunchKeeps
<1>2. CASE LearnTime
  <2>1. TypeOK'
    BY <1>2 DEF LearnTime, stored, handler, history, TypeOK
  <2> QED
    BY <1>2, <2>1, CountersLeft DEF LearnTime, stored, handler, history
<1>3. CASE ReadCountResets
  BY <1>3, ResetKeeps
<1>4. CASE Ask
  BY <1>4, AskKeeps
<1>5. CASE AnswerArrives
  BY <1>5, AnswerKeeps
<1>6. CASE AnswerFails
  <2>1. TypeOK'
    BY <1>6 DEF AnswerFails, stored, handler, history, TypeOK
  <2> QED
    BY <1>6, <2>1, CountersLeft DEF AnswerFails, stored, handler, history
<1>7. CASE DeleteStamp
  BY <1>7, DeleteStampKeeps
<1>8. CASE AddStamp
  BY <1>8, AddStampKeeps
<1>9. CASE StoreStamp
  BY <1>9, StoreStampKeeps
<1>10. CASE SetMemory
  BY <1>10, SetMemoryKeeps
<1>11. CASE DeleteCount
  BY <1>11, DeleteCountKeeps
<1>12. CASE AddCount
  BY <1>12, AddCountKeeps
<1>13. CASE StoreCount
  BY <1>13, StoreCountKeeps
<1>14. CASE ReadReturns
  BY <1>14, ReadReturnsKeeps
<1>15. CASE SetFails
  BY <1>15, SetFailsKeeps
<1>16. CASE Stop
  BY <1>16, StopKeeps
<1>17. CASE Reinstall
  BY <1>17, ReinstallKeeps
<1>18. CASE NextDay
  BY <1>18, NextDayKeeps
<1>19. CASE UNCHANGED vars
  <2>1. TypeOK'
    BY <1>19 DEF vars, stored, handler, history, TypeOK
  <2> QED
    BY <1>19, <2>1, CountersLeft DEF vars, stored, handler, history
<1> QED
  BY <1>1, <1>2, <1>3, <1>4, <1>5, <1>6, <1>7, <1>8, <1>9, <1>10, <1>11, <1>12, <1>13, <1>14,
     <1>15, <1>16, <1>17, <1>18, <1>19 DEF Next

-----------------------------------------------------------------------------
(* The inductive invariant of the counter that getAccessQuestionsCount and *)
(* questionsCountIncrement keep in memory, keychain and defaults.          *)
THEOREM QuotaInvariant == Spec => []QuotaInv
  BY InitQuota, NextQuota, PTL DEF Spec

(* The counter, its copies, its stamps and the state of the handlers keep  *)
(* their types, for every package and every number of days.                *)
THEOREM TypeCorrect == Spec => []TypeOK
<1>1. QuotaInv => TypeOK
  BY DEF QuotaInv
<1> QED
  BY <1>1, QuotaInvariant, PTL

(* No day brings more answers to questions asked with the time known than  *)
(* the free package of LocalStorage holds, nor more than two packages in   *)
(* all, whatever the user does with restarts, new installations and        *)
(* midnights.  A failed KeychainSwift.set or a death inside a handler adds *)
(* one such answer while the app was never reinstalled, and at most a      *)
(* package in any case.                                                    *)
THEOREM PackageHolds == Spec => []DailyPackage
<1>1. QuotaInv => DailyPackage
  <2> SUFFICES ASSUME TypeOK, Counters, NEW d \in Days
               PROVE  /\ timed[d] <= FreeRequests
                                     + (IF reinstalled THEN FreeRequests * faults ELSE faults)
                      /\ answers[d] <= FreeRequests * (2 + faults)
    BY DEF QuotaInv, DailyPackage
  <2>1. timed[d] \in Nat /\ InFlight(d) \in {0, 1} /\ Lost \in Nat /\ faults \in Nat
    BY TypedState DEF Typed
  <2>2. timed[d] <= FreeRequests + Lost
    <3>1. timed[d] + InFlight(d) <= FreeRequests + Lost
      BY DEF Counters, TimedInv
    <3> QED
      BY <2>1, <3>1
  <2>3. ~reinstalled => timed[d] <= FreeRequests + faults
    <3>1. ~reinstalled => timed[d] + InFlight(d) <= FreeRequests + faults
      BY DEF Counters, OneEach
    <3> QED
      BY <2>1, <3>1
  <2>4. answers[d] <= FreeRequests * (2 + faults)
    BY LostGrows DEF Counters, AnswersInv
  <2> QED
    BY <2>2, <2>3, <2>4 DEF Lost
<1> QED
  BY <1>1, QuotaInvariant, PTL

(* Without such a fault no answer of an earlier day is counted against     *)
(* today's package, once getAccessQuestionsCount has seen the time and     *)
(* while the last reset is less than a month old.                          *)
THEOREM TodayHolds == Spec => []CountsToday
<1>1. QuotaInv => CountsToday
  <2> SUFFICES ASSUME TypeOK, Counters, faults = 0, Idle, timeKnown, ~ResetDue,
                      today - ResetStamp < MonthLength
               PROVE  accessQuestionsCount <= answers[today]
    BY DEF QuotaInv, CountsToday
  <2>1. Typed
    BY TypedState
  <2>2. running /\ ~Resetting /\ ~MemoryPending
    BY DEF Idle, Counters, HandlerInv, MemoryPending
  <2>3. ResetStamp = stamp["keychain"] /\ DayOfMonth(stamp["keychain"]) = DayOfMonth(today)
    BY <2>2 DEF ResetDue, ResetStamp, Counters, StampInv
  <2>4. stamp["keychain"] # Nothing
    BY <2>1, <2>3, StampedDay DEF Typed
  <2>5. /\ stamp["keychain"] \in Nat /\ stamp["keychain"] <= today
        /\ today \in Nat /\ today # Nothing
    BY <2>1, <2>4 DEF Counters, StampInv, Typed
  <2>6. stamp["keychain"] % MonthLength = today % MonthLength
    BY <2>3, <2>4, <2>5 DEF DayOfMonth
  <2>7. stamp["keychain"] = today
    BY <2>3, <2>5, <2>6, SameDay
  <2> QED
    BY <2>2, <2>7 DEF Counters, TodayInv
<1> QED
  BY <1>1, QuotaInvariant, PTL
=============================================================================
