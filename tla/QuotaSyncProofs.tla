--------------------------- MODULE QuotaSyncProofs ---------------------------
(***************************************************************************)
(* The question counter for any number of devices, any package and any     *)
(* number of days.                                                         *)
(***************************************************************************)
EXTENDS QuotaSync, TLAPS

Stamp(d) == keychain[d].resetQuestionCounterTimestamp

(* The keychain never brings a stamp from the future, and once some device *)
(* has today's stamp, whoever has the last written stamp has today's too:  *)
(* no device is made to reset twice in a day.                              *)
StampsInv ==
  /\ \A d \in Devices : Stamp(d) \in Nat => Stamp(d) <= today
  /\ \A d \in Devices, e \in Devices :
       /\ Stamp(d) = today
       /\ "resetQuestionCounterTimestamp" \in synced[e]
       => Stamp(e) = today

(* A device that is off asks nothing; one that is on counts at least what  *)
(* it has stored, and asked below the limit.                               *)
CounterInv ==
  \A d \in Devices :
    /\ running[d] => defaults[d] <= accessQuestionsCount[d]
    /\ asking[d] => running[d] /\ accessQuestionsCount[d] < FreeRequests

(* Before the reset of the day only the question asked the day before can  *)
(* be answered; after it the stored counter is at most that one behind.    *)
TodayInv ==
  \A d \in Devices :
    /\ Stamp(d) # today => answers[d][today] <= IF asking[d] THEN 0 ELSE 1
    /\ Stamp(d) = today => answers[d][today] <= defaults[d] + 1

(* Nothing was answered on the days to come.                               *)
FutureInv ==
  \A d \in Devices, n \in Days : n > today => answers[d][n] = 0

PackageInv == StampsInv /\ CounterInv /\ TodayInv /\ FutureInv /\ PackagePerDevice

USE QuotaSyncAssumption DEF Days, Items

(* _getStoredAccessQuestionsCount returns one of the copies, the larger.   *)
LEMMA MaxOfTwo ==
  ASSUME NEW a \in Nat, NEW b \in Nat
  PROVE  Max({a, b}) \in Nat /\ a <= Max({a, b}) /\ b <= Max({a, b})
<1>1. \E x \in {a, b} : \A y \in {a, b} : x >= y
  OBVIOUS
<1>2. Max({a, b}) \in {a, b} /\ \A y \in {a, b} : Max({a, b}) >= y
  BY <1>1 DEF Max
<1> QED
  BY <1>2

(* What a keychain holds.                                                  *)
LEMMA KeychainTyped ==
  ASSUME TypeOK, NEW d \in Devices
  PROVE  /\ keychain[d] \in Keychain
         /\ keychain[d].accessQuestionsCount \in Nat
         /\ Stamp(d) \in Days \cup {NoStamp}
         /\ keychain[d]["accessQuestionsCount"] \in Nat
         /\ keychain[d]["resetQuestionCounterTimestamp"] \in Days \cup {NoStamp}
<1>1. keychain[d] \in Keychain
  BY DEF TypeOK
<1> QED
  BY <1>1 DEF Keychain, Stamp

(* The keychain copy after iCloud has brought one item.                    *)
LEMMA SyncedItem ==
  ASSUME NEW k \in Keychain, NEW l \in Keychain, NEW item \in Items
  PROVE  [k EXCEPT ![item] = l[item]] \in Keychain
<1>1. CASE item = "accessQuestionsCount"
  BY <1>1 DEF Keychain
<1>2. CASE item = "resetQuestionCounterTimestamp"
  BY <1>2 DEF Keychain
<1> QED
  BY <1>1, <1>2

-----------------------------------------------------------------------------
(* Counters, copies and stamps keep their types on every device, whichever *)
(* order iCloud brings the items in.                                       *)
THEOREM TypeCorrect == Spec => []TypeOK
<1>1. Init => TypeOK
  <2> SUFFICES ASSUME Init PROVE TypeOK
    OBVIOUS
  <2>1. [accessQuestionsCount |-> 0, resetQuestionCounterTimestamp |-> NoStamp] \in Keychain
    BY DEF Keychain
  <2> QED
    BY <2>1 DEF Init, TypeOK
<1>2. TypeOK /\ [Next]_vars => TypeOK'
  <2> SUFFICES ASSUME TypeOK, [Next]_vars PROVE TypeOK'
    OBVIOUS
  <2>1. ASSUME NEW d \in Devices, Launch(d) PROVE TypeOK'
    <3>1. StoredCount(d) \in Nat
      BY KeychainTyped, MaxOfTwo DEF StoredCount, TypeOK
    <3> QED
      BY <2>1, <3>1 DEF Launch, TypeOK
  <2>2. ASSUME NEW d \in Devices, Stop(d) PROVE TypeOK'
    BY <2>2 DEF Stop, TypeOK
  <2>3. ASSUME NEW d \in Devices, ReadCountResets(d) PROVE TypeOK'
    <3>1. [accessQuestionsCount |-> 0, resetQuestionCounterTimestamp |-> today] \in Keychain
      BY DEF Keychain, TypeOK
    <3> QED
      BY <2>3, <3>1 DEF ReadCountResets, Written, TypeOK
  <2>4. ASSUME NEW d \in Devices, Ask(d) PROVE TypeOK'
    BY <2>4 DEF Ask, TypeOK
  <2>5. ASSUME NEW d \in Devices, AnswerArrives(d) PROVE TypeOK'
    <3> DEFINE n == accessQuestionsCount[d] + 1
    <3>1. n \in Nat
      BY DEF TypeOK
    <3> HIDE DEF n
    <3>2. [keychain[d] EXCEPT !.accessQuestionsCount = n] \in Keychain
      BY <3>1, KeychainTyped DEF Keychain
    <3>3. keychain' \in [Devices -> Keychain]
      BY <2>5, <3>2 DEF AnswerArrives, TypeOK, n
    <3>4. answers' \in [Devices -> [Days -> Nat]]
      <4>1. today \in Days /\ answers \in [Devices -> [Days -> Nat]] /\ answers[d] \in [Days -> Nat]
        BY DEF TypeOK
      <4>2. [answers[d] EXCEPT ![today] = answers[d][today] + 1] \in [Days -> Nat]
        BY <4>1
      <4>3. answers' = [answers EXCEPT ![d] = [answers[d] EXCEPT ![today] = answers[d][today] + 1]]
        BY <2>5, <4>1 DEF AnswerArrives
      <4> QED
        BY <4>1, <4>2, <4>3
    <3>5. synced' \in [Devices -> SUBSET Items]
      BY <2>5 DEF AnswerArrives, Written, TypeOK
    <3> QED
      BY <2>5, <3>1, <3>3, <3>4, <3>5 DEF AnswerArrives, TypeOK, n
  <2>6. ASSUME NEW d \in Devices, AnswerFails(d) PROVE TypeOK'
    BY <2>6 DEF AnswerFails, TypeOK
  <2>7. ASSUME NEW d \in Devices, NEW item \in Items, Sync(d, item) PROVE TypeOK'
    <3>1. PICK e \in Devices : keychain' = [keychain EXCEPT ![d][item] = keychain[e][item]]
      BY <2>7 DEF Sync
    <3>2. [keychain[d] EXCEPT ![item] = keychain[e][item]] \in Keychain
      BY KeychainTyped, SyncedItem
    <3>3. keychain' \in [Devices -> Keychain]
      BY <3>1, <3>2 DEF TypeOK
    <3> QED
      BY <2>7, <3>3 DEF Sync, TypeOK
  <2>8. CASE NextDay
    BY <2>8 DEF NextDay, TypeOK
  <2>9. CASE UNCHANGED vars
    BY <2>9 DEF vars, TypeOK
  <2> QED
    BY <2>1, <2>2, <2>3, <2>4, <2>5, <2>6, <2>7, <2>8, <2>9 DEF Next
<1> QED
  BY <1>1, <1>2, PTL DEF Spec

-----------------------------------------------------------------------------
(* What the steps need of the types.                                       *)
Typed ==
  /\ today \in Nat /\ today \in Days
  /\ \A d \in Devices :
       /\ running[d] \in BOOLEAN /\ asking[d] \in BOOLEAN
       /\ accessQuestionsCount[d] \in Nat /\ defaults[d] \in Nat
       /\ Stamp(d) \in Nat \cup {NoStamp}
       /\ \A n \in Days : answers[d][n] \in Nat

(* TypeOK says so.                                                         *)
LEMMA TypedDevices == TypeOK => Typed
<1> SUFFICES ASSUME TypeOK PROVE Typed
  OBVIOUS
<1>1. ASSUME NEW d \in Devices
      PROVE  /\ running[d] \in BOOLEAN /\ asking[d] \in BOOLEAN
             /\ accessQuestionsCount[d] \in Nat /\ defaults[d] \in Nat
             /\ Stamp(d) \in Nat \cup {NoStamp}
             /\ \A n \in Days : answers[d][n] \in Nat
  <2>1. Stamp(d) \in Nat \cup {NoStamp}
    BY KeychainTyped
  <2> QED
    BY <2>1 DEF TypeOK
<1> QED
  BY <1>1 DEF TypeOK, Typed

(* The invariant survives a step that leaves the day, the stamps, the      *)
(* stored counters and the answers alone.                                  *)
LEMMA CountersOnly ==
  ASSUME TypeOK, PackageInv, CounterInv', UNCHANGED <<today, defaults, keychain, synced, answers>>,
         \A e \in Devices : asking'[e] => asking[e] \/ Stamp(e) = today
  PROVE  PackageInv'
<1>1. \A e \in Devices : Stamp(e)' = Stamp(e)
  BY DEF Stamp
<1>2. StampsInv'
  BY <1>1 DEF PackageInv, StampsInv
<1>3. TodayInv'
  <2> SUFFICES ASSUME NEW e \in Devices
               PROVE  /\ Stamp(e) # today => answers[e][today] <= IF asking'[e] THEN 0 ELSE 1
                      /\ Stamp(e) = today => answers[e][today] <= defaults[e] + 1
    BY <1>1 DEF TodayInv
  <2>1. /\ Stamp(e) # today => answers[e][today] <= IF asking[e] THEN 0 ELSE 1
        /\ Stamp(e) = today => answers[e][today] <= defaults[e] + 1
    BY DEF PackageInv, TodayInv
  <2>2. answers[e][today] \in Nat
    BY TypedDevices DEF Typed
  <2> QED
    BY <2>1, <2>2
<1> QED
  BY <1>2, <1>3 DEF PackageInv, FutureInv, PackagePerDevice

(* A launch takes over at least what the defaults have.                    *)
LEMMA LaunchKeeps ==
  ASSUME TypeOK, PackageInv, NEW d \in Devices, Launch(d)
  PROVE  PackageInv'
<1>1. StoredCount(d) \in Nat /\ defaults[d] <= StoredCount(d) /\ ~asking[d]
  BY KeychainTyped, MaxOfTwo DEF StoredCount, TypeOK, Launch, PackageInv, CounterInv
<1>2. CounterInv'
  <2> SUFFICES ASSUME NEW e \in Devices
               PROVE  /\ running'[e] => defaults'[e] <= accessQuestionsCount'[e]
                      /\ asking'[e] => running'[e] /\ accessQuestionsCount'[e] < FreeRequests
    BY DEF CounterInv
  <2>1. CASE e = d
    BY <1>1, <2>1 DEF Launch, TypeOK
  <2>2. CASE e # d
    BY <2>2 DEF Launch, TypeOK, PackageInv, CounterInv
  <2> QED
    BY <2>1, <2>2
<1> QED
  BY <1>2, CountersOnly DEF Launch

(* A stop takes the question in flight with it.                            *)
LEMMA StopKeeps ==
  ASSUME TypeOK, PackageInv, NEW d \in Devices, Stop(d)
  PROVE  PackageInv'
<1>1. CounterInv'
  BY DEF Stop, TypeOK, PackageInv, CounterInv
<1>2. \A e \in Devices : asking'[e] => asking[e]
  BY DEF Stop, TypeOK
<1> QED
  BY <1>1, <1>2, CountersOnly DEF Stop

(* A question passes only below the limit and after the day's reset.       *)
LEMMA AskKeeps ==
  ASSUME TypeOK, PackageInv, NEW d \in Devices, Ask(d)
  PROVE  PackageInv'
<1>1. CounterInv'
  BY DEF Ask, TypeOK, PackageInv, CounterInv
<1>2. \A e \in Devices : asking'[e] => asking[e] \/ Stamp(e) = today
  BY DEF Ask, TypeOK, ResetDue, Stamp
<1> QED
  BY <1>1, <1>2, CountersOnly DEF Ask

(* A failed answer only ends the question.                                 *)
LEMMA AnswerFailsKeeps ==
  ASSUME TypeOK, PackageInv, NEW d \in Devices, AnswerFails(d)
  PROVE  PackageInv'
<1>1. CounterInv'
  BY DEF AnswerFails, TypeOK, PackageInv, CounterInv
<1>2. \A e \in Devices : asking'[e] => asking[e]
  BY DEF AnswerFails, TypeOK
<1> QED
  BY <1>1, <1>2, CountersOnly DEF AnswerFails

(* The reset of the day forgets at most the answer that came before it.    *)
LEMMA ReadCountResetsKeeps ==
  ASSUME TypeOK, PackageInv, NEW d \in Devices, ReadCountResets(d)
  PROVE  PackageInv'
<1>1. /\ today' = today /\ answers' = answers /\ running' = running /\ asking' = asking
      /\ accessQuestionsCount'[d] = 0 /\ defaults'[d] = 0
      /\ Stamp(d) # today /\ Stamp(d)' = today
      /\ \A e \in Devices : e # d =>
           /\ accessQuestionsCount'[e] = accessQuestionsCount[e] /\ defaults'[e] = defaults[e]
           /\ Stamp(e)' = Stamp(e)
           /\ "resetQuestionCounterTimestamp" \notin synced'[e]
  BY DEF ReadCountResets, ResetDue, Written, Stamp, TypeOK
<1>2. Typed
  BY TypedDevices
<1>3. StampsInv'
  BY <1>1, <1>2 DEF PackageInv, StampsInv, Typed
<1>4. CounterInv'
  <2> SUFFICES ASSUME NEW e \in Devices
               PROVE  /\ running[e] => defaults'[e] <= accessQuestionsCount'[e]
                      /\ asking[e] => running[e] /\ accessQuestionsCount'[e] < FreeRequests
    BY <1>1 DEF CounterInv
  <2>1. /\ running[e] => defaults[e] <= accessQuestionsCount[e]
        /\ asking[e] => running[e] /\ accessQuestionsCount[e] < FreeRequests
    BY DEF PackageInv, CounterInv
  <2>2. accessQuestionsCount[e] \in Nat
    BY <1>2 DEF Typed
  <2>3. CASE e = d
    BY <1>1, <2>1, <2>2, <2>3
  <2>4. CASE e # d
    BY <1>1, <2>1, <2>4
  <2> QED
    BY <2>3, <2>4
<1>5. TodayInv'
  <2> SUFFICES ASSUME NEW e \in Devices
               PROVE  /\ Stamp(e)' # today => answers[e][today] <= IF asking[e] THEN 0 ELSE 1
                      /\ Stamp(e)' = today => answers[e][today] <= defaults'[e] + 1
    BY <1>1 DEF TodayInv
  <2>1. /\ Stamp(e) # today => answers[e][today] <= IF asking[e] THEN 0 ELSE 1
        /\ Stamp(e) = today => answers[e][today] <= defaults[e] + 1
    BY DEF PackageInv, TodayInv
  <2>2. answers[e][today] \in Nat
    BY <1>2 DEF Typed
  <2>3. CASE e = d
    BY <1>1, <2>1, <2>2, <2>3
  <2>4. CASE e # d
    BY <1>1, <2>1, <2>4
  <2> QED
    BY <2>3, <2>4
<1> QED
  BY <1>1, <1>3, <1>4, <1>5 DEF PackageInv, FutureInv, PackagePerDevice

(* An answer is counted, and stored, before the next question.             *)
LEMMA AnswerArrivesKeeps ==
  ASSUME TypeOK, PackageInv, NEW d \in Devices, AnswerArrives(d)
  PROVE  PackageInv'
<1>1. /\ today' = today /\ running' = running /\ asking[d] /\ ~asking'[d]
      /\ accessQuestionsCount'[d] = accessQuestionsCount[d] + 1
      /\ defaults'[d] = accessQuestionsCount[d] + 1
      /\ answers'[d][today] = answers[d][today] + 1
      /\ \A n \in Days : n # today => answers'[d][n] = answers[d][n]
      /\ \A e \in Devices : e # d =>
           /\ accessQuestionsCount'[e] = accessQuestionsCount[e] /\ defaults'[e] = defaults[e]
           /\ asking'[e] = asking[e] /\ answers'[e] = answers[e]
  BY DEF AnswerArrives, TypeOK
<1>2. \A e \in Devices :
        /\ Stamp(e)' = Stamp(e)
        /\ "resetQuestionCounterTimestamp" \in synced'[e]
             => "resetQuestionCounterTimestamp" \in synced[e]
  BY KeychainTyped DEF AnswerArrives, Written, TypeOK, Stamp, Keychain
<1>3. Typed
  BY TypedDevices
<1>4. StampsInv'
  BY <1>1, <1>2 DEF PackageInv, StampsInv
<1>5. /\ running[d] /\ accessQuestionsCount[d] < FreeRequests
      /\ defaults[d] <= accessQuestionsCount[d]
      /\ Stamp(d) # today => answers[d][today] <= 0
      /\ Stamp(d) = today => answers[d][today] <= defaults[d] + 1
  BY <1>1 DEF PackageInv, CounterInv, TodayInv
<1>6. /\ accessQuestionsCount[d] \in Nat /\ defaults[d] \in Nat
      /\ answers[d][today] \in Nat
  BY <1>3 DEF Typed
<1>7. CounterInv'
  BY <1>1, <1>6 DEF PackageInv, CounterInv
<1>8. TodayInv'
  <2> SUFFICES ASSUME NEW e \in Devices
               PROVE  /\ Stamp(e) # today => answers'[e][today] <= IF asking'[e] THEN 0 ELSE 1
                      /\ Stamp(e) = today => answers'[e][today] <= defaults'[e] + 1
    BY <1>1, <1>2 DEF TodayInv
  <2>1. CASE e = d
    BY <1>1, <1>5, <1>6, <2>1
  <2>2. CASE e # d
    BY <1>1, <2>2 DEF PackageInv, TodayInv
  <2> QED
    BY <2>1, <2>2
<1>9. FutureInv'
  <2> SUFFICES ASSUME NEW e \in Devices, NEW n \in Days, n > today PROVE answers'[e][n] = 0
    BY <1>1 DEF FutureInv
  <2>1. answers[e][n] = 0 /\ n # today
    BY <1>3 DEF PackageInv, FutureInv, Typed
  <2> QED
    BY <1>1, <2>1
<1>10. PackagePerDevice'
  <2> SUFFICES ASSUME NEW e \in Devices, NEW n \in Days PROVE answers'[e][n] <= FreeRequests + 1
    BY DEF PackagePerDevice
  <2>1. CASE e = d /\ n = today
    BY <1>1, <1>5, <1>6, <2>1
  <2>2. CASE e # d \/ n # today
    BY <1>1, <2>2 DEF PackageInv, PackagePerDevice
  <2> QED
    BY <2>1, <2>2
<1> QED
  BY <1>4, <1>7, <1>8, <1>9, <1>10 DEF PackageInv

(* iCloud may bring the day's stamp, so that the device never resets, but  *)
(* it never takes the day's stamp away.                                    *)
LEMMA SyncKeeps ==
  ASSUME TypeOK, PackageInv, NEW d \in Devices, NEW item \in Items, Sync(d, item)
  PROVE  PackageInv'
<1>1. PICK e \in Devices :
        /\ item \in synced[e]
        /\ keychain' = [keychain EXCEPT ![d][item] = keychain[e][item]]
  BY DEF Sync
<1>2. /\ synced'[d] = synced[d] \cup {item}
      /\ \A x \in Devices : x # d => synced'[x] = synced[x]
      /\ UNCHANGED <<today, running, accessQuestionsCount, defaults, asking, answers>>
  BY DEF Sync, TypeOK
<1>3. /\ \A x \in Devices : x # d => Stamp(x)' = Stamp(x)
      /\ Stamp(d)' = IF item = "resetQuestionCounterTimestamp" THEN Stamp(e) ELSE Stamp(d)
  BY <1>1, KeychainTyped DEF TypeOK, Stamp, Keychain
<1>4. Typed
  BY TypedDevices
<1>5. StampsInv'
  <2>1. \A x \in Devices : Stamp(x)' \in Nat => Stamp(x)' <= today
    BY <1>3 DEF PackageInv, StampsInv
  <2>2. ASSUME NEW x \in Devices, NEW y \in Devices, Stamp(x)' = today,
               "resetQuestionCounterTimestamp" \in synced'[y]
        PROVE  Stamp(y)' = today
    <3>1. CASE item = "resetQuestionCounterTimestamp"
      <4>1. Stamp(e) = today
        BY <1>1, <1>3, <2>2, <3>1 DEF PackageInv, StampsInv
      <4> QED
        BY <1>2, <1>3, <2>2, <3>1, <4>1 DEF PackageInv, StampsInv
    <3>2. CASE item # "resetQuestionCounterTimestamp"
      BY <1>2, <1>3, <2>2, <3>2 DEF PackageInv, StampsInv
    <3> QED
      BY <3>1, <3>2
  <2> QED
    BY <1>2, <2>1, <2>2 DEF StampsInv
<1>6. TodayInv'
  <2> SUFFICES ASSUME NEW x \in Devices
               PROVE  /\ Stamp(x)' # today => answers[x][today] <= IF asking[x] THEN 0 ELSE 1
                      /\ Stamp(x)' = today => answers[x][today] <= defaults[x] + 1
    BY <1>2 DEF TodayInv
  <2>1. /\ Stamp(x) # today => answers[x][today] <= IF asking[x] THEN 0 ELSE 1
        /\ Stamp(x) = today => answers[x][today] <= defaults[x] + 1
        /\ answers[x][today] \in Nat /\ defaults[x] \in Nat
    BY <1>4 DEF PackageInv, TodayInv, Typed
  <2>2. CASE Stamp(x)' = Stamp(x)
    BY <2>1, <2>2
  <2>3. CASE Stamp(x)' # Stamp(x)
    <3>1. x = d /\ item = "resetQuestionCounterTimestamp" /\ Stamp(d)' = Stamp(e)
      BY <1>3, <2>3
    <3>2. Stamp(x) # today
      BY <1>1, <2>3, <3>1 DEF PackageInv, StampsInv
    <3> QED
      BY <2>1, <3>2, <2>3, <3>1
  <2> QED
    BY <2>2, <2>3
<1> QED
  BY <1>2, <1>5, <1>6 DEF PackageInv, CounterInv, FutureInv, PackagePerDevice

(* On a new day every device has a reset to do, and nothing was answered.  *)
LEMMA NextDayKeeps ==
  ASSUME TypeOK, PackageInv, NextDay
  PROVE  PackageInv'
<1>1. /\ today' = today + 1 /\ today' \in Days /\ today' > today
      /\ UNCHANGED <<running, accessQuestionsCount, defaults, keychain, synced, asking, answers>>
  BY DEF NextDay, TypeOK
<1>2. Typed
  BY TypedDevices
<1>3. \A e \in Devices : Stamp(e)' = Stamp(e) /\ Stamp(e) # today'
  BY <1>1, <1>2 DEF Stamp, Typed, PackageInv, StampsInv
<1>4. StampsInv'
  BY <1>1, <1>2, <1>3 DEF PackageInv, StampsInv, Typed
<1>5. TodayInv'
  BY <1>1, <1>3 DEF PackageInv, TodayInv, FutureInv
<1>6. FutureInv'
  BY <1>1, <1>2 DEF PackageInv, FutureInv, Typed
<1> QED
  BY <1>1, <1>4, <1>5, <1>6 DEF PackageInv, CounterInv, PackagePerDevice

(* However the devices overwrite each other's counter and stamp, in        *)
(* whatever order iCloud brings the two items and however often the app is *)
(* restarted, no device answers more in a day than the free package, and   *)
(* the question that was in flight at midnight.                            *)
THEOREM DevicePackage == Spec => []PackagePerDevice
<1>1. Init => PackageInv
  BY DEF Init, PackageInv, StampsInv, CounterInv, TodayInv, FutureInv, PackagePerDevice, Stamp
<1>2. TypeOK /\ PackageInv /\ [Next]_vars => PackageInv'
  <2> SUFFICES ASSUME TypeOK, PackageInv, [Next]_vars PROVE PackageInv'
    OBVIOUS
  <2>1. CASE UNCHANGED vars
    BY <2>1 DEF vars, PackageInv, StampsInv, CounterInv, TodayInv, FutureInv,
       PackagePerDevice, Stamp
  <2> QED
    BY <2>1, LaunchKeeps, StopKeeps, ReadCountResetsKeeps, AskKeeps, AnswerArrivesKeeps,
       AnswerFailsKeeps, SyncKeeps, NextDayKeeps DEF Next
<1> QED
  BY <1>1, <1>2, TypeCorrect, PTL DEF Spec, PackageInv
=============================================================================
