------------------------------ MODULE QuotaSync ------------------------------
(***************************************************************************)
(* The question counter of one user without a subscription on several      *)
(* devices.  The keychain items are synchronizable: what one device writes *)
(* replaces the other devices' copies later, each item on its own.  The    *)
(* counter in memory is read from the keychain only at launch.             *)
(*                                                                         *)
(* The time is known, fewer days pass than a month has, and a handler is   *)
(* one step: Quota has the rest.                                           *)
(***************************************************************************)
EXTENDS Integers, FiniteSetsExt

CONSTANTS
  Devices,
  FreeRequests,   \* questions in the free package
  NoStamp,        \* no reset yet
  MaxDay          \* bound: the days that pass

ASSUME QuotaSyncAssumption ==
  /\ FreeRequests \in Nat
  /\ MaxDay \in Nat
  /\ NoStamp \notin Nat

Days == 0 .. MaxDay
Items == {"accessQuestionsCount", "resetQuestionCounterTimestamp"}

VARIABLES
  today,
  running,               \* device -> the process is alive
  accessQuestionsCount,  \* device -> the counter in memory
  defaults,              \* device -> the counter in its user defaults
  keychain,              \* device -> item -> its copy
  synced,                \* device -> the items it has the last written value of
  asking,                \* device -> a question is in flight
  answers                \* history: device -> day -> answers

vars == <<today, running, accessQuestionsCount, defaults, keychain, synced, asking,
          answers>>

Keychain == [accessQuestionsCount : Nat,
             resetQuestionCounterTimestamp : Days \cup {NoStamp}]

TypeOK ==
  /\ today \in Days
  /\ running \in [Devices -> BOOLEAN]
  /\ accessQuestionsCount \in [Devices -> Nat]
  /\ defaults \in [Devices -> Nat]
  /\ keychain \in [Devices -> Keychain]
  /\ synced \in [Devices -> SUBSET Items]
  /\ asking \in [Devices -> BOOLEAN]
  /\ answers \in [Devices -> [Days -> Nat]]

Init ==
  /\ today = 0
  /\ running = [d \in Devices |-> FALSE]
  /\ accessQuestionsCount = [d \in Devices |-> 0]
  /\ defaults = [d \in Devices |-> 0]
  /\ keychain = [d \in Devices |-> [accessQuestionsCount |-> 0,
                                    resetQuestionCounterTimestamp |-> NoStamp]]
  /\ synced = [d \in Devices |-> Items]
  /\ asking = [d \in Devices |-> FALSE]
  /\ answers = [d \in Devices |-> [n \in Days |-> 0]]

-----------------------------------------------------------------------------
(* Mutant: the keychain's counter is the one that counts.                  *)
StoredCountKeychain(d) == keychain[d].accessQuestionsCount

(* _getStoredAccessQuestionsCount: the larger copy.                        *)
StoredCount(d) == Max({keychain[d].accessQuestionsCount, defaults[d]})

Launch(d) ==
  /\ ~running[d]
  /\ running' = [running EXCEPT ![d] = TRUE]
  /\ accessQuestionsCount' = [accessQuestionsCount EXCEPT ![d] = StoredCount(d)]
  /\ UNCHANGED <<today, defaults, keychain, synced, asking, answers>>

Stop(d) ==
  /\ running[d]
  /\ running' = [running EXCEPT ![d] = FALSE]
  /\ asking' = [asking EXCEPT ![d] = FALSE]
  /\ UNCHANGED <<today, accessQuestionsCount, defaults, keychain, synced, answers>>

(* Device d writes items: the others' copies are now old.                  *)
Written(d, items) ==
  synced' = [e \in Devices |-> IF e = d THEN synced[e] \cup items ELSE synced[e] \ items]

ResetDue(d) == keychain[d].resetQuestionCounterTimestamp # today

(* getAccessQuestionsCount on another day: the stamp and the counter.      *)
ReadCountResets(d) ==
  /\ running[d] /\ ResetDue(d)
  /\ accessQuestionsCount' = [accessQuestionsCount EXCEPT ![d] = 0]
  /\ defaults' = [defaults EXCEPT ![d] = 0]
  /\ keychain' = [keychain EXCEPT ![d] = [accessQuestionsCount |-> 0,
                                          resetQuestionCounterTimestamp |-> today]]
  /\ Written(d, Items)
  /\ UNCHANGED <<today, running, asking, answers>>

(* isSendMessageLocked lets a question pass.                               *)
Ask(d) ==
  /\ running[d] /\ ~asking[d] /\ ~ResetDue(d)
  /\ accessQuestionsCount[d] < FreeRequests
  /\ asking' = [asking EXCEPT ![d] = TRUE]
  /\ UNCHANGED <<today, running, accessQuestionsCount, defaults, keychain, synced, answers>>

(* Mutant: the counter counts down.                                        *)
AnswerArrivesCountsDown(d) ==
  LET n == accessQuestionsCount[d] - 1 IN
  /\ asking[d]
  /\ asking' = [asking EXCEPT ![d] = FALSE]
  /\ accessQuestionsCount' = [accessQuestionsCount EXCEPT ![d] = n]
  /\ UNCHANGED <<today, running, defaults, keychain, synced, answers>>

(* questionsCountIncrement, in memory, in the keychain, in the defaults.   *)
AnswerArrives(d) ==
  LET n == accessQuestionsCount[d] + 1 IN
  /\ asking[d]
  /\ asking' = [asking EXCEPT ![d] = FALSE]
  /\ accessQuestionsCount' = [accessQuestionsCount EXCEPT ![d] = n]
  /\ keychain' = [keychain EXCEPT ![d].accessQuestionsCount = n]
  /\ defaults' = [defaults EXCEPT ![d] = n]
  /\ Written(d, {"accessQuestionsCount"})
  /\ answers' = [answers EXCEPT ![d][today] = @ + 1]
  /\ UNCHANGED <<today, running>>

AnswerFails(d) ==
  /\ asking[d]
  /\ asking' = [asking EXCEPT ![d] = FALSE]
  /\ UNCHANGED <<today, running, accessQuestionsCount, defaults, keychain, synced, answers>>

(* iCloud brings device d the last written value of an item.               *)
Sync(d, item) ==
  /\ item \notin synced[d]
  /\ \E e \in Devices :
       /\ item \in synced[e]
       /\ keychain' = [keychain EXCEPT ![d][item] = keychain[e][item]]
  /\ synced' = [synced EXCEPT ![d] = @ \cup {item}]
  /\ UNCHANGED <<today, running, accessQuestionsCount, defaults, asking, answers>>

NextDay ==
  /\ today < MaxDay
  /\ today' = today + 1
  /\ UNCHANGED <<running, accessQuestionsCount, defaults, keychain, synced, asking, answers>>

Next ==
  \/ \E d \in Devices :
       \/ Launch(d)
       \/ Stop(d)
       \/ ReadCountResets(d)
       \/ Ask(d)
       \/ AnswerArrives(d)
       \/ AnswerFails(d)
       \/ \E item \in Items : Sync(d, item)
  \/ NextDay

Spec == Init /\ [][Next]_vars

-----------------------------------------------------------------------------
(* No device answers more questions in a day than the free package has     *)
(* (one more when a question asked the day before is answered after        *)
(* midnight before the counter is read), however the devices overwrite     *)
(* each other's counter and stamp and however often they are restarted.    *)
PackagePerDevice ==
  \A d \in Devices, n \in Days : answers[d][n] <= FreeRequests + 1
=============================================================================
