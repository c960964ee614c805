-------------------------------- MODULE Quota --------------------------------
(***************************************************************************)
(* The question counter of LocalStorage for a user without a subscription. *)
(* It lives in memory, in the (synchronizable) keychain and in the user    *)
(* defaults, next to the time stamp of its last reset, and starts over     *)
(* when the day of the month is no longer the stamp's.                     *)
(*                                                                         *)
(* A handler writes the copies one after the other, and KeychainSwift.set  *)
(* deletes an item before it adds the new one, with a result nobody looks  *)
(* at.  A write to the keychain can fail, the process can die between two  *)
(* steps, the app can be deleted and installed again (which wipes the      *)
(* defaults and keeps the keychain), and days pass at any time.  The days  *)
(* are those of one time zone, and what is stored can always be read.      *)
(***************************************************************************)
EXTENDS Integers, FiniteSetsExt

CONSTANTS
  FreeRequests,   \* questions in the free package
  MonthLength,    \* days until a day of the month comes back
  Nothing,        \* no item stored
  MaxDay,         \* bound: the days that pass
  MaxFaults       \* bound: failed keychain writes and deaths inside a handler

ASSUME QuotaAssumption ==
  /\ FreeRequests \in Nat /\ MaxDay \in Nat /\ MaxFaults \in Nat
  /\ MonthLength \in Nat \ {0}
  /\ Nothing \notin Int

Days == 0 .. MaxDay
Copies == {"keychain", "defaults"}

VARIABLES
  today,      \* the real day
  running,    \* the process is alive
  timeKnown,  \* ServerTimeManager.timeDifference is not nil
  accessQuestionsCount,  \* in memory
  count,      \* copy -> the stored counter, or Nothing
  stamp,      \* copy -> the day of the last reset, or Nothing
  pc,         \* the running handler's next step
  newCount,   \* its value
  newStamp,   \* its tsNow
  asking,     \* the question in flight: "none", or asked "untimed" or "timed"
  askedOn,    \* history: the day that question was asked
  answers,    \* history: day -> answers counted on it
  timed,      \* history: day -> answered questions of that day asked when the
              \* time was known
  faults,     \* history: failed keychain writes and deaths inside a handler
  reinstalled \* history: the app was deleted and installed again

stored == <<count, stamp>>
handler == <<pc, newCount, newStamp>>
history == <<askedOn, answers, timed, faults, reinstalled>>
vars == <<today, running, timeKnown, accessQuestionsCount, stored, handler, asking, history>>

Steps == {"idle", "deleteStamp", "addStamp", "storeStamp", "setMemory", "deleteCount",
          "addCount", "storeCount", "read"}

TypeOK ==
  /\ today \in Days
  /\ running \in BOOLEAN
  /\ timeKnown \in BOOLEAN
  /\ accessQuestionsCount \in Nat
  /\ count \in [Copies -> Nat \cup {Nothing}]
  /\ count["defaults"] # Nothing
  /\ stamp \in [Copies -> Days \cup {Nothing}]
  /\ pc \in Steps
  /\ newCount \in Nat
  /\ newStamp \in Days \cup {Nothing}
  /\ asking \in {"none", "untimed", "timed"}
  /\ askedOn \in Days
  /\ answers \in [Days -> Nat]
  /\ timed \in [Days -> Nat]
  /\ faults \in 0 .. MaxFaults
  /\ reinstalled \in BOOLEAN

Init ==
  /\ today = 0
  /\ running = FALSE
  /\ timeKnown = FALSE
  /\ accessQuestionsCount = 0
  /\ count = [c \in Copies |-> IF c = "keychain" THEN Nothing ELSE 0]
  /\ stamp = [c \in Copies |-> Nothing]
  /\ pc = "idle"
  /\ newCount = 0
  /\ newStamp = Nothing
  /\ asking = "none"
  /\ askedOn = 0
  /\ answers = [d \in Days |-> 0]
  /\ timed = [d \in Days |-> 0]
  /\ faults = 0
  /\ reinstalled = FALSE

-----------------------------------------------------------------------------
(* Mutant: the counter of the defaults is trusted.                         *)
StoredCountLocal == count["defaults"]

(* _getStoredAccessQuestionsCount: the larger copy.                        *)
StoredCount ==
  IF count["keychain"] = Nothing THEN count["defaults"]
  ELSE Max({count["keychain"], count["defaults"]})

(* The keychain's stamp goes first.                                        *)
ResetStamp == IF stamp["keychain"] # Nothing THEN stamp["keychain"] ELSE stamp["defaults"]

(* Date.day: no month and no year.                                         *)
DayOfMonth(d) == IF d = Nothing THEN Nothing ELSE d % MonthLength

(* The test in getAccessQuestionsCount, by the day of the month.           *)
ResetDue == timeKnown /\ DayOfMonth(ResetStamp) # DayOfMonth(today)

Idle == running /\ pc = "idle"

Launch ==
  /\ ~running
  /\ running' = TRUE
  /\ accessQuestionsCount' = StoredCount
  /\ UNCHANGED <<today, timeKnown, stored, handler, asking, history>>

LearnTime ==
  /\ running /\ ~timeKnown
  /\ timeKnown' = TRUE
  /\ UNCHANGED <<today, running, accessQuestionsCount, stored, handler, asking, history>>

(* Mutant: the stamp is renewed and the counter kept.                      *)
ReadCountResetsStamp ==
  /\ Idle /\ ResetDue
  /\ pc' = "deleteStamp"
  /\ newStamp' = today
  /\ newCount' = accessQuestionsCount
  /\ UNCHANGED <<today, running, timeKnown, accessQuestionsCount, stored, asking, history>>

(* getAccessQuestionsCount on another day: the stamp, then the counter.    *)
ReadCountResets ==
  /\ Idle /\ ResetDue
  /\ pc' = "deleteStamp"
  /\ newStamp' = today
  /\ newCount' = 0
  /\ UNCHANGED <<today, running, timeKnown, accessQuestionsCount, stored, asking, history>>

(* onSendAction passes isSendMessageLocked: the counter was read without a *)
(* reset, or has just been reset, whatever became of the stamp.  The       *)
(* question takes its place in the package of the day of that reading.     *)
Ask ==
  /\ (Idle /\ ~ResetDue) \/ pc = "read"
  /\ asking = "none"
  /\ accessQuestionsCount < FreeRequests
  /\ asking' = IF timeKnown THEN "timed" ELSE "untimed"
  /\ askedOn' = IF pc = "read" THEN newStamp ELSE today
  /\ pc' = "idle" /\ newStamp' = Nothing
  /\ UNCHANGED <<today, running, timeKnown, accessQuestionsCount, stored, newCount,
                 answers, timed, faults, reinstalled>>

(* Mutant: the counter counts what is left of the package.                 *)
AnswerArrivesCountsDown ==
  /\ Idle /\ asking # "none"
  /\ asking' = "none"
  /\ pc' = "setMemory"
  /\ newCount' = accessQuestionsCount - 1
  /\ UNCHANGED <<today, running, timeKnown, accessQuestionsCount, stored, newStamp, history>>

(* questionsCountIncrement.                                                *)
AnswerArrives ==
  /\ Idle /\ asking # "none"
  /\ asking' = "none"
  /\ pc' = "setMemory"
  /\ newCount' = accessQuestionsCount + 1
  /\ answers' = [answers EXCEPT ![today] = @ + 1]
  /\ timed' = IF asking = "timed" THEN [timed EXCEPT ![askedOn] = @ + 1] ELSE timed
  /\ UNCHANGED <<today, running, timeKnown, accessQuestionsCount, stored, newStamp,
                 askedOn, faults, reinstalled>>

AnswerFails ==
  /\ Idle /\ asking # "none"
  /\ asking' = "none"
  /\ UNCHANGED <<today, running, timeKnown, accessQuestionsCount, stored, handler, history>>

-----------------------------------------------------------------------------
(* The steps of a handler.  KeychainSwift.set deletes the stamp ...        *)
DeleteStamp ==
  /\ pc = "deleteStamp"
  /\ pc' = "addStamp"
  /\ stamp' = [stamp EXCEPT !["keychain"] = Nothing]
  /\ UNCHANGED <<today, running, timeKnown, accessQuestionsCount, count, newCount, newStamp,
                 asking, history>>

(* ... and adds the new one;                                               *)
AddStamp ==
  /\ pc = "addStamp"
  /\ pc' = "storeStamp"
  /\ stamp' = [stamp EXCEPT !["keychain"] = newStamp]
  /\ UNCHANGED <<today, running, timeKnown, accessQuestionsCount, count, newCount, newStamp,
                 asking, history>>

(* the setter of resetQuestionCounterTimestamp goes on to the defaults.    *)
StoreStamp ==
  /\ pc = "storeStamp"
  /\ pc' = "setMemory"
  /\ stamp' = [stamp EXCEPT !["defaults"] = newStamp]
  /\ UNCHANGED <<today, running, timeKnown, accessQuestionsCount, count, newCount, newStamp,
                 asking, history>>

(* _setAccessQuestionsCount: the counter in memory,                        *)
SetMemory ==
  /\ pc = "setMemory"
  /\ pc' = "deleteCount"
  /\ accessQuestionsCount' = newCount
  /\ UNCHANGED <<today, running, timeKnown, stored, newCount, newStamp, asking, history>>

(* in the keychain, deleted ...                                            *)
DeleteCount ==
  /\ pc = "deleteCount"
  /\ pc' = "addCount"
  /\ count' = [count EXCEPT !["keychain"] = Nothing]
  /\ UNCHANGED <<today, running, timeKnown, accessQuestionsCount, stamp, newCount, newStamp,
                 asking, history>>

(* ... and added,                                                          *)
AddCount ==
  /\ pc = "addCount"
  /\ pc' = "storeCount"
  /\ count' = [count EXCEPT !["keychain"] = newCount]
  /\ UNCHANGED <<today, running, timeKnown, accessQuestionsCount, stamp, newCount, newStamp,
                 asking, history>>

(* and in the defaults.  After a reset getAccessQuestionsCount returns.    *)
StoreCount ==
  /\ pc = "storeCount"
  /\ pc' = IF newStamp # Nothing THEN "read" ELSE "idle"
  /\ count' = [count EXCEPT !["defaults"] = newCount]
  /\ newCount' = 0
  /\ UNCHANGED <<today, running, timeKnown, accessQuestionsCount, stamp, newStamp, asking,
                 history>>

(* A reading that was not for a question: the counter is shown.            *)
ReadReturns ==
  /\ pc = "read"
  /\ pc' = "idle" /\ newStamp' = Nothing
  /\ UNCHANGED <<today, running, timeKnown, accessQuestionsCount, stored, newCount, asking,
                 history>>

(* A delete or an add without effect, and set returns false to nobody.  An *)
(* item that is not deleted makes the add a duplicate, which fails too.    *)
SetFails ==
  /\ pc \in {"deleteStamp", "addStamp", "deleteCount", "addCount"}
  /\ faults < MaxFaults
  /\ faults' = faults + 1
  /\ pc' = IF pc \in {"deleteStamp", "addStamp"} THEN "storeStamp" ELSE "storeCount"
  /\ UNCHANGED <<today, running, timeKnown, accessQuestionsCount, stored, newCount, newStamp,
                 asking, askedOn, answers, timed, reinstalled>>

(* The process ends, between handlers or inside one.                       *)
Stop ==
  /\ running
  /\ faults' = IF pc \in {"idle", "read"} THEN faults ELSE faults + 1
  /\ faults' <= MaxFaults
  /\ running' = FALSE
  /\ timeKnown' = FALSE
  /\ pc' = "idle" /\ newCount' = 0 /\ newStamp' = Nothing
  /\ asking' = "none"
  /\ UNCHANGED <<today, accessQuestionsCount, stored, askedOn, answers, timed, reinstalled>>

(* Deleting the app wipes the defaults; the keychain stays.                *)
Reinstall ==
  /\ ~running
  /\ count' = [count EXCEPT !["defaults"] = 0]
  /\ stamp' = [stamp EXCEPT !["defaults"] = Nothing]
  /\ reinstalled' = TRUE
  /\ UNCHANGED <<today, running, timeKnown, accessQuestionsCount, handler, asking, askedOn,
                 answers, timed, faults>>

NextDay ==
  /\ today < MaxDay
  /\ today' = today + 1
  /\ UNCHANGED <<running, timeKnown, accessQuestionsCount, stored, handler, asking, history>>

Next ==
  \/ Launch
  \/ LearnTime
  \/ ReadCountResets
  \/ Ask
  \/ AnswerArrives
  \/ AnswerFails
  \/ DeleteStamp
  \/ AddStamp
  \/ StoreStamp
  \/ SetMemory
  \/ DeleteCount
  \/ AddCount
  \/ StoreCount
  \/ ReadReturns
  \/ SetFails
  \/ Stop
  \/ Reinstall
  \/ NextDay

Spec == Init /\ [][Next]_vars

-----------------------------------------------------------------------------
(* Of the questions asked on one day when the app knows the time, no more  *)
(* are answered than the free package holds; with those it answers before  *)
(* the time server does, at most twice as many (getAccessQuestionsCount    *)
(* cannot reset the counter until then).  Restarting or installing the app *)
(* again gains nothing by itself.  A keychain write that fails, or a death *)
(* of the process inside a handler, gains one question asked with the time *)
(* known, as long as the defaults keep the second copy.  After a           *)
(* reinstallation it can lose the only copy, and before the time is known  *)
(* a reset whose stamp was not stored can be repeated: each gains a whole  *)
(* package.                                                                *)
DailyPackage ==
  \A d \in Days :
    /\ timed[d] <= FreeRequests + (IF reinstalled THEN FreeRequests * faults ELSE faults)
    /\ answers[d] <= FreeRequests * (2 + faults)

(* The counter never counts answers of another day against today's         *)
(* package, once the app knows the time, has read the counter and the last *)
(* reset is less than a month old.  A failed write or a death inside a     *)
(* handler can lose a reset for the day.                                   *)
CountsToday ==
  faults = 0 /\ Idle /\ timeKnown /\ ~ResetDue /\ today - ResetStamp < MonthLength
    => accessQuestionsCount <= answers[today]

(* "questions left in your weekly free package": no seven days bring more  *)
(* answers than the package, even of questions asked with the time known.  *)
WeeklyPackage ==
  \A d \in Days :
    MapThenSumSet(LAMBDA e : timed[e], {e \in Days : d <= e /\ e < d + 7})
      <= FreeRequests
=============================================================================
