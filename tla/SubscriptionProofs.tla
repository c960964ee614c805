------------------------- MODULE SubscriptionProofs -------------------------
(***************************************************************************)
(* What the app knows of the user's subscriptions, for any list of         *)
(* products, any periods and any number of transactions, verifications and *)
(* deaths of the process.                                                  *)
(***************************************************************************)
EXTENDS Subscription, SequenceTheorems, FiniteSetTheorems, WellFoundedInduction, TLAPS

(* What the steps need of the types.  The numbers of the verifications,    *)
(* which TypeOK bounds, do not matter.                                     *)
Typed ==
  /\ now \in Nat
  /\ paid \in Receipt
  /\ queue \in Seq(Transaction)
  /\ sheet \in Product \cup {None}
  /\ approval \in Product \cup {None}
  /\ buyRequest \in Product \cup {None}
  /\ activeSubscription \in Subsciption \cup {None}
  /\ stored \in Subsciption \cup {None}
  /\ \A v \in verifications :
       /\ {"answer", "receipt"} \subseteq DOMAIN v
       /\ v.answer \in {"none", "receipt", "error"}
       /\ v.receipt \in Receipt

(* Apple never takes back what was paid: an answer under way, the          *)
(* subscription in memory and the one in the user defaults name no later   *)
(* date than Apple does.                                                   *)
PaidUntil(s) == s # None => s.expirationDate <= paid[s.period]
PaidInv ==
  /\ \A v \in verifications : \A p \in Product : v.receipt[p] <= paid[p]
  /\ PaidUntil(activeSubscription)
  /\ PaidUntil(stored)

(* Memory holds what the user defaults hold, or those have run out.        *)
StoredInv ==
  running /\ activeSubscription # stored
    => activeSubscription = None /\ stored # None /\ stored.expirationDate <= now

(* Unless an answer went wrong, a payment the app does not know of is on   *)
(* its way: in the queue, where nothing takes it away without asking for   *)
(* the receipt, or in such a request.  Otherwise the user defaults know a  *)
(* subscription that lasts as long as everything that was paid for.        *)
Announced == \E i \in 1 .. Len(queue) : queue[i].state = "purchased"
Known == stored # None /\ \A p \in Entitled : paid[p] <= stored.expirationDate
PromiseInv ==
  lapse = "none" /\ Entitled # {} => Announced \/ verifications # {} \/ Known

AccessInv == Typed /\ PaidInv /\ StoredInv /\ PromiseInv

USE SubscriptionAssumption

-----------------------------------------------------------------------------
(* A list of products that is searched has a first hit.                    *)
LEMMA FirstOf ==
  ASSUME NEW S, S \subseteq Nat, S # {}
  PROVE  \E i \in S : \A j \in S : i <= j
<1> DEFINE less == OpToRel(<, Nat)
<1>1. \A i \in Nat, j \in Nat : j < i => <<j, i>> \in less
  BY Zenon DEF OpToRel
<1>2. IsWellFoundedOn(less, Nat)
  BY NatLessThanWellFounded, Zenon
<1> HIDE DEF less
<1>3. PICK i \in S : \A j \in S : ~(<<j, i>> \in less)
  BY <1>2, WFMin
<1>4. ASSUME NEW j \in S PROVE i <= j
  <2>1. i \in Nat /\ j \in Nat
    OBVIOUS
  <2>2. ~(j < i)
    BY <1>1, <1>3, <2>1, Zenon
  <2> QED
    BY <2>1, <2>2
<1> QED
  BY <1>4

(* updateSubscriptionsWithReceipt takes a product of the receipt, if there *)
(* is one.                                                                 *)
LEMMA SubscriptionOfReceipt ==
  ASSUME NEW r \in Receipt
  PROVE  \/ /\ UpdateSubscriptionsWithReceipt(r) = None
            /\ \A p \in Product : r[p] = 0
         \/ \E p \in Product :
              UpdateSubscriptionsWithReceipt(r) = [period |-> p, expirationDate |-> r[p]]
<1> DEFINE valid == {i \in DOMAIN Products : r[Products[i]] > 0}
           first == CHOOSE i \in valid : \A j \in valid : i <= j
<1>1. DOMAIN Products = 1 .. Len(Products) /\ Len(Products) \in Nat
  BY LenProperties
<1>2. CASE valid = {}
  <2>1. ASSUME NEW p \in Product PROVE r[p] = 0
    <3>1. PICK i \in 1 .. Len(Products) : p = Products[i]
      BY DEF Product
    <3>2. ~(r[Products[i]] > 0) /\ r[p] \in Nat
      BY <1>1, <1>2, <3>1 DEF Receipt
    <3> QED
      BY <3>1, <3>2
  <2> QED
    BY <1>2, <2>1 DEF UpdateSubscriptionsWithReceipt
<1>3. CASE valid # {}
  <2>1. \E i \in valid : \A j \in valid : i <= j
    <3>1. valid \subseteq Nat
      BY <1>1
    <3> HIDE DEF valid
    <3> QED
      BY <1>3, <3>1, FirstOf
  <2>2. first \in valid
    <3> HIDE DEF valid
    <3> QED
      BY <2>1
  <2>3. Products[first] \in Product
    BY <1>1, <2>2 DEF Product
  <2>4. UpdateSubscriptionsWithReceipt(r)
          = [period |-> Products[first], expirationDate |-> r[Products[first]]]
    BY <1>3 DEF UpdateSubscriptionsWithReceipt
  <2> HIDE DEF first
  <2> QED
    BY <2>3, <2>4
<1> QED
  BY <1>2, <1>3

(* Charging only moves dates forward.                                      *)
LEMMA ChargedLater ==
  ASSUME Typed, NEW p \in Product
  PROVE  Charged(p) \in Receipt /\ \A q \in Product : paid[q] <= Charged(p)[q]
<1>1. Period[p] \in Nat /\ now \in Nat /\ paid \in [Product -> Nat]
  BY DEF Typed, Receipt
<1>2. (IF paid[p] > now THEN paid[p] ELSE now + Period[p]) \in Nat
      /\ paid[p] <= (IF paid[p] > now THEN paid[p] ELSE now + Period[p])
  BY <1>1
<1> QED
  BY <1>1, <1>2 DEF Charged, Receipt

(* A transaction at the end of the queue.                                  *)
LEMMA QueuedKeeps ==
  ASSUME Typed, NEW p \in Product, NEW s \in {"purchased", "failed", "deferred"},
         queue' = Queued(p, s)
  PROVE  /\ queue' \in Seq(Transaction)
         /\ Announced \/ s = "purchased" => Announced'
<1> DEFINE t == [product |-> p, state |-> s]
<1>1. t \in Transaction /\ t.state = s
  BY DEF Transaction
<1> HIDE DEF t
<1>2. queue \in Seq(Transaction) /\ queue' = Append(queue, t)
  BY DEF Typed, Queued, t
<1>3. /\ queue' \in Seq(Transaction) /\ Len(queue') = Len(queue) + 1 /\ Len(queue) \in Nat
      /\ \A i \in 1 .. Len(queue) : queue'[i] = queue[i]
      /\ queue'[Len(queue) + 1] = t
  BY <1>1, <1>2, AppendProperties, LenProperties
<1>4. Announced => Announced'
  BY <1>3 DEF Announced
<1>5. s = "purchased" => Announced'
  BY <1>1, <1>3 DEF Announced
<1> QED
  BY <1>3, <1>4, <1>5
-----------------------------------------------------------------------------
(* Screens, payments and restores do not touch what the app knows.         *)
LEMMA AccessLeft ==
  ASSUME AccessInv, running' => running,
         UNCHANGED <<now, paid, queue, activeSubscription, stored, lapse, verifications>>,
         sheet' \in Product \cup {None}, approval' \in Product \cup {None},
         buyRequest' \in Product \cup {None}
  PROVE  AccessInv'
<1>1. Typed'
  BY DEF AccessInv, Typed
<1>2. PaidInv'
  BY DEF AccessInv, PaidInv, PaidUntil
<1>3. StoredInv'
  BY DEF AccessInv, StoredInv
<1>4. PromiseInv'
  BY DEF AccessInv, PromiseInv, Announced, Known, Entitled
<1> QED
  BY <1>1, <1>2, <1>3, <1>4 DEF AccessInv

(* A launch takes the stored subscription over while it lasts.             *)
LEMMA LaunchKeeps ==
  ASSUME AccessInv, Launch
  PROVE  AccessInv'
<1>1. /\ activeSubscription' = IF stored # None /\ stored.expirationDate > now
                               THEN stored ELSE None
      /\ now' = now /\ paid' = paid /\ queue' = queue /\ sheet' = sheet /\ approval' = approval
      /\ stored' = stored /\ lapse' = lapse /\ verifications' = verifications
      /\ buyRequest' = buyRequest
  BY DEF Launch, apple
<1>2. Typed'
  BY <1>1 DEF AccessInv, Typed
<1>3. PaidInv'
  BY <1>1 DEF AccessInv, PaidInv, PaidUntil
<1>4. StoredInv'
  <2>1. now \in Nat /\ (stored # None => stored.expirationDate \in Nat)
    BY DEF AccessInv, Typed, Subsciption
  <2> QED
    BY <1>1, <2>1 DEF StoredInv
<1>5. PromiseInv'
  BY <1>1 DEF AccessInv, PromiseInv, Announced, Known, Entitled
<1> QED
  BY <1>2, <1>3, <1>4, <1>5 DEF AccessInv

(* The process dies; the requests that die with it are a lapse.            *)
LEMMA KillKeeps ==
  ASSUME AccessInv, Kill
  PROVE  AccessInv'
<1>1. /\ running' = FALSE /\ lapse' = IF verifications # {} THEN "cut off" ELSE lapse
      /\ verifications' = {} /\ buyRequest' = None
      /\ now' = now /\ paid' = paid /\ queue' = queue /\ sheet' = sheet /\ approval' = approval
      /\ stored' = stored /\ activeSubscription' = activeSubscription
  BY DEF Kill, apple
<1>2. Typed'
  BY <1>1 DEF AccessInv, Typed
<1>3. PaidInv' /\ StoredInv'
  BY <1>1 DEF AccessInv, PaidInv, PaidUntil, StoredInv
<1>4. PromiseInv'
  <2>1. CASE verifications = {}
    BY <1>1, <2>1 DEF AccessInv, PromiseInv, Announced, Known, Entitled
  <2>2. CASE verifications # {}
    BY <1>1, <2>2 DEF PromiseInv
  <2> QED
    BY <2>1, <2>2
<1> QED
  BY <1>2, <1>3, <1>4 DEF AccessInv

(* Time passes: subscriptions run out, in memory only at the next launch.  *)
LEMMA TickKeeps ==
  ASSUME AccessInv, Tick
  PROVE  AccessInv'
<1>1. /\ now' = now + 1 /\ running' = running
      /\ activeSubscription' = activeSubscription /\ stored' = stored /\ lapse' = lapse
      /\ paid' = paid /\ queue' = queue /\ sheet' = sheet /\ approval' = approval
      /\ buyRequest' = buyRequest /\ verifications' = verifications
  BY DEF Tick, access
<1>2. now \in Nat /\ paid \in [Product -> Nat]
      /\ (stored # None => stored.expirationDate \in Nat)
  BY DEF AccessInv, Typed, Receipt, Subsciption
<1>3. Typed'
  BY <1>1, <1>2 DEF AccessInv, Typed
<1>4. PaidInv'
  BY <1>1 DEF AccessInv, PaidInv, PaidUntil
<1>5. StoredInv'
  BY <1>1, <1>2 DEF AccessInv, StoredInv
<1>6. PromiseInv'
  <2>1. Entitled' \subseteq Entitled
    BY <1>1, <1>2 DEF Entitled
  <2>2. (Announced' <=> Announced) /\ (Known => Known')
    BY <1>1, <2>1 DEF Announced, Known
  <2> QED
    BY <1>1, <2>1, <2>2 DEF AccessInv, PromiseInv
<1> QED
  BY <1>3, <1>4, <1>5, <1>6 DEF AccessInv

(* Apple queues a transaction, for money or not.                           *)
LEMMA AppleKeeps ==
  ASSUME AccessInv, NEW p \in Product, NEW s \in {"purchased", "failed", "deferred"},
         queue' = Queued(p, s), now' = now,
         paid' = paid \/ (paid' = Charged(p) /\ s = "purchased"),
         sheet' \in Product \cup {None}, approval' \in Product \cup {None},
         UNCHANGED inApp
  PROVE  AccessInv'
<1>1. /\ running' = running /\ buyRequest' = buyRequest
      /\ activeSubscription' = activeSubscription /\ stored' = stored /\ lapse' = lapse
      /\ verifications' = verifications
  BY DEF inApp, access
<1>2. Typed /\ paid \in [Product -> Nat]
  BY DEF AccessInv, Typed, Receipt
<1>3. paid' \in Receipt /\ \A q \in Product : paid[q] <= paid'[q]
  <2>1. CASE paid' = paid
    BY <1>2, <2>1 DEF Receipt
  <2>2. CASE paid' = Charged(p)
    BY <1>2, <2>2, ChargedLater
  <2> QED
    BY <2>1, <2>2
<1>4. queue' \in Seq(Transaction) /\ (Announced \/ s = "purchased" => Announced')
  BY <1>2, QueuedKeeps
<1>5. Typed'
  BY <1>1, <1>3, <1>4 DEF AccessInv, Typed
<1>6. PaidInv'
  <2>1. ASSUME NEW x \in Subsciption, x.expirationDate <= paid[x.period]
        PROVE  x.expirationDate <= paid'[x.period]
    BY <1>2, <1>3, <2>1 DEF Subsciption, Receipt
  <2>2. ASSUME NEW v \in verifications, NEW q \in Product PROVE v.receipt[q] <= paid'[q]
    <3>1. v.receipt \in [Product -> Nat] /\ v.receipt[q] <= paid[q]
      BY DEF AccessInv, Typed, PaidInv, Receipt
    <3> QED
      BY <1>2, <1>3, <3>1 DEF Receipt
  <2> QED
    BY <1>1, <2>1, <2>2 DEF AccessInv, Typed, PaidInv, PaidUntil
<1>7. StoredInv'
  BY <1>1 DEF AccessInv, StoredInv
<1>8. PromiseInv'
  <2>1. CASE s = "purchased"
    BY <1>4, <2>1 DEF PromiseInv
  <2>2. CASE s # "purchased"
    BY <1>1, <1>4, <2>2 DEF AccessInv, PromiseInv, Known, Entitled
  <2> QED
    BY <2>1, <2>2
<1> QED
  BY <1>5, <1>6, <1>7, <1>8 DEF AccessInv

(* The requests in flight are typed and name no date Apple does not.       *)
Requested(v) ==
  /\ {"answer", "receipt"} \subseteq DOMAIN v
  /\ v.answer \in {"none", "receipt", "error"}
  /\ v.receipt \in Receipt
  /\ \A p \in Product : v.receipt[p] <= paid[p]

LEMMA AllRequested ==
  ASSUME AccessInv
  PROVE  \A v \in verifications : Requested(v)
  BY DEF AccessInv, Typed, PaidInv, Requested

(* verifyPurchases adds a request without an answer.                       *)
LEMMA VerifyAsks ==
  ASSUME AccessInv, NEW for, NEW owned, VerifyPurchases(for, owned)
  PROVE  verifications' # {} /\ \A v \in verifications' : Requested(v)
<1> DEFINE r == [p \in Product |-> 0]
           u == [id |-> FreeId, for |-> for, owned |-> owned, answer |-> "none", receipt |-> r]
<1>1. verifications' = verifications \cup {u}
  BY DEF VerifyPurchases
<1>2. r \in Receipt /\ \A p \in Product : r[p] <= paid[p]
  BY DEF AccessInv, Typed, Receipt
<1>3. {"answer", "receipt"} \subseteq DOMAIN u /\ u.answer = "none" /\ u.receipt = r
  OBVIOUS
<1> HIDE DEF r, u
<1>4. Requested(u)
  BY <1>2, <1>3 DEF Requested
<1> QED
  BY <1>1, <1>4, AllRequested

(* The invariant survives a step that only queues or requests.             *)
LEMMA RequestsLeft ==
  ASSUME AccessInv, queue' \in Seq(Transaction), \A v \in verifications' : Requested(v),
         UNCHANGED <<now, paid, sheet, approval, running, activeSubscription, stored, lapse,
                     buyRequest>>,
         Announced \/ verifications # {} => Announced' \/ verifications' # {}
  PROVE  AccessInv'
<1>1. Typed'
  BY DEF AccessInv, Typed, Requested
<1>2. PaidInv'
  BY DEF AccessInv, PaidInv, PaidUntil, Requested
<1>3. StoredInv'
  BY DEF AccessInv, StoredInv
<1>4. PromiseInv'
  BY DEF AccessInv, PromiseInv, Known, Entitled
<1> QED
  BY <1>1, <1>2, <1>3, <1>4 DEF AccessInv

(* No paid transaction is finished without asking for the receipt.         *)
LEMMA TransactionKeeps ==
  ASSUME AccessInv, UpdatedTransaction
  PROVE  AccessInv'
<1> DEFINE t == Head(queue)
<1>1. /\ queue # <<>> /\ queue' = Tail(queue)
      /\ now' = now /\ paid' = paid /\ sheet' = sheet /\ approval' = approval
      /\ running' = running /\ activeSubscription' = activeSubscription /\ stored' = stored
      /\ lapse' = lapse /\ buyRequest' = buyRequest
  BY DEF UpdatedTransaction, access
<1>2. queue \in Seq(Transaction)
  BY DEF AccessInv, Typed
<1>3. /\ queue' \in Seq(Transaction) /\ Len(queue') = Len(queue) - 1 /\ Len(queue) \in Nat
      /\ \A i \in 1 .. Len(queue') : queue'[i] = queue[i + 1]
      /\ t = queue[1]
  <2>1. queue' \in Seq(Transaction) /\ Len(queue') = Len(queue) - 1 /\ Len(queue) \in Nat
        /\ \A i \in 1 .. Len(queue') : queue'[i] = queue[i + 1]
    BY <1>1, <1>2, HeadTailProperties, LenProperties
  <2>2. t = queue[1]
    BY <1>1, <1>2
  <2> QED
    BY <2>1, <2>2
<1>4. Announced => Announced' \/ t.state = "purchased"
  <2> SUFFICES ASSUME NEW i \in 1 .. Len(queue), queue[i].state = "purchased", i # 1
               PROVE  Announced'
    BY <1>3 DEF Announced
  <2>1. i - 1 \in 1 .. Len(queue') /\ queue'[i - 1] = queue[(i - 1) + 1] /\ (i - 1) + 1 = i
    BY <1>3
  <2> QED
    BY <2>1 DEF Announced
<1>5. \/ \E owned \in BOOLEAN, for \in {"purchase", "complete"} : VerifyPurchases(for, owned)
      \/ verifications' = verifications /\ t.state # "purchased"
  <2>1. \/ t.product \in payments /\ t.state \in {"purchased", "restored"}
             /\ VerifyPurchases("purchase", TRUE)
        \/ t.state = "failed" /\ UNCHANGED verifications
        \/ t.state = "restored" /\ UNCHANGED verifications
        \/ CompleteTransaction(t)
    BY DEF UpdatedTransaction
  <2> HIDE DEF t
  <2> QED
    BY <2>1 DEF CompleteTransaction
<1>6. /\ \A v \in verifications' : Requested(v)
      /\ verifications' # {} \/ (verifications' = verifications /\ t.state # "purchased")
  BY <1>5, VerifyAsks, AllRequested
<1> QED
  BY <1>1, <1>3, <1>4, <1>6, RequestsLeft

(* Apple's server says what was paid, or nothing.                          *)
LEMMA ServerKeeps ==
  ASSUME AccessInv, NEW v \in verifications, ServerAnswers(v)
  PROVE  AccessInv'
<1> DEFINE r == [p \in Product |-> IF p \in Entitled THEN paid[p] ELSE 0]
           a == [v EXCEPT !.answer = "receipt", !.receipt = r]
           e == [v EXCEPT !.answer = "error"]
<1>1. /\ now' = now /\ paid' = paid /\ queue' = queue /\ sheet' = sheet /\ approval' = approval
      /\ running' = running /\ activeSubscription' = activeSubscription /\ stored' = stored
      /\ lapse' = lapse /\ buyRequest' = buyRequest
  BY DEF ServerAnswers, apple, access
<1>2. \/ verifications' = (verifications \ {v}) \cup {a}
      \/ verifications' = (verifications \ {v}) \cup {e}
  BY DEF ServerAnswers
<1>3. r \in Receipt /\ \A p \in Product : r[p] <= paid[p]
  BY DEF AccessInv, Typed, Receipt
<1>4. Requested(v)
  BY AllRequested
<1> HIDE DEF r
<1>5. Requested(a) /\ Requested(e)
  BY <1>3, <1>4 DEF Requested
<1> HIDE DEF a, e
<1>6. verifications' # {} /\ \A w \in verifications' : Requested(w)
  BY <1>2, <1>5, AllRequested
<1> QED
  BY <1>1, <1>6, RequestsLeft DEF AccessInv, Typed

(* The settings are swiped away; their request goes on without them.       *)
LEMMA CloseSettingsKeeps ==
  ASSUME AccessInv, CloseSettings
  PROVE  AccessInv'
<1>1. /\ now' = now /\ paid' = paid /\ queue' = queue /\ sheet' = sheet /\ approval' = approval
      /\ running' = running /\ activeSubscription' = activeSubscription /\ stored' = stored
      /\ lapse' = lapse /\ buyRequest' = buyRequest
  BY DEF CloseSettings, apple, access
<1>2. verifications' = {[v EXCEPT !.owned = @ /\ v.for # "restore"] : v \in verifications}
  BY DEF CloseSettings
<1>3. ASSUME NEW v \in verifications
      PROVE  Requested([v EXCEPT !.owned = @ /\ v.for # "restore"])
  BY AllRequested DEF Requested
<1>4. \A w \in verifications' : Requested(w)
  BY <1>2, <1>3
<1>5. ASSUME NEW v \in verifications PROVE verifications' # {}
  <2>1. [v EXCEPT !.owned = @ /\ v.for # "restore"] \in verifications'
    BY <1>2
  <2> QED
    BY <2>1
<1>6. Announced => Announced'
  BY <1>1 DEF Announced
<1> QED
  BY <1>1, <1>4, <1>5, <1>6, RequestsLeft DEF AccessInv, Typed

(* Restored transactions come behind what is queued.                       *)
LEMMA RestoredKeeps ==
  ASSUME AccessInv, RestoredTransactions
  PROVE  AccessInv'
<1>1. /\ now' = now /\ paid' = paid /\ sheet' = sheet /\ approval' = approval
      /\ running' = running /\ activeSubscription' = activeSubscription /\ stored' = stored
      /\ lapse' = lapse /\ buyRequest' = buyRequest /\ verifications' = verifications
  BY DEF RestoredTransactions, access
<1>2. PICK past \in PastPurchases :
        queue' = queue \o [i \in DOMAIN past |-> [product |-> past[i], state |-> "restored"]]
  BY DEF RestoredTransactions
<1>3. PICK n \in 0 .. Len(Products) : past \in [1 .. n -> Product]
  BY DEF PastPurchases
<1> DEFINE more == [i \in DOMAIN past |-> [product |-> past[i], state |-> "restored"]]
<1>4. more \in Seq(Transaction)
  <2>1. n \in Nat
    BY LenProperties
  <2>2. more \in [1 .. n -> Transaction]
    BY <1>3 DEF Transaction
  <2> QED
    BY <2>1, <2>2, SeqDef
<1> HIDE DEF more
<1>5. queue \in Seq(Transaction) /\ queue' = queue \o more
  BY <1>2 DEF AccessInv, Typed, more
<1>6. /\ queue' \in Seq(Transaction) /\ Len(queue') = Len(queue) + Len(more)
      /\ Len(queue) \in Nat /\ Len(more) \in Nat
      /\ \A i \in 1 .. Len(queue) + Len(more) :
           queue'[i] = IF i <= Len(queue) THEN queue[i] ELSE more[i - Len(queue)]
  BY <1>4, <1>5, ConcatProperties, LenProperties
<1>7. Announced => Announced'
  <2> SUFFICES ASSUME NEW i \in 1 .. Len(queue), queue[i].state = "purchased"
               PROVE  Announced'
    BY DEF Announced
  <2>1. i \in 1 .. Len(queue') /\ i \in 1 .. Len(queue) + Len(more) /\ i <= Len(queue)
    BY <1>6
  <2>2. queue'[i] = queue[i]
    BY <1>6, <2>1
  <2> QED
    BY <2>1, <2>2 DEF Announced
<1> QED
  BY <1>1, <1>6, <1>7, AllRequested, RequestsLeft

(* The restore is over; what it found is verified.                         *)
LEMMA RestoreFinishedKeeps ==
  ASSUME AccessInv, RestoreFinished
  PROVE  AccessInv'
<1>1. /\ now' = now /\ paid' = paid /\ queue' = queue /\ sheet' = sheet /\ approval' = approval
      /\ running' = running /\ activeSubscription' = activeSubscription /\ stored' = stored
      /\ lapse' = lapse /\ buyRequest' = buyRequest
  BY DEF RestoreFinished, apple, access
<1>2. VerifyPurchases("restore", restoreOwned) \/ verifications' = verifications
  BY DEF RestoreFinished
<1>3. /\ \A v \in verifications' : Requested(v)
      /\ verifications # {} => verifications' # {}
  BY <1>2, VerifyAsks, AllRequested
<1>4. Announced => Announced'
  BY <1>1 DEF Announced
<1> QED
  BY <1>1, <1>3, <1>4, RequestsLeft DEF AccessInv, Typed

(* A verification's answer replaces what the app knows, in memory and in   *)
(* the user defaults.                                                      *)
LEMMA DoneKeeps ==
  ASSUME AccessInv, NEW v \in verifications, VerificationDone(v)
  PROVE  AccessInv'
<1>1. /\ now' = now /\ paid' = paid /\ queue' = queue /\ sheet' = sheet /\ approval' = approval
      /\ running' = running /\ buyRequest' = buyRequest
      /\ verifications' = verifications \ {v}
      /\ stored' = activeSubscription'
      /\ activeSubscription' = IF v.answer = "error" THEN None
                               ELSE UpdateSubscriptionsWithReceipt(v.receipt)
  BY DEF VerificationDone, apple
<1>2. Requested(v) /\ v.answer # "none" /\ v.receipt \in [Product -> Nat]
  BY AllRequested DEF VerificationDone, Requested, Receipt
<1>3. paid \in [Product -> Nat] /\ now \in Nat
  BY DEF AccessInv, Typed, Receipt
<1>4. \/ activeSubscription' = None /\ (v.answer = "error" \/ \A p \in Product : v.receipt[p] = 0)
      \/ \E p \in Product :
           activeSubscription' = [period |-> p, expirationDate |-> v.receipt[p]]
  BY <1>1, <1>2, SubscriptionOfReceipt DEF Requested
<1>5. activeSubscription' \in Subsciption \cup {None}
      /\ (activeSubscription' # None =>
            activeSubscription'.expirationDate <= paid[activeSubscription'.period])
  BY <1>2, <1>4 DEF Requested, Subsciption
<1>6. Typed'
  BY <1>1, <1>5 DEF AccessInv, Typed
<1>7. PaidInv'
  BY <1>1, <1>5 DEF AccessInv, PaidInv, PaidUntil
<1>8. StoredInv'
  BY <1>1 DEF StoredInv
<1>9. PromiseInv'
  <2> SUFFICES ASSUME lapse' = "none", Entitled # {}
               PROVE  Known'
    BY <1>1, <1>3 DEF PromiseInv, Entitled
  <2>1. /\ v.answer # "error"
        /\ v.answer = "receipt" => ~(\E p \in Entitled : v.receipt[p] < paid[p])
        /\ v.answer = "receipt" /\ subscribed' =>
             ~(\E p \in Entitled : paid[p] > activeSubscription'.expirationDate)
    BY Zenon DEF VerificationDone
  <2>2. v.answer = "receipt"
    BY <1>2, <2>1 DEF Requested
  <2>3. PICK p \in Entitled : paid[p] > now /\ p \in Product
    BY DEF Entitled
  <2>4. v.receipt[p] # 0
    BY <1>2, <1>3, <2>1, <2>2, <2>3
  <2>5. activeSubscription' # None
    <3>1. \E q \in Product :
            activeSubscription' = [period |-> q, expirationDate |-> v.receipt[q]]
      BY <1>4, <2>1, <2>3, <2>4
    <3> QED
      BY <1>2, <3>1 DEF Subsciption
  <2>6. ASSUME NEW q \in Entitled PROVE paid[q] <= activeSubscription'.expirationDate
    <3>1. ~(paid[q] > activeSubscription'.expirationDate)
      BY <2>1, <2>2, <2>5 DEF subscribed
    <3>2. paid[q] \in Nat /\ activeSubscription'.expirationDate \in Nat
      BY <1>3, <1>5, <2>5 DEF Entitled, Subsciption
    <3> QED
      BY <3>1, <3>2
  <2>7. Entitled' = Entitled
    BY <1>1 DEF Entitled
  <2> QED
    BY <1>1, <2>5, <2>6, <2>7 DEF Known
<1> QED
  BY <1>6, <1>7, <1>8, <1>9 DEF AccessInv

-----------------------------------------------------------------------------
(* Nothing is paid for and nothing is known.                               *)
LEMMA InitAccess == Init => AccessInv
<1> SUFFICES ASSUME Init PROVE AccessInv
  OBVIOUS
<1>1. Typed
  BY DEF Init, Typed, Receipt
<1>2. PaidInv /\ StoredInv
  BY DEF Init, PaidInv, PaidUntil, StoredInv
<1>3. Entitled = {}
  BY DEF Init, Entitled
<1> QED
  BY <1>1, <1>2, <1>3 DEF AccessInv, PromiseInv

(* Every step keeps the invariant.                                         *)
LEMMA NextAccess == AccessInv /\ [Next]_vars => AccessInv'
<1> SUFFICES ASSUME AccessInv, [Next]_vars PROVE AccessInv'
  OBVIOUS
<1>1. /\ sheet \in Product \cup {None} /\ approval \in Product \cup {None}
      /\ buyRequest \in Product \cup {None}
  BY DEF AccessInv, Typed
<1>2. CASE OpenPaywall \/ ProductInfo \/ PaymentUnavailable \/ AlertOK \/ ClosePaywall
  <2>1. UNCHANGED <<apple, running, access, verifications>> /\ buyRequest' \in {buyRequest, None}
    BY <1>2 DEF OpenPaywall, ProductInfo, PaymentUnavailable, AlertOK, ClosePaywall
  <2> QED
    BY <1>1, <2>1, AccessLeft DEF apple, access
<1>3. CASE OpenSettings \/ MessageOK \/ OnRestorePurchases \/ RestoreFails
  <2>1. UNCHANGED <<apple, running, access, verifications, buyRequest>>
    BY <1>3 DEF OpenSettings, MessageOK, OnRestorePurchases, RestoreFails
  <2> QED
    BY <1>1, <2>1, AccessLeft DEF apple, access
<1>4. ASSUME NEW p \in Product, Continue(p) PROVE AccessInv'
  BY <1>1, <1>4, AccessLeft DEF Continue, apple, access
<1>5. CASE StartPayment
  BY <1>1, <1>5, AccessLeft DEF StartPayment, access
<1>6. CASE Pay
  <2>1. sheet \in Product
    BY <1>1, <1>6 DEF Pay
  <2> QED
    BY <1>1, <1>6, <2>1, AppleKeeps DEF Pay
<1>7. CASE PaymentFails
  <2>1. sheet \in Product
    BY <1>1, <1>7 DEF PaymentFails
  <2> QED
    BY <1>1, <1>7, <2>1, AppleKeeps DEF PaymentFails
<1>8. CASE AskToBuy
  <2>1. sheet \in Product
    BY <1>1, <1>8 DEF AskToBuy
  <2> QED
    BY <1>1, <1>8, <2>1, AppleKeeps DEF AskToBuy
<1>9. CASE ParentDecides
  <2>1. approval \in Product /\ now' = now /\ approval' = None /\ sheet' = sheet /\ UNCHANGED inApp
    BY <1>1, <1>9 DEF ParentDecides
  <2>2. \/ paid' = Charged(approval) /\ queue' = Queued(approval, "purchased")
        \/ paid' = paid /\ queue' = Queued(approval, "failed")
    BY <1>9 DEF ParentDecides
  <2> QED
    BY <1>1, <2>1, <2>2, AppleKeeps
<1>10. ASSUME NEW p \in Product, Renew(p) PROVE AccessInv'
  BY <1>1, <1>10, AppleKeeps DEF Renew
<1>11. CASE UNCHANGED vars
  BY <1>1, <1>11, AccessLeft DEF vars, apple, access
<1> QED
  BY <1>2, <1>3, <1>4, <1>5, <1>6, <1>7, <1>8, <1>9, <1>10, <1>11, LaunchKeeps, KillKeeps,
     TickKeeps, TransactionKeeps, ServerKeeps, DoneKeeps, CloseSettingsKeeps, RestoredKeeps,
     RestoreFinishedKeeps DEF Next

(* The invariant of what the app knows.                                    *)
THEOREM AccessInvariant == Spec => []AccessInv
  BY InitAccess, NextAccess, PTL DEF Spec

(* Whatever is lost, repeated, overtaken or cut off between StoreKit,      *)
(* Apple's server and BuyProService, the app only knows subscriptions      *)
(* that were paid for, and the user defaults agree with memory or have run *)
(* out: for every list of products and every number of faults.             *)
THEOREM OnlyPaidFor == Spec => []PaidFor
<1>1. AccessInv => PaidFor
  BY DEF AccessInv, PaidInv, PaidUntil, StoredInv, PaidFor, subscribed
<1> QED
  BY <1>1, AccessInvariant, PTL

(* Although SwiftyStoreKit finishes a transaction before its receipt is    *)
(* verified, a user who has paid is subscribed once every transaction and  *)
(* every verification is handled, unless the last answer was an error, was *)
(* overtaken, was cut off, or named a product that runs out first.         *)
THEOREM PaymentsArrive == Spec => []PaidIsActive
<1>1. AccessInv => PaidIsActive
  <2> SUFFICES ASSUME AccessInv, running, queue = <<>>, verifications = {}, Entitled # {},
                      lapse = "none"
               PROVE  activeSubscription # None
    BY DEF PaidIsActive, Quiescent, subscribed
  <2>1. ~Announced
    BY DEF Announced
  <2>2. Known
    BY <2>1 DEF AccessInv, PromiseInv
  <2>3. PICK p \in Entitled : p \in Product /\ paid[p] > now
    BY DEF Entitled
  <2>4. stored.expirationDate \in Nat /\ paid[p] \in Nat /\ now \in Nat
    BY <2>2, <2>3 DEF AccessInv, Typed, Known, Subsciption, Receipt
  <2>5. ~(stored.expirationDate <= now)
    BY <2>2, <2>3, <2>4 DEF Known
  <2> QED
    BY <2>2, <2>5 DEF AccessInv, StoredInv, Known
<1> QED
  BY <1>1, AccessInvariant, PTL

-----------------------------------------------------------------------------
(* The types of what AccessInv leaves open: the counters and the flags...  *)
Counters == now \in 0 .. MaxTime /\ faults \in 0 .. MaxFaults

AppFlags ==
  /\ running \in BOOLEAN
  /\ productsReady \in BOOLEAN
  /\ infoWaiters \subseteq {"launch", "paywall"}
  /\ payments \subseteq Product
  /\ lapse \in {"none", "failed", "overtaken", "cut off", "shorter"}

RestoreFlags ==
  /\ restoring \in {"none", "asked", "answered"}
  /\ restored \in BOOLEAN
  /\ restoreOwned \in BOOLEAN

ScreenFlags ==
  /\ paywall \in BOOLEAN
  /\ isLoading \in BOOLEAN
  /\ alert \in {"none", "purchased", "unknown", "error"}
  /\ settings \in {"closed", "idle", "restoring", "dropped"}
  /\ message \in {"none", "Restore failed", "Nothing to Restore", "Restored Successfully"}

(* ... and the verifications, whose numbers are free as long as no more is *)
(* under way than the bound and one restored transaction per product.      *)
Bounded ==
  /\ IsFiniteSet(verifications)
  /\ Load <= MaxInFlight + Len(Products)
  /\ restoring = "asked" => Load <= MaxInFlight

LEMMA CountersKeep ==
  ASSUME Counters, [Next]_vars
  PROVE  Counters'
<1>0. MaxTime \in Nat /\ MaxFaults \in Nat
  OBVIOUS
<1> HIDE SubscriptionAssumption
<1>1. CASE Tick
  <2>1. now < MaxTime /\ now' = now + 1 /\ faults' = faults
    BY <1>1, Zenon DEF Tick
  <2> QED
    BY <1>0, <2>1 DEF Counters
<1>2. ASSUME now' = now, faults' = faults \/ (faults < MaxFaults /\ faults' = faults + 1)
      PROVE  Counters'
  BY <1>0, <1>2 DEF Counters
<1>3. CASE Kill
  BY <1>2, <1>3, Zenon DEF Kill, apple
<1>4. ASSUME NEW v \in verifications, ServerAnswers(v) PROVE Counters'
  BY <1>2, <1>4, Zenon DEF ServerAnswers, apple
<1>5. CASE Pay \/ PaymentFails \/ AskToBuy \/ ParentDecides \/ \E p \in Product : Renew(p)
  BY <1>2, <1>5, Zenon DEF Pay, PaymentFails, AskToBuy, ParentDecides, Renew, inApp
<1>6. CASE UpdatedTransaction \/ RestoredTransactions \/ StartPayment
  BY <1>2, <1>6, Zenon DEF UpdatedTransaction, RestoredTransactions, StartPayment
<1>7. CASE Launch \/ OpenPaywall \/ ProductInfo \/ \E p \in Product : Continue(p)
  BY <1>2, <1>7, Zenon DEF Launch, OpenPaywall, ProductInfo, Continue, apple
<1>8. CASE PaymentUnavailable \/ AlertOK \/ ClosePaywall \/ OpenSettings
  BY <1>2, <1>8, Zenon DEF PaymentUnavailable, AlertOK, ClosePaywall, OpenSettings, apple
<1>9. CASE CloseSettings \/ MessageOK \/ OnRestorePurchases \/ RestoreFinished \/ RestoreFails
  BY <1>2, <1>9, Zenon DEF CloseSettings, MessageOK, OnRestorePurchases, RestoreFinished,
                          RestoreFails, apple
<1>10. CASE \E v \in verifications : VerificationDone(v)
  BY <1>2, <1>10, Zenon DEF VerificationDone, apple
<1>11. CASE UNCHANGED vars
  BY <1>2, <1>11, Zenon DEF vars, apple
<1> QED
  BY <1>1, <1>3, <1>4, <1>5, <1>6, <1>7, <1>8, <1>9, <1>10, <1>11, Zenon DEF Next

LEMMA AppFlagsKeep ==
  ASSUME AppFlags, AccessInv, [Next]_vars
  PROVE  AppFlags'
<1>0. buyRequest \in Product \cup {None}
  BY DEF AccessInv, Typed
<1> HIDE SubscriptionAssumption
<1>1. ASSUME UNCHANGED <<running, productsReady, infoWaiters, payments, lapse>>
      PROVE  AppFlags'
  BY <1>1, Zenon DEF AppFlags
<1>2. CASE Launch
  <2>1. /\ running' = TRUE /\ infoWaiters' = {"launch"} /\ productsReady' = FALSE
        /\ UNCHANGED <<lapse, payments>>
    BY <1>2, Zenon DEF Launch
  <2> QED
    BY <2>1, Zenon DEF AppFlags
<1>3. CASE Kill
  <2>1. /\ running' = FALSE /\ infoWaiters' = {} /\ payments' = {} /\ productsReady' = productsReady
        /\ lapse' \in {lapse, "cut off"}
    BY <1>3, Zenon DEF Kill
  <2> QED
    BY <2>1, Zenon DEF AppFlags
<1>4. CASE OpenPaywall
  <2>1. /\ UNCHANGED <<running, productsReady, payments, lapse>>
        /\ infoWaiters' \in {infoWaiters, infoWaiters \cup {"paywall"}}
    BY <1>4, Zenon DEF OpenPaywall, access
  <2> QED
    BY <2>1, Zenon DEF AppFlags
<1>5. CASE ProductInfo
  <2>1. /\ UNCHANGED <<running, payments, lapse>>
        /\ infoWaiters' = {} /\ productsReady' \in BOOLEAN
    BY <1>5, Zenon DEF ProductInfo, access
  <2> QED
    BY <2>1, Zenon DEF AppFlags
<1>6. CASE StartPayment
  <2>1. /\ UNCHANGED <<running, productsReady, infoWaiters, lapse>>
        /\ payments' = payments \cup {buyRequest} /\ buyRequest # None
    BY <1>6, Zenon DEF StartPayment, access, info
  <2> QED
    BY <1>0, <2>1, Zenon DEF AppFlags
<1>7. CASE UpdatedTransaction
  <2>1. UNCHANGED <<running, productsReady, infoWaiters, lapse>>
    BY <1>7, Zenon DEF UpdatedTransaction, access, info
  <2>2. payments' \subseteq payments
    BY <1>7 DEF UpdatedTransaction
  <2> QED
    BY <2>1, <2>2, Zenon DEF AppFlags
<1>8. ASSUME NEW v \in verifications, VerificationDone(v) PROVE AppFlags'
  <2>1. UNCHANGED <<running, productsReady, infoWaiters, payments>>
    BY <1>8, Zenon DEF VerificationDone, info
  <2>2. lapse' \in {"none", "failed", "overtaken", "cut off", "shorter"}
    BY <1>8 DEF VerificationDone
  <2> QED
    BY <2>1, <2>2, Zenon DEF AppFlags
<1>9. ASSUME NEW p \in Product, Continue(p) PROVE AppFlags'
  BY <1>1, <1>9, Zenon DEF Continue, access, info
<1>10. CASE PaymentUnavailable \/ AlertOK \/ ClosePaywall \/ Tick
  BY <1>1, <1>10, Zenon DEF PaymentUnavailable, AlertOK, ClosePaywall, Tick, access, info
<1>11. CASE Pay \/ PaymentFails \/ AskToBuy \/ ParentDecides \/ \E p \in Product : Renew(p)
  BY <1>1, <1>11, Zenon DEF Pay, PaymentFails, AskToBuy, ParentDecides, Renew, inApp, access, info
<1>12. ASSUME NEW v \in verifications, ServerAnswers(v) PROVE AppFlags'
  BY <1>1, <1>12, Zenon DEF ServerAnswers, access, info
<1>13. CASE OpenSettings \/ CloseSettings \/ MessageOK \/ OnRestorePurchases
  BY <1>1, <1>13, Zenon DEF OpenSettings, CloseSettings, MessageOK, OnRestorePurchases, access, info
<1>14. CASE RestoredTransactions \/ RestoreFinished \/ RestoreFails
  BY <1>1, <1>14, Zenon DEF RestoredTransactions, RestoreFinished, RestoreFails, access, info
<1>15. CASE UNCHANGED vars
  BY <1>1, <1>15, Zenon DEF vars, access, info
<1> QED
  BY <1>2, <1>3, <1>4, <1>5, <1>6, <1>7, <1>8, <1>9, <1>10, <1>11, <1>12, <1>13, <1>14, <1>15,
     Zenon DEF Next

LEMMA RestoreFlagsKeep ==
  ASSUME RestoreFlags, [Next]_vars
  PROVE  RestoreFlags'
<1> HIDE SubscriptionAssumption
<1>1. ASSUME UNCHANGED restore PROVE RestoreFlags'
  BY <1>1, Zenon DEF RestoreFlags, restore
<1>2. CASE Kill \/ RestoreFinished \/ RestoreFails
  <2>1. restoring' = "none" /\ restored' = FALSE /\ restoreOwned' = FALSE
    BY <1>2, Zenon DEF Kill, RestoreFinished, RestoreFails
  <2> QED
    BY <2>1, Zenon DEF RestoreFlags
<1>3. CASE UpdatedTransaction
  <2>1. restoring' = restoring /\ restoreOwned' = restoreOwned /\ restored' \in {restored, TRUE}
    BY <1>3, Zenon DEF UpdatedTransaction
  <2> QED
    BY <2>1, Zenon DEF RestoreFlags
<1>4. CASE CloseSettings
  BY <1>4, Zenon DEF CloseSettings, RestoreFlags
<1>5. CASE OnRestorePurchases
  <2>1. CASE restoring = "none"
    BY <1>5, <2>1, Zenon DEF OnRestorePurchases, RestoreFlags
  <2>2. CASE restoring # "none"
    BY <1>1, <1>5, <2>2, Zenon DEF OnRestorePurchases
  <2> QED
    BY <2>1, <2>2
<1>6. CASE RestoredTransactions
  BY <1>6, Zenon DEF RestoredTransactions, RestoreFlags
<1>7. CASE Pay \/ PaymentFails \/ AskToBuy \/ ParentDecides \/ \E p \in Product : Renew(p)
  BY <1>1, <1>7, Zenon DEF Pay, PaymentFails, AskToBuy, ParentDecides, Renew, inApp
<1>8. CASE Launch \/ OpenPaywall \/ ProductInfo \/ \E p \in Product : Continue(p)
  BY <1>1, <1>8, Zenon DEF Launch, OpenPaywall, ProductInfo, Continue
<1>9. CASE StartPayment \/ PaymentUnavailable \/ AlertOK \/ ClosePaywall \/ Tick
  BY <1>1, <1>9, Zenon DEF StartPayment, PaymentUnavailable, AlertOK, ClosePaywall, Tick
<1>10. ASSUME NEW v \in verifications, ServerAnswers(v) \/ VerificationDone(v) PROVE RestoreFlags'
  BY <1>1, <1>10, Zenon DEF ServerAnswers, VerificationDone
<1>11. CASE OpenSettings \/ MessageOK \/ UNCHANGED vars
  BY <1>1, <1>11, Zenon DEF OpenSettings, MessageOK, vars
<1> QED
  BY <1>2, <1>3, <1>4, <1>5, <1>6, <1>7, <1>8, <1>9, <1>10, <1>11, Zenon DEF Next

LEMMA VerifiedFlags ==
  ASSUME ScreenFlags, NEW v, Verified(v)
  PROVE  /\ isLoading' \in BOOLEAN
         /\ alert' \in {"none", "purchased", "unknown", "error"}
         /\ settings' \in {"closed", "idle", "restoring", "dropped"}
         /\ message' \in {"none", "Restore failed", "Nothing to Restore", "Restored Successfully"}
<1> HIDE SubscriptionAssumption
<1>1. CASE v.for = "purchase"
  <2>1. isLoading' = FALSE /\ alert' \in {"purchased", "unknown"} /\ UNCHANGED <<settings, message>>
    BY <1>1 DEF Verified, settingsScreen
  <2> QED
    BY <2>1, Zenon DEF ScreenFlags
<1>2. CASE v.for # "purchase" /\ v.for = "restore" /\ v.owned
  <2>1. /\ settings' = "idle" /\ message' \in {"Restored Successfully", "Nothing to Restore"}
        /\ UNCHANGED <<isLoading, alert>>
    BY <1>2 DEF Verified
  <2> QED
    BY <2>1, Zenon DEF ScreenFlags
<1>3. CASE v.for # "purchase" /\ ~(v.for = "restore" /\ v.owned)
  <2>1. UNCHANGED <<isLoading, alert, settings, message>>
    BY <1>3 DEF Verified, settingsScreen
  <2> QED
    BY <2>1, Zenon DEF ScreenFlags
<1> QED
  BY <1>1, <1>2, <1>3, Zenon

LEMMA ScreenFlagsKeep ==
  ASSUME ScreenFlags, [Next]_vars
  PROVE  ScreenFlags'
<1> HIDE SubscriptionAssumption
<1>1. ASSUME UNCHANGED <<paywallScreen, settingsScreen>> PROVE ScreenFlags'
  BY <1>1, Zenon DEF ScreenFlags, paywallScreen, settingsScreen
<1>2. CASE Kill
  BY <1>2, Zenon DEF Kill, ScreenFlags
<1>3. CASE OpenPaywall
  <2>1. (~productsReady) \in BOOLEAN
    BY Zenon
  <2> QED
    BY <1>3, <2>1, Zenon DEF OpenPaywall, ScreenFlags, settingsScreen
<1>4. CASE ProductInfo
  <2>1. isLoading' \in {isLoading, FALSE} /\ UNCHANGED <<paywall, alert, settings, message>>
    BY <1>4, Zenon DEF ProductInfo, settingsScreen
  <2> QED
    BY <2>1, Zenon DEF ScreenFlags
<1>5. ASSUME NEW p \in Product, Continue(p) PROVE ScreenFlags'
  BY <1>5, Zenon DEF Continue, ScreenFlags, settingsScreen
<1>6. CASE PaymentUnavailable
  BY <1>6, Zenon DEF PaymentUnavailable, ScreenFlags, settingsScreen
<1>7. CASE AlertOK
  <2>1. (~subscribed) \in BOOLEAN
    BY Zenon
  <2> QED
    BY <1>7, <2>1, Zenon DEF AlertOK, ScreenFlags, settingsScreen
<1>8. CASE ClosePaywall
  BY <1>8, Zenon DEF ClosePaywall, ScreenFlags, settingsScreen
<1>9. CASE UpdatedTransaction
  <2>1. /\ isLoading' \in {isLoading, FALSE} /\ alert' \in {alert, "none", "error"}
        /\ UNCHANGED <<paywall, settings, message>>
    BY <1>9, Zenon DEF UpdatedTransaction, settingsScreen
  <2> QED
    BY <2>1, Zenon DEF ScreenFlags
<1>10. ASSUME NEW v \in verifications, VerificationDone(v) PROVE ScreenFlags'
  <2>1. Verified(v) /\ paywall' = paywall
    BY <1>10, Zenon DEF VerificationDone
  <2>2. /\ isLoading' \in BOOLEAN
        /\ alert' \in {"none", "purchased", "unknown", "error"}
        /\ settings' \in {"closed", "idle", "restoring", "dropped"}
        /\ message' \in {"none", "Restore failed", "Nothing to Restore", "Restored Successfully"}
    BY <2>1, VerifiedFlags
  <2> QED
    BY <2>1, <2>2, Zenon DEF ScreenFlags
<1>11. CASE OpenSettings \/ CloseSettings \/ OnRestorePurchases
  <2>1. settings' \in {"closed", "idle", "restoring", "dropped"}
    BY <1>11, Zenon DEF OpenSettings, CloseSettings, OnRestorePurchases
  <2>2. UNCHANGED <<paywall, isLoading, alert, message>>
    BY <1>11, Zenon DEF OpenSettings, CloseSettings, OnRestorePurchases, paywallScreen
  <2> QED
    BY <2>1, <2>2, Zenon DEF ScreenFlags
<1>12. CASE MessageOK
  BY <1>12, Zenon DEF MessageOK, ScreenFlags, paywallScreen
<1>13. CASE RestoreFinished \/ RestoreFails
  <2>1. /\ settings' \in {settings, "idle"}
        /\ message' \in {message, "Nothing to Restore", "Restore failed"}
    BY <1>13, Zenon DEF RestoreFinished, RestoreFails, RestoreSays, settingsScreen
  <2>2. UNCHANGED <<paywall, isLoading, alert>>
    BY <1>13, Zenon DEF RestoreFinished, RestoreFails, paywallScreen
  <2> QED
    BY <2>1, <2>2, Zenon DEF ScreenFlags
<1>14. CASE Pay \/ PaymentFails \/ AskToBuy \/ ParentDecides \/ \E p \in Product : Renew(p)
  BY <1>1, <1>14, Zenon DEF Pay, PaymentFails, AskToBuy, ParentDecides, Renew, inApp
<1>15. CASE Launch \/ StartPayment \/ Tick \/ RestoredTransactions \/ UNCHANGED vars
  BY <1>1, <1>15, Zenon DEF Launch, StartPayment, Tick, RestoredTransactions, vars
<1>16. ASSUME NEW v \in verifications, ServerAnswers(v) PROVE ScreenFlags'
  BY <1>1, <1>16, Zenon DEF ServerAnswers
<1> QED
  BY <1>2, <1>3, <1>4, <1>5, <1>6, <1>7, <1>8, <1>9, <1>10, <1>11, <1>12, <1>13, <1>14, <1>15,
     <1>16, Zenon DEF Next

-----------------------------------------------------------------------------
LEMMA CardinalityAdd ==
  ASSUME NEW S, IsFiniteSet(S), NEW x
  PROVE  /\ IsFiniteSet(S \cup {x}) /\ Cardinality(S) \in Nat
         /\ Cardinality(S \cup {x}) \in Nat /\ Cardinality(S \cup {x}) <= Cardinality(S) + 1
<1>1. Cardinality(S) \in Nat
  BY FS_CardinalityType
<1>2. IsFiniteSet(S \cup {x})
  BY FS_AddElement
<1>3. Cardinality(S \cup {x}) = IF x \in S THEN Cardinality(S) ELSE Cardinality(S) + 1
  BY FS_AddElement
<1> DEFINE m == Cardinality(S)
           n == Cardinality(S \cup {x})
<1>4. m \in Nat /\ (n = m \/ n = m + 1)
  BY <1>1, <1>3
<1> HIDE DEF m, n
<1>5. n \in Nat /\ n <= m + 1
  BY <1>4
<1> QED
  BY <1>1, <1>2, <1>5 DEF m, n

LEMMA CardinalityReplace ==
  ASSUME NEW S, IsFiniteSet(S), NEW v \in S, NEW x
  PROVE  /\ IsFiniteSet(S \ {v}) /\ Cardinality(S \ {v}) \in Nat
         /\ Cardinality(S \ {v}) <= Cardinality(S)
         /\ IsFiniteSet((S \ {v}) \cup {x}) /\ Cardinality((S \ {v}) \cup {x}) \in Nat
         /\ Cardinality((S \ {v}) \cup {x}) <= Cardinality(S)
<1> DEFINE T == S \ {v}
           m == Cardinality(S)
           k == Cardinality(T)
           n == Cardinality(T \cup {x})
<1>1. IsFiniteSet(T) /\ k = m - 1
  BY FS_RemoveElement
<1>2. m \in Nat /\ k \in Nat
  BY <1>1, FS_CardinalityType
<1> HIDE DEF T
<1>3. IsFiniteSet(T \cup {x}) /\ n \in Nat /\ n <= k + 1
  BY <1>1, CardinalityAdd
<1> HIDE DEF m, n, k
<1>4. k <= m /\ n <= m
  BY <1>1, <1>2, <1>3
<1> QED
  BY <1>1, <1>2, <1>3, <1>4 DEF T, m, n, k

LEMMA CardinalityImage ==
  ASSUME NEW S, IsFiniteSet(S), NEW f, DOMAIN f = S, f = [x \in S |-> f[x]]
  PROVE  /\ IsFiniteSet({f[x] : x \in S}) /\ Cardinality({f[x] : x \in S}) \in Nat
         /\ Cardinality({f[x] : x \in S}) <= Cardinality(S)
<1> DEFINE T == {f[x] : x \in S}
<1>1. f \in Surjection(S, T)
  BY DEF Surjection
<1> HIDE DEF T
<1>2. IsFiniteSet(T) /\ Cardinality(T) <= Cardinality(S)
  BY <1>1, FS_Surjection
<1>3. Cardinality(T) \in Nat
  BY <1>2, FS_CardinalityType
<1> QED
  BY <1>2, <1>3 DEF T

(* Fewer verifications than numbers leave a number free.                   *)
LEMMA FreeIdIsFree ==
  ASSUME IsFiniteSet(verifications),
         Cardinality(verifications) < MaxInFlight + Len(Products)
  PROVE  FreeId \in Ids
<1>1. \E i \in Ids : \A v \in verifications : v.id # i
  <2> SUFFICES ASSUME \A i \in Ids : \E v \in verifications : v.id = i PROVE FALSE
    OBVIOUS
  <2> DEFINE f == [i \in Ids |-> CHOOSE v \in verifications : v.id = i]
  <2>1. ASSUME NEW i \in Ids PROVE f[i] \in verifications /\ f[i].id = i
    BY <2>1
  <2>2. f \in [Ids -> verifications]
    BY <2>1
  <2>3. IsFiniteSet(Ids) /\ Cardinality(Ids) = MaxInFlight + Len(Products)
    <3> DEFINE b == MaxInFlight + Len(Products)
    <3>1. b \in Int /\ 1 \in Int /\ ~(1 > b) /\ b - 1 + 1 = b
      BY LenProperties
    <3> HIDE DEF b
    <3>2. IsFiniteSet(1 .. b) /\ Cardinality(1 .. b) = b
      BY <3>1, FS_Interval
    <3> QED
      BY <3>2 DEF Ids, b
  <2> HIDE DEF f
  <2>4. \E x, y \in Ids : x # y /\ f[x] = f[y]
    <3>1. Cardinality(verifications) < Cardinality(Ids)
      BY <2>3
    <3> QED
      BY <2>2, <2>3, <3>1, FS_PigeonHole
  <2> QED
    BY <2>1, <2>4
<1> QED
  BY <1>1 DEF FreeId

LEMMA PendingType == \A x : Pending(x) \in {0, 1} /\ Pending(None) = 0 /\ (x # None => Pending(x) = 1)
  BY DEF Pending

(* What is under way, as a sum of numbers.                                 *)
Restores(r) == IF r = "none" THEN 0 ELSE 1
Sum == Pending(sheet) + Pending(approval) + Pending(buyRequest) + Restores(restoring)

LEMMA LoadParts ==
  ASSUME AccessInv, IsFiniteSet(verifications)
  PROVE  /\ Len(queue) \in Nat /\ Cardinality(verifications) \in Nat /\ Sum \in Nat
         /\ Load \in Nat /\ Load = Len(queue) + Cardinality(verifications) + Sum
         /\ MaxInFlight \in Nat /\ Len(Products) \in Nat
<1>1. Len(queue) \in Nat /\ Len(Products) \in Nat /\ MaxInFlight \in Nat
  BY LenProperties DEF AccessInv, Typed
<1>2. Cardinality(verifications) \in Nat
  BY FS_CardinalityType
<1>3. /\ Pending(sheet) \in {0, 1} /\ Pending(approval) \in {0, 1} /\ Pending(buyRequest) \in {0, 1}
      /\ Restores(restoring) \in {0, 1}
  BY PendingType DEF Restores
<1>4. Sum \in Nat
  BY <1>3 DEF Sum
<1>5. Load = Len(queue) + Cardinality(verifications) + Sum
  BY <1>1, <1>2, <1>3 DEF Load, Sum, Restores
<1> QED
  BY <1>1, <1>2, <1>4, <1>5

LEMMA LoadPartsNext ==
  ASSUME AccessInv', IsFiniteSet(verifications')
  PROVE  /\ Len(queue') \in Nat /\ Cardinality(verifications') \in Nat /\ Sum' \in Nat
         /\ Load' \in Nat /\ Load' = Len(queue') + Cardinality(verifications') + Sum'
<1>1. Len(queue') \in Nat
  BY LenProperties DEF AccessInv, Typed
<1>2. Cardinality(verifications') \in Nat
  BY FS_CardinalityType
<1>3. /\ Pending(sheet') \in {0, 1} /\ Pending(approval') \in {0, 1}
      /\ Pending(buyRequest') \in {0, 1} /\ Restores(restoring') \in {0, 1}
  BY PendingType DEF Restores
<1>4. Sum' \in Nat
  BY <1>3 DEF Sum, Pending, Restores
<1>5. Load' = Len(queue') + Cardinality(verifications') + Sum'
  <2> DEFINE s == Pending(sheet')
             a == Pending(approval')
             b == Pending(buyRequest')
             r == Restores(restoring')
  <2>1. Load' = Len(queue') + Cardinality(verifications') + s + a + b + r
    BY Zenon DEF Load, Pending, Restores
  <2>2. Sum' = s + a + b + r
    BY Zenon DEF Sum, Pending, Restores
  <2> HIDE DEF s, a, b, r
  <2> QED
    BY <1>1, <1>2, <1>3, <2>1, <2>2 DEF s, a, b, r
<1> QED
  BY <1>1, <1>2, <1>4, <1>5

LEMMA SumNext ==
  Sum' = Pending(sheet') + Pending(approval') + Pending(buyRequest') + Restores(restoring')
  BY Zenon DEF Sum, Pending, Restores

LEMMA RestoresType ==
  \A r : Restores(r) \in {0, 1} /\ Restores("none") = 0 /\ (r # "none" => Restores(r) = 1)
  BY DEF Restores

(* Steps that end what is under way, and steps that start one thing more.  *)
LEMMA SumSteps ==
  /\ /\ sheet' \in {sheet, None} /\ approval' \in {approval, None}
     /\ buyRequest' \in {buyRequest, None} /\ restoring' \in {restoring, "none"}
     => Sum' <= Sum
  /\ StartPayment => Sum' <= Sum
  /\ UNCHANGED <<approval, buyRequest, restoring>> /\ sheet # None /\ sheet' = None => Sum' = Sum - 1
  /\ UNCHANGED <<sheet, buyRequest, restoring>> /\ approval # None /\ approval' = None
     => Sum' = Sum - 1
  /\ AskToBuy => Sum' = Sum
  /\ UNCHANGED <<sheet, approval, buyRequest, restoring>> => Sum' = Sum
  /\ UNCHANGED <<sheet, approval, restoring>> => Sum' <= Sum + 1
  /\ UNCHANGED <<sheet, approval, buyRequest>> => Sum' <= Sum + 1
  /\ UNCHANGED <<sheet, approval, buyRequest>> /\ restoring # "none" /\ restoring' = "none"
     => Sum' = Sum - 1
<1> DEFINE s == Pending(sheet)
           a == Pending(approval)
           b == Pending(buyRequest)
           r == Restores(restoring)
           sn == Pending(sheet')
           an == Pending(approval')
           bn == Pending(buyRequest')
           rn == Restores(restoring')
<1>1. Sum = s + a + b + r /\ Sum' = sn + an + bn + rn
  BY SumNext DEF Sum
<1>2. /\ s \in {0, 1} /\ a \in {0, 1} /\ b \in {0, 1} /\ r \in {0, 1}
      /\ sn \in {0, 1} /\ an \in {0, 1} /\ bn \in {0, 1} /\ rn \in {0, 1}
  BY PendingType, RestoresType, Zenon
<1>3. /\ sheet' \in {sheet, None} => sn \in {s, 0}
      /\ approval' \in {approval, None} => an \in {a, 0}
      /\ buyRequest' \in {buyRequest, None} => bn \in {b, 0}
      /\ restoring' \in {restoring, "none"} => rn \in {r, 0}
  BY PendingType, RestoresType, Zenon
<1>4. /\ sheet' = sheet => sn = s
      /\ approval' = approval => an = a
      /\ buyRequest' = buyRequest => bn = b
      /\ restoring' = restoring => rn = r
  BY Zenon
<1>5. /\ sheet # None => s = 1
      /\ approval # None => a = 1
      /\ restoring # "none" => r = 1
      /\ sheet' = None => sn = 0
      /\ approval' = None => an = 0
      /\ restoring' = "none" => rn = 0
  BY PendingType, RestoresType, Zenon
<1>6. StartPayment => sn = b /\ bn = 0 /\ an = a /\ rn = r
  BY PendingType, Zenon DEF StartPayment, restore
<1>7. AskToBuy => sn = 0 /\ bn = b /\ an = s /\ a = 0 /\ rn = r
  BY PendingType, Zenon DEF AskToBuy, inApp, restore
<1> HIDE DEF s, a, b, r, sn, an, bn, rn
<1> QED
  BY <1>1, <1>2, <1>3, <1>4, <1>5, <1>6, <1>7

LEMMA QueuedLonger ==
  ASSUME AccessInv, NEW p, NEW s, queue' = Queued(p, s), AccessInv'
  PROVE  Len(queue') = Len(queue) + 1
  BY DEF Queued, AccessInv, Typed

(* A step that puts no more under way than it ends, or starts something    *)
(* below the bound.                                                        *)
LEMMA LoadKeeps ==
  ASSUME AccessInv, AccessInv', Bounded, IsFiniteSet(verifications'), NEW d \in {0, 1},
         Len(queue') + Cardinality(verifications') + Sum'
           <= Len(queue) + Cardinality(verifications) + Sum + d,
         d = 1 => Load < MaxInFlight,
         restoring' = "asked" => restoring = "asked" \/ d = 1
  PROVE  Bounded'
<1> DEFINE l == Load
           k == Load'
<1>1. /\ l \in Nat /\ MaxInFlight \in Nat /\ Len(Products) \in Nat
      /\ l = Len(queue) + Cardinality(verifications) + Sum
      /\ Len(queue) \in Nat /\ Cardinality(verifications) \in Nat /\ Sum \in Nat
  BY LoadParts DEF Bounded
<1>2. k \in Nat /\ k = Len(queue') + Cardinality(verifications') + Sum'
  BY LoadPartsNext
<1>3. l <= MaxInFlight + Len(Products) /\ (restoring = "asked" => l <= MaxInFlight)
  BY DEF Bounded
<1> HIDE DEF l, k
<1>4. k <= l + d
  BY <1>1, <1>2
<1>5. k <= l \/ k <= MaxInFlight
  BY <1>1, <1>2, <1>4 DEF l
<1>6. k <= MaxInFlight + Len(Products)
  BY <1>1, <1>2, <1>3, <1>5
<1>7. restoring' = "asked" => k <= MaxInFlight
  <2>1. CASE d = 1
    BY <1>1, <1>2, <1>4, <2>1 DEF l
  <2>2. CASE d = 0
    BY <1>1, <1>2, <1>3, <1>4, <2>2
  <2> QED
    BY <2>1, <2>2
<1> QED
  BY <1>6, <1>7 DEF Bounded, k

(* The same when the queue and the verifications are left alone.           *)
LEMMA LoadKeepsApp ==
  ASSUME AccessInv, AccessInv', Bounded, queue' = queue, verifications' = verifications,
         NEW d \in {0, 1}, Sum' <= Sum + d, d = 1 => Load < MaxInFlight,
         restoring' = "asked" => restoring = "asked" \/ d = 1
  PROVE  Bounded'
<1>1. IsFiniteSet(verifications') /\ IsFiniteSet(verifications)
  BY DEF Bounded
<1>2. /\ Len(queue') = Len(queue) /\ Cardinality(verifications') = Cardinality(verifications)
      /\ Len(queue) \in Nat /\ Cardinality(verifications) \in Nat /\ Sum \in Nat /\ Sum' \in Nat
  BY <1>1, LoadParts, LoadPartsNext
<1>3. Len(queue') + Cardinality(verifications') + Sum'
        <= Len(queue) + Cardinality(verifications) + Sum + d
  BY <1>2
<1> QED
  BY <1>1, <1>3, LoadKeeps

(* The steps of the screens and the process.                               *)
LEMMA BoundedApp ==
  ASSUME AccessInv, AccessInv', Bounded,
         \/ Launch \/ OpenPaywall \/ ProductInfo \/ StartPayment \/ PaymentUnavailable
         \/ AlertOK \/ ClosePaywall \/ Tick \/ OpenSettings \/ MessageOK \/ RestoreFails
         \/ OnRestorePurchases \/ (\E p \in Product : Continue(p)) \/ UNCHANGED vars
  PROVE  Bounded'
<1> HIDE SubscriptionAssumption
<1>0. Sum \in Nat /\ Sum' \in Nat
  <2>1. IsFiniteSet(verifications)
    BY DEF Bounded
  <2>2. Sum \in Nat
    BY <2>1, LoadParts
  <2>3. Sum' \in Nat
    BY PendingType, RestoresType, SumNext
  <2> QED
    BY <2>2, <2>3
<1>1. CASE OnRestorePurchases
  <2>1. /\ UNCHANGED <<sheet, approval, buyRequest, queue, verifications>>
        /\ Load < MaxInFlight
    BY <1>1, Zenon DEF OnRestorePurchases, apple
  <2>2. Sum' <= Sum + 1
    BY <2>1, SumSteps, Zenon
  <2> QED
    BY <2>1, <2>2, LoadKeepsApp
<1>2. ASSUME NEW p \in Product, Continue(p) PROVE Bounded'
  <2>1. /\ UNCHANGED <<sheet, approval, restoring, queue, verifications>>
        /\ Load < MaxInFlight
    BY <1>2, Zenon DEF Continue, apple, restore
  <2>2. Sum' <= Sum + 1
    BY <2>1, SumSteps, Zenon
  <2> QED
    BY <2>1, <2>2, LoadKeepsApp
<1>3. ASSUME UNCHANGED <<queue, verifications>>, Sum' <= Sum, restoring' \in {restoring, "none"}
      PROVE  Bounded'
  <2>1. Sum' <= Sum + 0
    BY <1>0, <1>3
  <2>2. restoring' = "asked" => restoring = "asked"
    BY <1>3
  <2> QED
    BY <1>3, <2>1, <2>2, LoadKeepsApp
<1>4. CASE StartPayment
  BY <1>3, <1>4, SumSteps, Zenon DEF StartPayment, restore
<1>5. ASSUME UNCHANGED <<queue, verifications, sheet, approval>>,
             buyRequest' \in {buyRequest, None}, restoring' \in {restoring, "none"}
      PROVE  Bounded'
  BY <1>3, <1>5, SumSteps, Zenon
<1>6. CASE Launch \/ OpenPaywall \/ ProductInfo \/ PaymentUnavailable
  BY <1>5, <1>6, Zenon DEF Launch, OpenPaywall, ProductInfo, PaymentUnavailable, apple, restore
<1>7. CASE AlertOK \/ ClosePaywall \/ Tick \/ OpenSettings \/ MessageOK \/ RestoreFails
  BY <1>5, <1>7, Zenon DEF AlertOK, ClosePaywall, Tick, OpenSettings, MessageOK, RestoreFails,
                          apple, restore
<1>8. CASE UNCHANGED vars
  BY <1>5, <1>8, Zenon DEF vars, apple, restore
<1> QED
  BY <1>1, <1>2, <1>4, <1>6, <1>7, <1>8, Zenon

(* The steps that only take verifications away or answer them.             *)
LEMMA BoundedAnswers ==
  ASSUME AccessInv, AccessInv', Bounded,
         \/ Kill \/ CloseSettings
         \/ \E v \in verifications : ServerAnswers(v) \/ VerificationDone(v)
  PROVE  Bounded'
<1> DEFINE m == Cardinality(verifications)
           n == Cardinality(verifications')
<1>0. IsFiniteSet(verifications) /\ m \in Nat
  BY FS_CardinalityType DEF Bounded
<1>1. ASSUME IsFiniteSet(verifications'), n <= m, queue' = queue, Sum' <= Sum,
             restoring' \in {restoring, "none"}
      PROVE  Bounded'
  <2>1. Len(queue) \in Nat /\ Sum \in Nat
    BY <1>0, LoadParts
  <2>2. n \in Nat /\ Sum' \in Nat /\ Len(queue') = Len(queue)
    BY <1>1, LoadPartsNext
  <2> HIDE DEF m, n
  <2>3. Len(queue') + n + Sum' <= Len(queue) + m + Sum + 0
    BY <1>0, <1>1, <2>1, <2>2
  <2>4. restoring' = "asked" => restoring = "asked"
    BY <1>1
  <2> QED
    BY <1>1, <2>3, <2>4, LoadKeeps DEF m, n
<1>2. CASE Kill
  <2>1. /\ UNCHANGED <<queue, sheet, approval>> /\ buyRequest' = None /\ restoring' = "none"
        /\ verifications' = {}
    BY <1>2, Zenon DEF Kill, apple
  <2>2. IsFiniteSet(verifications') /\ n = 0
    BY <2>1, FS_EmptySet
  <2>3. Sum' <= Sum
    BY <2>1, SumSteps, Zenon
  <2> HIDE DEF m, n
  <2>4. n <= m
    BY <1>0, <2>2
  <2> QED
    BY <1>1, <2>1, <2>2, <2>3, <2>4
<1>3. CASE CloseSettings
  <2> DEFINE f == [v \in verifications |-> [v EXCEPT !.owned = @ /\ v.for # "restore"]]
  <2>1. /\ UNCHANGED <<queue, sheet, approval, buyRequest, restoring>>
        /\ verifications' = {[v EXCEPT !.owned = @ /\ v.for # "restore"] : v \in verifications}
    BY <1>3, Zenon DEF CloseSettings, apple
  <2>2. verifications' = {f[v] : v \in verifications}
    BY <2>1, Zenon
  <2>3. DOMAIN f = verifications /\ f = [v \in verifications |-> f[v]]
    OBVIOUS
  <2> HIDE DEF f
  <2>4. IsFiniteSet(verifications') /\ n <= m
    BY <1>0, <2>2, <2>3, CardinalityImage
  <2>5. Sum' <= Sum
    BY <2>1, SumSteps, Zenon
  <2> QED
    BY <1>1, <2>1, <2>4, <2>5
<1>4. ASSUME NEW v \in verifications, ServerAnswers(v) \/ VerificationDone(v) PROVE Bounded'
  <2>1. /\ UNCHANGED <<queue, sheet, approval, buyRequest, restoring>>
        /\ \/ verifications' = verifications \ {v}
           \/ \E x : verifications' = (verifications \ {v}) \cup {x}
    BY <1>4, Zenon DEF ServerAnswers, VerificationDone, apple, restore
  <2>2. IsFiniteSet(verifications') /\ n <= m
    <3>1. CASE verifications' = verifications \ {v}
      BY <1>0, <1>4, <3>1, CardinalityReplace
    <3>2. ASSUME NEW x, verifications' = (verifications \ {v}) \cup {x}
          PROVE  IsFiniteSet(verifications') /\ n <= m
      BY <1>0, <1>4, <3>2, CardinalityReplace
    <3> QED
      BY <2>1, <3>1, <3>2, Zenon
  <2>3. Sum' <= Sum
    BY <2>1, SumSteps, Zenon
  <2> QED
    BY <1>1, <2>1, <2>2, <2>3
<1> QED
  BY <1>2, <1>3, <1>4

(* The steps of Apple's queue.                                             *)
LEMMA BoundedApple ==
  ASSUME AccessInv, AccessInv', Bounded,
         \/ Pay \/ PaymentFails \/ AskToBuy \/ ParentDecides
         \/ \E p \in Product : Renew(p)
  PROVE  Bounded'
<1>0. IsFiniteSet(verifications)
  BY DEF Bounded
<1>1. /\ verifications' = verifications /\ buyRequest' = buyRequest /\ restoring' = restoring
      /\ \E p, s : queue' = Queued(p, s)
  BY Zenon DEF Pay, PaymentFails, AskToBuy, ParentDecides, Renew, inApp, restore
<1>2. Len(queue') = Len(queue) + 1
  BY <1>1, QueuedLonger
<1>3. /\ Len(queue) \in Nat /\ Cardinality(verifications) \in Nat /\ Sum \in Nat /\ Sum' \in Nat
      /\ Cardinality(verifications') = Cardinality(verifications)
  BY <1>0, <1>1, LoadParts, LoadPartsNext
<1>4. ASSUME NEW d \in {0, 1}, Sum' = Sum - 1 + d, d = 1 => Load < MaxInFlight
      PROVE  Bounded'
  <2>1. Len(queue') + Cardinality(verifications') + Sum'
          <= Len(queue) + Cardinality(verifications) + Sum + d
    BY <1>2, <1>3, <1>4
  <2> QED
    BY <1>0, <1>1, <1>4, <2>1, LoadKeeps
<1>5. CASE Pay \/ PaymentFails \/ ParentDecides
  <2>1. Sum' = Sum - 1
    <3>1. \/ approval' = approval /\ sheet # None /\ sheet' = None
          \/ sheet' = sheet /\ approval # None /\ approval' = None
      BY <1>5, Zenon DEF Pay, PaymentFails, ParentDecides
    <3> QED
      BY <1>1, <3>1, SumSteps, Zenon
  <2>2. Sum' = Sum - 1 + 0
    BY <1>3, <2>1
  <2> QED
    BY <1>4, <2>2
<1>6. CASE AskToBuy \/ \E p \in Product : Renew(p)
  <2>1. Load < MaxInFlight
    BY <1>6, Zenon DEF AskToBuy, Renew
  <2>2. Sum' = Sum
    <3>1. AskToBuy \/ UNCHANGED <<sheet, approval>>
      BY <1>6, Zenon DEF Renew
    <3> QED
      BY <1>1, <3>1, SumSteps, Zenon
  <2>3. Sum' = Sum - 1 + 1
    BY <1>3, <2>2
  <2> QED
    BY <1>4, <2>1, <2>3
<1> QED
  BY <1>5, <1>6

(* A transaction or the restore gives way to the verification it asks for. *)
LEMMA BoundedVerify ==
  ASSUME AccessInv, AccessInv', Bounded, UpdatedTransaction \/ RestoreFinished
  PROVE  /\ Bounded'
         /\ Cardinality(verifications) < MaxInFlight + Len(Products)
<1> DEFINE m == Cardinality(verifications)
           n == Cardinality(verifications')
<1>0. /\ IsFiniteSet(verifications) /\ m \in Nat /\ Len(queue) \in Nat /\ Sum \in Nat
      /\ Load = Len(queue) + m + Sum /\ Load <= MaxInFlight + Len(Products)
      /\ MaxInFlight \in Nat /\ Len(Products) \in Nat
  BY LoadParts DEF Bounded
<1>1. \/ verifications' = verifications
      \/ \E x : verifications' = verifications \cup {x}
  BY Zenon DEF UpdatedTransaction, RestoreFinished, CompleteTransaction, VerifyPurchases
<1>2. IsFiniteSet(verifications') /\ n \in Nat /\ n <= m + 1
  <2>1. CASE verifications' = verifications
    BY <1>0, <2>1
  <2>2. ASSUME NEW x, verifications' = verifications \cup {x}
        PROVE  IsFiniteSet(verifications') /\ n \in Nat /\ n <= m + 1
    BY <1>0, <2>2, CardinalityAdd
  <2> QED
    BY <1>1, <2>1, <2>2, Zenon
<1>3. Len(queue') \in Nat /\ Sum' \in Nat
  BY <1>2, LoadPartsNext
<1>4. /\ Len(queue') + Sum' = Len(queue) + Sum - 1
      /\ restoring' \in {restoring, "none"}
  <2>1. CASE UpdatedTransaction
    <3>1. /\ queue # <<>> /\ queue' = Tail(queue)
          /\ UNCHANGED <<sheet, approval, buyRequest, restoring>>
      BY <2>1, Zenon DEF UpdatedTransaction
    <3>2. Sum' = Sum
      BY <3>1, SumSteps, Zenon
    <3>3. Len(queue') = Len(queue) - 1
      BY <3>1, HeadTailProperties DEF AccessInv, Typed
    <3> QED
      BY <1>0, <3>1, <3>2, <3>3
  <2>2. CASE RestoreFinished
    <3>1. /\ queue' = queue /\ UNCHANGED <<sheet, approval, buyRequest>>
          /\ restoring = "answered" /\ restoring' = "none"
      BY <2>2, Zenon DEF RestoreFinished, apple
    <3>2. Sum' = Sum - 1
      BY <3>1, SumSteps
    <3> QED
      BY <1>0, <3>1, <3>2
  <2> QED
    BY <2>1, <2>2
<1> HIDE DEF m, n
<1>5. Len(queue') + n + Sum' <= Len(queue) + m + Sum + 0
  BY <1>0, <1>2, <1>3, <1>4
<1>6. Bounded'
  <2>1. restoring' = "asked" => restoring = "asked"
    BY <1>4
  <2> QED
    BY <1>2, <1>5, <2>1, LoadKeeps DEF m, n
<1>7. m < MaxInFlight + Len(Products)
  <2>1. Len(queue) + Sum >= 1
    BY <1>0, <1>3, <1>4
  <2> QED
    BY <1>0, <2>1
<1> QED
  BY <1>6, <1>7 DEF m

(* The restored transactions, one per product, come on top of the bound.   *)
LEMMA BoundedRestored ==
  ASSUME AccessInv, AccessInv', Bounded, RestoredTransactions
  PROVE  Bounded'
<1>1. /\ restoring = "asked" /\ restoring' = "answered"
      /\ UNCHANGED <<sheet, approval, buyRequest, verifications>>
  BY Zenon DEF RestoredTransactions
<1>2. PICK past \in PastPurchases :
        queue' = queue \o [i \in DOMAIN past |-> [product |-> past[i], state |-> "restored"]]
  BY Zenon DEF RestoredTransactions
<1>3. PICK k \in 0 .. Len(Products) : past \in [1 .. k -> Product]
  BY DEF PastPurchases
<1> DEFINE more == [i \in DOMAIN past |-> [product |-> past[i], state |-> "restored"]]
           m == Cardinality(verifications)
<1>4. more \in Seq(Transaction) /\ Len(more) = k
  <2>1. k \in Nat
    BY LenProperties
  <2>2. more \in [1 .. k -> Transaction] /\ DOMAIN more = 1 .. k
    BY <1>3 DEF Transaction
  <2>3. more \in Seq(Transaction)
    BY <2>1, <2>2, SeqDef
  <2> HIDE DEF more
  <2> QED
    BY <2>1, <2>2, <2>3, LenProperties
<1> HIDE DEF more
<1>5. Len(queue') = Len(queue) + k
  <2>1. queue \in Seq(Transaction) /\ queue' = queue \o more
    BY <1>2 DEF AccessInv, Typed, more
  <2> QED
    BY <1>4, <2>1, ConcatProperties
<1>6. /\ IsFiniteSet(verifications) /\ m \in Nat /\ Len(queue) \in Nat /\ Sum \in Nat
      /\ Load = Len(queue) + m + Sum /\ Load <= MaxInFlight
      /\ MaxInFlight \in Nat /\ Len(Products) \in Nat
  BY <1>1, LoadParts DEF Bounded
<1>7. Sum' = Sum
  <2>1. Restores(restoring') = Restores(restoring)
    BY <1>1, RestoresType
  <2> QED
    BY <1>1, <2>1, SumNext, Zenon DEF Sum
<1>8. Load' = Len(queue') + m + Sum'
  BY <1>1, <1>6, LoadPartsNext
<1> HIDE DEF m
<1>9. Load' <= MaxInFlight + Len(Products)
  BY <1>5, <1>6, <1>7, <1>8
<1> QED
  BY <1>1, <1>6, <1>9 DEF Bounded

LEMMA BoundedKeeps ==
  ASSUME AccessInv, AccessInv', Bounded, [Next]_vars
  PROVE  Bounded'
<1>1. CASE \/ Launch \/ OpenPaywall \/ ProductInfo \/ StartPayment \/ PaymentUnavailable
           \/ AlertOK \/ ClosePaywall \/ Tick \/ OpenSettings \/ MessageOK \/ RestoreFails
           \/ OnRestorePurchases \/ (\E p \in Product : Continue(p)) \/ UNCHANGED vars
  BY <1>1, BoundedApp
<1>2. CASE \/ Kill \/ CloseSettings
           \/ \E v \in verifications : ServerAnswers(v) \/ VerificationDone(v)
  BY <1>2, BoundedAnswers
<1>3. CASE \/ Pay \/ PaymentFails \/ AskToBuy \/ ParentDecides
           \/ \E p \in Product : Renew(p)
  BY <1>3, BoundedApple
<1>4. CASE UpdatedTransaction \/ RestoreFinished
  BY <1>4, BoundedVerify
<1>5. CASE RestoredTransactions
  BY <1>5, BoundedRestored
<1> QED
  BY <1>1, <1>2, <1>3, <1>4, <1>5, Zenon DEF Next

(* A new verification takes a free number; an answered one keeps its own.  *)
LEMMA VerificationsKeep ==
  ASSUME AccessInv, AccessInv', Bounded, RestoreFlags, verifications \subseteq Verification,
         [Next]_vars
  PROVE  verifications' \subseteq Verification
<1>0. paid \in Receipt
  BY DEF AccessInv, Typed
<1>1. ASSUME verifications' \subseteq verifications PROVE verifications' \subseteq Verification
  BY <1>1
<1>2. ASSUME NEW for \in {"purchase", "complete", "restore"}, NEW owned \in BOOLEAN,
             VerifyPurchases(for, owned), FreeId \in Ids
      PROVE  verifications' \subseteq Verification
  <2> DEFINE r == [p \in Product |-> 0]
             u == [id |-> FreeId, for |-> for, owned |-> owned, answer |-> "none", receipt |-> r]
  <2>1. verifications' = verifications \cup {u}
    BY <1>2, Zenon DEF VerifyPurchases
  <2>2. r \in Receipt
    BY DEF Receipt
  <2> HIDE DEF r
  <2>3. u \in Verification
    BY <1>2, <2>2 DEF Verification
  <2> HIDE DEF u
  <2> QED
    BY <2>1, <2>3
<1>3. CASE UpdatedTransaction \/ RestoreFinished
  <2>1. FreeId \in Ids
    BY <1>3, BoundedVerify, FreeIdIsFree DEF Bounded
  <2>2. \/ verifications' = verifications
        \/ VerifyPurchases("purchase", TRUE)
        \/ VerifyPurchases("complete", FALSE)
        \/ VerifyPurchases("restore", restoreOwned)
    BY <1>3, Zenon DEF UpdatedTransaction, RestoreFinished, CompleteTransaction
  <2>3. restoreOwned \in BOOLEAN /\ TRUE \in BOOLEAN /\ FALSE \in BOOLEAN
    BY Zenon DEF RestoreFlags
  <2> QED
    BY <1>1, <1>2, <2>1, <2>2, <2>3, Zenon
<1>4. ASSUME NEW v \in verifications, ServerAnswers(v) PROVE verifications' \subseteq Verification
  <2> DEFINE r == [p \in Product |-> IF p \in Entitled THEN paid[p] ELSE 0]
             u == [v EXCEPT !.answer = "receipt", !.receipt = r]
             w == [v EXCEPT !.answer = "error"]
  <2>1. \/ verifications' = (verifications \ {v}) \cup {u}
        \/ verifications' = (verifications \ {v}) \cup {w}
    BY <1>4, Zenon DEF ServerAnswers
  <2>2. r \in Receipt
    BY <1>0 DEF Receipt
  <2> HIDE DEF r
  <2>3. v \in Verification
    OBVIOUS
  <2>4. u \in Verification /\ w \in Verification
    BY <2>2, <2>3 DEF Verification
  <2> HIDE DEF u, w
  <2> QED
    BY <2>1, <2>4
<1>5. CASE CloseSettings
  <2>1. verifications' = {[v EXCEPT !.owned = @ /\ v.for # "restore"] : v \in verifications}
    BY <1>5, Zenon DEF CloseSettings
  <2>2. ASSUME NEW v \in verifications
        PROVE  [v EXCEPT !.owned = @ /\ v.for # "restore"] \in Verification
    <3> DEFINE o == v.owned /\ v.for # "restore"
    <3>1. o \in BOOLEAN /\ v \in Verification
      OBVIOUS
    <3> HIDE DEF o
    <3>2. [v EXCEPT !.owned = o] \in Verification
      BY <3>1 DEF Verification
    <3> QED
      BY <3>2 DEF o
  <2> QED
    BY <2>1, <2>2
<1>6. CASE Kill \/ \E v \in verifications : VerificationDone(v)
  BY <1>1, <1>6 DEF Kill, VerificationDone
<1>7. CASE Pay \/ PaymentFails \/ AskToBuy \/ ParentDecides \/ \E p \in Product : Renew(p)
  BY <1>1, <1>7, Zenon DEF Pay, PaymentFails, AskToBuy, ParentDecides, Renew, inApp
<1>8. CASE Launch \/ OpenPaywall \/ ProductInfo \/ \E p \in Product : Continue(p)
  BY <1>1, <1>8, Zenon DEF Launch, OpenPaywall, ProductInfo, Continue
<1>9. CASE StartPayment \/ PaymentUnavailable \/ AlertOK \/ ClosePaywall \/ Tick
  BY <1>1, <1>9, Zenon DEF StartPayment, PaymentUnavailable, AlertOK, ClosePaywall, Tick
<1>10. CASE OpenSettings \/ MessageOK \/ OnRestorePurchases \/ UNCHANGED vars
  BY <1>1, <1>10, Zenon DEF OpenSettings, MessageOK, OnRestorePurchases, vars
<1>11. CASE RestoredTransactions \/ RestoreFails
  BY <1>1, <1>11, Zenon DEF RestoredTransactions, RestoreFails
<1> QED
  BY <1>3, <1>4, <1>5, <1>6, <1>7, <1>8, <1>9, <1>10, <1>11, Zenon DEF Next

-----------------------------------------------------------------------------
TypeInv ==
  /\ Counters /\ AppFlags /\ RestoreFlags /\ ScreenFlags
  /\ verifications \subseteq Verification
  /\ Bounded

LEMMA InitTypes == Init => TypeInv
<1> SUFFICES ASSUME Init PROVE TypeInv
  OBVIOUS
<1>1. Counters
  BY DEF Init, Counters
<1>2. AppFlags /\ RestoreFlags /\ ScreenFlags /\ verifications \subseteq Verification
  BY Zenon DEF Init, AppFlags, RestoreFlags, ScreenFlags
<1>3. Bounded
  <2>1. /\ IsFiniteSet(verifications) /\ Cardinality(verifications) = 0
        /\ restoring = "none"
    BY FS_EmptySet, Zenon DEF Init
  <2>2. Len(queue) = 0
    BY DEF Init
  <2>3. Pending(sheet) = 0 /\ Pending(approval) = 0 /\ Pending(buyRequest) = 0
    BY PendingType, Zenon DEF Init
  <2>4. Load = 0
    BY <2>1, <2>2, <2>3 DEF Load
  <2>5. MaxInFlight + Len(Products) >= 0
    BY LenProperties
  <2> QED
    BY <2>1, <2>4, <2>5 DEF Bounded
<1> QED
  BY <1>1, <1>2, <1>3 DEF TypeInv

(* What is under way never exceeds MaxInFlight and one restored            *)
(* transaction per product, so that every verification finds a number that *)
(* no other has, and every handler of BuyProService, the paywall and the   *)
(* settings leaves each variable in its range.                             *)
THEOREM TypeCorrect == Spec => []TypeOK
<1>1. TypeInv /\ AccessInv /\ AccessInv' /\ [Next]_vars => TypeInv'
  <2> SUFFICES ASSUME TypeInv, AccessInv, AccessInv', [Next]_vars PROVE TypeInv'
    OBVIOUS
  <2>1. /\ Counters /\ AppFlags /\ RestoreFlags /\ ScreenFlags
        /\ verifications \subseteq Verification /\ Bounded
    BY DEF TypeInv
  <2>2. Counters' /\ AppFlags' /\ RestoreFlags' /\ ScreenFlags'
    BY <2>1, CountersKeep, AppFlagsKeep, RestoreFlagsKeep, ScreenFlagsKeep
  <2>3. verifications' \subseteq Verification
    BY <2>1, VerificationsKeep
  <2>4. Bounded'
    BY <2>1, BoundedKeeps
  <2> QED
    BY <2>2, <2>3, <2>4 DEF TypeInv
<1>2. TypeInv /\ AccessInv => TypeOK
  BY Zenon DEF TypeInv, AccessInv, Typed, Counters, AppFlags, RestoreFlags, ScreenFlags, TypeOK
<1> QED
  BY <1>1, <1>2, InitTypes, AccessInvariant, PTL DEF Spec

-----------------------------------------------------------------------------
(* What the loading views wait for: the safety half of LoadingEnds and of  *)
(* RestoreEnds.                                                            *)

(* A process that is gone shows nothing and waits for nothing.             *)
Stopped ==
  ~running =>
    /\ ~paywall /\ ~isLoading /\ alert = "none" /\ settings = "closed"
    /\ buyRequest = None /\ verifications = {} /\ restoring = "none"

(* A payment of the app that Apple has still to tell it about: on the      *)
(* sheet, with a parent, or in a transaction that ends it.                 *)
EndsPayment(t) == t.product \in payments /\ t.state # "deferred"
QueueTells == \E i \in 1 .. Len(queue) : EndsPayment(queue[i])
PaymentPending == sheet \in payments \/ approval \in payments \/ QueueTells

PurchaseVerified == \E v \in verifications : v.for = "purchase"
RestoreVerified == \E v \in verifications : v.for = "restore" /\ v.owned

(* The paywall loads only while a call is out whose callback ends it: the  *)
(* products, the product to buy, a payment or the receipt after it.        *)
LoadingWaits ==
  isLoading =>
    \/ "paywall" \in infoWaiters
    \/ buyRequest # None
    \/ PaymentPending
    \/ PurchaseVerified

(* The settings restore only while the restore, or the receipt after it,   *)
(* still belongs to them.                                                  *)
RestoreWaits ==
  settings = "restoring" => (restoring # "none" /\ restoreOwned) \/ RestoreVerified

LEMMA StoppedKeeps ==
  ASSUME Stopped, [Next]_vars
  PROVE  Stopped'
<1> HIDE SubscriptionAssumption
<1> SUFFICES ASSUME ~running' PROVE Stopped'
  BY DEF Stopped
<1>1. CASE Kill
  BY <1>1, Zenon DEF Kill, Stopped
<1>2. CASE ~Kill
  <2>1. /\ ~running /\ ~paywall /\ ~isLoading /\ alert = "none" /\ settings = "closed"
        /\ buyRequest = None /\ verifications = {} /\ restoring = "none"
    <3>1. ~running
      BY <1>2, Zenon
      DEF Next, vars, Kill, Launch, OpenPaywall, ProductInfo, Continue, StartPayment,
          PaymentUnavailable, AlertOK, ClosePaywall, Tick, Pay, PaymentFails, AskToBuy,
          ParentDecides, Renew, UpdatedTransaction, ServerAnswers, VerificationDone,
          OpenSettings, CloseSettings, MessageOK, OnRestorePurchases, RestoredTransactions,
          RestoreFinished, RestoreFails, inApp
    <3> QED
      BY <3>1, Zenon DEF Stopped
  <2>2. CASE UNCHANGED vars
    BY <2>1, <2>2, Zenon DEF vars, paywallScreen, settingsScreen, restore, Stopped
  <2>3. CASE ProductInfo \/ MessageOK \/ Tick
    BY <2>1, <2>3, Zenon
    DEF ProductInfo, MessageOK, Tick, paywallScreen, settingsScreen, restore, Stopped
  <2>4. CASE Pay \/ PaymentFails \/ AskToBuy \/ ParentDecides \/ \E p \in Product : Renew(p)
    BY <2>1, <2>4, Zenon
    DEF Pay, PaymentFails, AskToBuy, ParentDecides, Renew, inApp, paywallScreen,
        settingsScreen, restore, Stopped
  <2> QED
    BY <1>2, <2>1, <2>2, <2>3, <2>4, Zenon
    DEF Next, Launch, OpenPaywall, Continue, StartPayment, PaymentUnavailable, AlertOK,
        ClosePaywall, UpdatedTransaction, OpenSettings, CloseSettings, OnRestorePurchases,
        RestoredTransactions, RestoreFinished, RestoreFails
<1> QED
  BY <1>1, <1>2

(* A verification stays one of its kind while Apple's server looks at it,  *)
(* and leaves the others alone when it is done.                            *)
LEMMA VerifiedKept ==
  ASSUME verifications \subseteq Verification, NEW v \in verifications
  PROVE  /\ ServerAnswers(v) => /\ PurchaseVerified => PurchaseVerified'
                                /\ RestoreVerified => RestoreVerified'
         /\ VerificationDone(v) => /\ v.for # "purchase" /\ PurchaseVerified => PurchaseVerified'
                                   /\ ~(v.for = "restore" /\ v.owned) /\ RestoreVerified
                                        => RestoreVerified'
<1>0. v \in Verification
  OBVIOUS
<1>1. ASSUME ServerAnswers(v)
      PROVE  /\ PurchaseVerified => PurchaseVerified'
             /\ RestoreVerified => RestoreVerified'
  <2>1. PICK w : /\ verifications' = (verifications \ {v}) \cup {w}
                 /\ w.for = v.for /\ w.owned = v.owned
    <3> DEFINE r == [p \in Product |-> IF p \in Entitled THEN paid[p] ELSE 0]
               w1 == [v EXCEPT !.answer = "receipt", !.receipt = r]
               w2 == [v EXCEPT !.answer = "error"]
    <3>1. \/ verifications' = (verifications \ {v}) \cup {w1}
          \/ verifications' = (verifications \ {v}) \cup {w2}
      BY <1>1, Zenon DEF ServerAnswers
    <3> HIDE DEF r
    <3>2. /\ w1.for = v.for /\ w1.owned = v.owned
          /\ w2.for = v.for /\ w2.owned = v.owned
      BY <1>0 DEF Verification
    <3> QED
      BY <3>1, <3>2
  <2> QED
    BY <2>1, Zenon DEF PurchaseVerified, RestoreVerified
<1>2. ASSUME VerificationDone(v)
      PROVE  /\ v.for # "purchase" /\ PurchaseVerified => PurchaseVerified'
             /\ ~(v.for = "restore" /\ v.owned) /\ RestoreVerified => RestoreVerified'
  <2>1. verifications' = verifications \ {v}
    BY <1>2, Zenon DEF VerificationDone
  <2> QED
    BY <2>1, Zenon DEF PurchaseVerified, RestoreVerified
<1> QED
  BY <1>1, <1>2

(* The settings that close give up their verifications, not the paywall's. *)
LEMMA ClosingKeepsPurchase ==
  ASSUME verifications \subseteq Verification, CloseSettings, PurchaseVerified
  PROVE  PurchaseVerified'
<1>1. PICK v \in verifications : v.for = "purchase"
  BY Zenon DEF PurchaseVerified
<1> DEFINE w == [v EXCEPT !.owned = @ /\ v.for # "restore"]
<1>2. w \in verifications'
  <2>1. verifications' = {[u EXCEPT !.owned = @ /\ u.for # "restore"] : u \in verifications}
    BY Zenon DEF CloseSettings
  <2> QED
    BY <2>1
<1>3. w.for = "purchase"
  <2>1. v \in Verification
    OBVIOUS
  <2> QED
    BY <1>1, <2>1 DEF Verification
<1> QED
  BY <1>2, <1>3, Zenon DEF PurchaseVerified

(* What a new verification is for.                                         *)
LEMMA VerifyAdds ==
  ASSUME NEW for, NEW owned, VerifyPurchases(for, owned)
  PROVE  /\ PurchaseVerified => PurchaseVerified'
         /\ RestoreVerified => RestoreVerified'
         /\ for = "purchase" => PurchaseVerified'
         /\ for = "restore" /\ owned => RestoreVerified'
<1> DEFINE w == [id |-> FreeId, for |-> for, owned |-> owned, answer |-> "none",
                 receipt |-> [p \in Product |-> 0]]
<1>1. verifications' = verifications \cup {w}
  BY Zenon DEF VerifyPurchases
<1>2. w.for = for /\ w.owned = owned
  OBVIOUS
<1> HIDE DEF w
<1> QED
  BY <1>1, <1>2, Zenon DEF PurchaseVerified, RestoreVerified

LEMMA SameVerified ==
  ASSUME UNCHANGED verifications
  PROVE  (PurchaseVerified => PurchaseVerified') /\ (RestoreVerified => RestoreVerified')
  BY Zenon DEF PurchaseVerified, RestoreVerified

(* Which screen the callback of a verification touches.                    *)
LEMMA VerifiedScreens ==
  ASSUME NEW v, Verified(v)
  PROVE  /\ v.for = "purchase" => ~isLoading'
         /\ v.for # "purchase" => isLoading' = isLoading
         /\ v.for = "restore" /\ v.owned => settings' = "idle"
         /\ ~(v.for = "restore" /\ v.owned) => settings' = settings
<1>1. CASE v.for = "purchase"
  <2>1. isLoading' = FALSE /\ UNCHANGED settingsScreen
    BY <1>1, Zenon DEF Verified
  <2> QED
    BY <1>1, <2>1 DEF settingsScreen
<1>2. CASE v.for = "restore" /\ v.owned
  <2>1. v.for # "purchase"
    BY <1>2
  <2>2. settings' = "idle" /\ UNCHANGED <<isLoading, alert>>
    BY <1>2, <2>1, Zenon DEF Verified
  <2> QED
    BY <1>2, <2>1, <2>2
<1>3. CASE v.for # "purchase" /\ ~(v.for = "restore" /\ v.owned)
  <2>1. UNCHANGED <<isLoading, alert, settingsScreen>>
    BY <1>3, Zenon DEF Verified
  <2> QED
    BY <1>3, <2>1 DEF settingsScreen
<1> QED
  BY <1>1, <1>2, <1>3

LEMMA RestoreWaitsKeeps ==
  ASSUME RestoreWaits, verifications \subseteq Verification, [Next]_vars
  PROVE  RestoreWaits'
<1> HIDE SubscriptionAssumption
<1>1. ASSUME UNCHANGED <<restoring, restoreOwned, settings>>, RestoreVerified => RestoreVerified'
      PROVE  RestoreWaits'
  BY <1>1, Zenon DEF RestoreWaits
<1>2. CASE Kill \/ OpenSettings \/ CloseSettings
  <2>1. settings' \in {"closed", "idle"}
    BY <1>2, Zenon DEF Kill, OpenSettings, CloseSettings
  <2> QED
    BY <2>1 DEF RestoreWaits
<1>3. CASE OnRestorePurchases
  <2>1. settings' = "dropped" \/ (restoring' = "asked" /\ restoreOwned' = TRUE)
    BY <1>3, Zenon DEF OnRestorePurchases
  <2> QED
    BY <2>1 DEF RestoreWaits
<1>4. CASE RestoredTransactions
  <2>1. restoring' = "answered" /\ restoring = "asked" /\ UNCHANGED <<restoreOwned, settings, verifications>>
    BY <1>4, Zenon DEF RestoredTransactions, settingsScreen
  <2> QED
    BY <2>1, SameVerified DEF RestoreWaits
<1>5. CASE RestoreFinished
  <2>1. CASE restored
    <3>1. VerifyPurchases("restore", restoreOwned) /\ settings' = settings
      BY <1>5, <2>1, Zenon DEF RestoreFinished, settingsScreen
    <3> QED
      BY <3>1, VerifyAdds, Zenon DEF RestoreWaits
  <2>2. CASE ~restored
    <3>1. RestoreSays("Nothing to Restore") /\ UNCHANGED verifications
      BY <1>5, <2>2, Zenon DEF RestoreFinished
    <3>2. settings' = "idle" \/ (~restoreOwned /\ settings' = settings)
      BY <3>1, Zenon DEF RestoreSays, settingsScreen
    <3> QED
      BY <3>1, <3>2, SameVerified, Zenon DEF RestoreWaits
  <2> QED
    BY <2>1, <2>2
<1>6. CASE RestoreFails
  <2>1. RestoreSays("Restore failed") /\ UNCHANGED verifications
    BY <1>6, Zenon DEF RestoreFails
  <2>2. settings' = "idle" \/ (~restoreOwned /\ settings' = settings)
    BY <2>1, Zenon DEF RestoreSays, settingsScreen
  <2> QED
    BY <2>1, <2>2, SameVerified, Zenon DEF RestoreWaits
<1>7. ASSUME NEW v \in verifications, VerificationDone(v) PROVE RestoreWaits'
  <2>1. Verified(v) /\ UNCHANGED <<restoring, restoreOwned>>
    BY <1>7, Zenon DEF VerificationDone, restore
  <2>2. CASE v.for = "restore" /\ v.owned
    <3>1. settings' = "idle"
      BY <2>1, <2>2, VerifiedScreens
    <3> QED
      BY <3>1 DEF RestoreWaits
  <2>3. CASE ~(v.for = "restore" /\ v.owned)
    <3>1. settings' = settings
      BY <2>1, <2>3, VerifiedScreens
    <3> QED
      BY <1>1, <1>7, <2>1, <2>3, <3>1, VerifiedKept, Zenon
  <2> QED
    BY <2>2, <2>3
<1>8. ASSUME NEW v \in verifications, ServerAnswers(v) PROVE RestoreWaits'
  <2>1. UNCHANGED <<restoring, restoreOwned, settings>>
    BY <1>8, Zenon DEF ServerAnswers, restore, settingsScreen
  <2> QED
    BY <1>1, <1>8, <2>1, VerifiedKept, Zenon
<1>9. CASE UpdatedTransaction
  <2>1. UNCHANGED <<restoring, restoreOwned, settings>>
    BY <1>9, Zenon DEF UpdatedTransaction, settingsScreen
  <2>2. \/ UNCHANGED verifications
        \/ VerifyPurchases("purchase", TRUE)
        \/ VerifyPurchases("complete", FALSE)
    BY <1>9, Zenon DEF UpdatedTransaction, CompleteTransaction
  <2> QED
    BY <1>1, <2>1, <2>2, SameVerified, VerifyAdds, Zenon
<1>10. CASE Pay \/ PaymentFails \/ AskToBuy \/ ParentDecides \/ \E p \in Product : Renew(p)
  <2>1. UNCHANGED <<restoring, restoreOwned, settings, verifications>>
    BY <1>10, Zenon
    DEF Pay, PaymentFails, AskToBuy, ParentDecides, Renew, inApp, restore, settingsScreen
  <2> QED
    BY <1>1, <2>1, SameVerified
<1>11. CASE \/ Launch \/ OpenPaywall \/ ProductInfo \/ StartPayment \/ PaymentUnavailable
            \/ AlertOK \/ ClosePaywall \/ Tick \/ MessageOK \/ UNCHANGED vars
            \/ \E p \in Product : Continue(p)
  <2>1. UNCHANGED <<restoring, restoreOwned, settings, verifications>>
    BY <1>11, Zenon
    DEF Launch, OpenPaywall, ProductInfo, StartPayment, PaymentUnavailable, AlertOK,
        ClosePaywall, Tick, MessageOK, Continue, vars, restore, settingsScreen
  <2> QED
    BY <1>1, <2>1, SameVerified
<1> QED
  BY <1>2, <1>3, <1>4, <1>5, <1>6, <1>7, <1>8, <1>9, <1>10, <1>11, Zenon DEF Next

(* A transaction that comes to the queue leaves the others there.          *)
LEMMA QueuedTells ==
  ASSUME Typed, UNCHANGED payments, NEW p \in Product,
         NEW s \in {"purchased", "failed", "deferred"}, queue' = Queued(p, s)
  PROVE  QueueTells \/ (p \in payments /\ s # "deferred") => QueueTells'
<1> DEFINE t == [product |-> p, state |-> s]
<1>1. t \in Transaction /\ t.state = s /\ t.product = p
  BY DEF Transaction
<1> HIDE DEF t
<1>2. queue \in Seq(Transaction) /\ queue' = Append(queue, t)
  BY DEF Typed, Queued, t
<1>3. /\ Len(queue') = Len(queue) + 1 /\ Len(queue) \in Nat
      /\ \A i \in 1 .. Len(queue) : queue'[i] = queue[i]
      /\ queue'[Len(queue) + 1] = t
  BY <1>1, <1>2, AppendProperties, LenProperties
<1>4. QueueTells => QueueTells'
  <2> SUFFICES ASSUME NEW i \in 1 .. Len(queue), EndsPayment(queue[i]) PROVE QueueTells'
    BY Zenon DEF QueueTells
  <2>1. i \in 1 .. Len(queue') /\ queue'[i] = queue[i]
    BY <1>3
  <2> QED
    BY <2>1, Zenon DEF QueueTells, EndsPayment
<1>5. ASSUME p \in payments, s # "deferred" PROVE QueueTells'
  <2>1. Len(queue) + 1 \in 1 .. Len(queue')
    BY <1>3
  <2> QED
    BY <1>1, <1>3, <1>5, <2>1, Zenon DEF QueueTells, EndsPayment
<1> QED
  BY <1>4, <1>5

LEMMA RestoredTells ==
  ASSUME Typed, RestoredTransactions, QueueTells
  PROVE  QueueTells'
<1>1. PICK past \in PastPurchases :
        queue' = queue \o [i \in DOMAIN past |-> [product |-> past[i], state |-> "restored"]]
  BY DEF RestoredTransactions
<1>2. PICK n \in 0 .. Len(Products) : past \in [1 .. n -> Product]
  BY DEF PastPurchases
<1> DEFINE more == [i \in DOMAIN past |-> [product |-> past[i], state |-> "restored"]]
<1>3. more \in Seq(Transaction)
  <2>1. n \in Nat
    BY LenProperties
  <2>2. more \in [1 .. n -> Transaction]
    BY <1>2 DEF Transaction
  <2> QED
    BY <2>1, <2>2, SeqDef
<1> HIDE DEF more
<1>4. queue \in Seq(Transaction) /\ queue' = queue \o more
  BY <1>1 DEF Typed, more
<1>5. /\ Len(queue') = Len(queue) + Len(more) /\ Len(queue) \in Nat /\ Len(more) \in Nat
      /\ \A i \in 1 .. Len(queue) + Len(more) :
           queue'[i] = IF i <= Len(queue) THEN queue[i] ELSE more[i - Len(queue)]
  BY <1>3, <1>4, ConcatProperties, LenProperties
<1>6. PICK i \in 1 .. Len(queue) : EndsPayment(queue[i])
  BY Zenon DEF QueueTells
<1>7. i \in 1 .. Len(queue') /\ i \in 1 .. Len(queue) + Len(more) /\ i <= Len(queue)
  BY <1>5
<1>8. queue'[i] = queue[i] /\ payments' = payments
  BY <1>5, <1>7 DEF RestoredTransactions
<1> QED
  BY <1>6, <1>7, <1>8, Zenon DEF QueueTells, EndsPayment

(* The first transaction that is handled was the one, or another is there. *)
LEMMA TailTells ==
  ASSUME Typed, queue # <<>>, queue' = Tail(queue), UNCHANGED payments,
         QueueTells, ~EndsPayment(Head(queue))
  PROVE  QueueTells'
<1>1. queue \in Seq(Transaction)
  BY DEF Typed
<1>2. /\ Len(queue') = Len(queue) - 1 /\ Len(queue) \in Nat
      /\ \A i \in 1 .. Len(queue') : queue'[i] = queue[i + 1]
  BY <1>1, HeadTailProperties, LenProperties
<1>3. Head(queue) = queue[1]
  BY <1>1
<1>4. PICK i \in 1 .. Len(queue) : EndsPayment(queue[i])
  BY Zenon DEF QueueTells
<1>5. i # 1
  BY <1>3, <1>4, Zenon
<1>6. i - 1 \in 1 .. Len(queue') /\ queue'[i - 1] = queue[(i - 1) + 1] /\ (i - 1) + 1 = i
  BY <1>2, <1>5
<1> QED
  BY <1>4, <1>6, Zenon DEF QueueTells, EndsPayment

(* Apple moves a payment on without losing it: from the sheet to a parent  *)
(* or to the queue, from the parent to the queue.                          *)
LEMMA AppleKeepsPending ==
  ASSUME Typed, PaymentPending, None \notin payments,
         Pay \/ PaymentFails \/ AskToBuy \/ ParentDecides \/ \E p \in Product : Renew(p)
  PROVE  PaymentPending'
<1>0. /\ sheet # None => sheet \in Product
      /\ approval # None => approval \in Product
  BY Zenon DEF Typed
<1> HIDE SubscriptionAssumption
<1>1. payments' = payments
  BY Zenon DEF Pay, PaymentFails, AskToBuy, ParentDecides, Renew, inApp
<1>2. CASE Pay \/ PaymentFails
  <2>1. /\ sheet \in Product /\ approval' = approval
        /\ queue' = Queued(sheet, "purchased") \/ queue' = Queued(sheet, "failed")
    BY <1>0, <1>2, Zenon DEF Pay, PaymentFails
  <2>2. QueueTells \/ sheet \in payments => QueueTells'
    BY <1>1, <2>1, QueuedTells
  <2> QED
    BY <1>1, <2>1, <2>2, Zenon DEF PaymentPending
<1>3. CASE AskToBuy
  <2>1. sheet \in Product /\ approval = None /\ approval' = sheet
        /\ queue' = Queued(sheet, "deferred")
    BY <1>0, <1>3, Zenon DEF AskToBuy
  <2>2. QueueTells => QueueTells'
    BY <1>1, <2>1, QueuedTells
  <2> QED
    BY <1>1, <2>1, <2>2, Zenon DEF PaymentPending
<1>4. CASE ParentDecides
  <2>1. /\ approval \in Product /\ sheet' = sheet
        /\ queue' = Queued(approval, "purchased") \/ queue' = Queued(approval, "failed")
    BY <1>0, <1>4, Zenon DEF ParentDecides
  <2>2. QueueTells \/ approval \in payments => QueueTells'
    BY <1>1, <2>1, QueuedTells
  <2> QED
    BY <1>1, <2>1, <2>2, Zenon DEF PaymentPending
<1>5. ASSUME NEW p \in Product, Renew(p) PROVE PaymentPending'
  <2>1. queue' = Queued(p, "purchased") /\ sheet' = sheet /\ approval' = approval
    BY <1>5, Zenon DEF Renew
  <2>2. QueueTells => QueueTells'
    BY <1>1, <2>1, QueuedTells
  <2> QED
    BY <1>1, <2>1, <2>2, Zenon DEF PaymentPending
<1> QED
  BY <1>2, <1>3, <1>4, <1>5, Zenon

LEMMA LoadingWaitsKeeps ==
  ASSUME Typed, LoadingWaits, Stopped, payments \subseteq Product,
         verifications \subseteq Verification, [Next]_vars
  PROVE  LoadingWaits'
<1> DEFINE calls == "paywall" \in infoWaiters \/ buyRequest # None
<1>0. ASSUME isLoading' => isLoading,
             calls => calls' \/ ~isLoading',
             PaymentPending => PaymentPending' \/ PurchaseVerified' \/ ~isLoading',
             PurchaseVerified => PurchaseVerified' \/ ~isLoading'
      PROVE  LoadingWaits'
  BY <1>0, Zenon DEF LoadingWaits
<1>1. ASSUME UNCHANGED <<sheet, approval, queue, payments>>
      PROVE  PaymentPending => PaymentPending'
  BY <1>1, Zenon DEF PaymentPending, QueueTells, EndsPayment
<1>2. CASE \/ Kill \/ PaymentUnavailable
  <2>1. ~isLoading'
    BY <1>2, Zenon DEF Kill, PaymentUnavailable
  <2> QED
    BY <2>1 DEF LoadingWaits
<1>3. CASE Launch
  <2>1. isLoading' = isLoading /\ ~isLoading
    BY <1>3, Zenon DEF Launch, paywallScreen, Stopped
  <2> QED
    BY <2>1 DEF LoadingWaits
<1>4. CASE OpenPaywall
  <2>1. isLoading' => "paywall" \in infoWaiters'
    BY <1>4, Zenon DEF OpenPaywall
  <2> QED
    BY <2>1, Zenon DEF LoadingWaits
<1>5. CASE ProductInfo
  <2>1. /\ isLoading' => isLoading /\ "paywall" \notin infoWaiters
        /\ UNCHANGED <<sheet, approval, queue, payments, buyRequest, verifications>>
    BY <1>5, Zenon DEF ProductInfo, apple
  <2> QED
    BY <1>0, <1>1, <2>1, SameVerified, Zenon
<1>6. ASSUME NEW p \in Product, Continue(p) PROVE LoadingWaits'
  <2>1. buyRequest' # None
    <3>1. p # None
      OBVIOUS
    <3> QED
      BY <1>6, <3>1, Zenon DEF Continue
  <2> QED
    BY <2>1, Zenon DEF LoadingWaits
<1>7. CASE StartPayment
  <2>1. sheet' \in payments'
    BY <1>7, Zenon DEF StartPayment
  <2> QED
    BY <2>1, Zenon DEF LoadingWaits, PaymentPending
<1>8. CASE \/ AlertOK \/ ClosePaywall \/ Tick \/ OpenSettings \/ MessageOK
           \/ OnRestorePurchases \/ RestoreFails \/ UNCHANGED vars
  <2>1. UNCHANGED <<isLoading, sheet, approval, queue, payments, buyRequest, infoWaiters,
                    verifications>>
    BY <1>8, Zenon
    DEF AlertOK, ClosePaywall, Tick, OpenSettings, MessageOK, OnRestorePurchases,
        RestoreFails, vars, apple, info, paywallScreen
  <2> QED
    BY <1>0, <1>1, <2>1, SameVerified, Zenon
<1>9. CASE Pay \/ PaymentFails \/ AskToBuy \/ ParentDecides \/ \E p \in Product : Renew(p)
  <2>1. UNCHANGED <<isLoading, buyRequest, infoWaiters, verifications>>
    BY <1>9, Zenon
    DEF Pay, PaymentFails, AskToBuy, ParentDecides, Renew, inApp, info, paywallScreen
  <2>2. None \notin payments
    OBVIOUS
  <2> QED
    BY <1>0, <1>9, <2>1, <2>2, AppleKeepsPending, SameVerified, Zenon
<1>10. CASE UpdatedTransaction
  <2> DEFINE t == Head(queue)
  <2>1. /\ queue # <<>> /\ queue' = Tail(queue)
        /\ UNCHANGED <<sheet, approval, buyRequest, infoWaiters>>
    BY <1>10, Zenon DEF UpdatedTransaction, info
  <2>2. \/ VerifyPurchases("purchase", TRUE) /\ isLoading' = isLoading
        \/ isLoading' = FALSE
        \/ /\ ~EndsPayment(t)
           /\ UNCHANGED <<payments, isLoading>>
           /\ UNCHANGED verifications \/ VerifyPurchases("complete", FALSE)
    BY <1>10, Zenon DEF UpdatedTransaction, EndsPayment, CompleteTransaction
  <2>3. CASE VerifyPurchases("purchase", TRUE)
    <3>1. PurchaseVerified'
      BY <2>3, VerifyAdds
    <3> QED
      BY <3>1, Zenon DEF LoadingWaits
  <2>4. CASE isLoading' = FALSE
    BY <2>4 DEF LoadingWaits
  <2>5. CASE /\ ~EndsPayment(t)
             /\ UNCHANGED <<payments, isLoading>>
             /\ UNCHANGED verifications \/ VerifyPurchases("complete", FALSE)
    <3>1. QueueTells => QueueTells'
      BY <2>1, <2>5, TailTells
    <3>2. PaymentPending => PaymentPending'
      BY <2>1, <2>5, <3>1, Zenon DEF PaymentPending
    <3>3. PurchaseVerified => PurchaseVerified'
      BY <2>5, SameVerified, VerifyAdds, Zenon
    <3> QED
      BY <1>0, <2>1, <2>5, <3>2, <3>3, Zenon
  <2> QED
    BY <2>2, <2>3, <2>4, <2>5, Zenon
<1>11. ASSUME NEW v \in verifications, ServerAnswers(v) PROVE LoadingWaits'
  <2>1. UNCHANGED <<isLoading, sheet, approval, queue, payments, buyRequest, infoWaiters>>
    BY <1>11, Zenon DEF ServerAnswers, apple, info, paywallScreen
  <2> QED
    BY <1>0, <1>1, <1>11, <2>1, VerifiedKept, Zenon
<1>12. ASSUME NEW v \in verifications, VerificationDone(v) PROVE LoadingWaits'
  <2>1. Verified(v) /\ UNCHANGED <<sheet, approval, queue, payments, buyRequest, infoWaiters>>
    BY <1>12, Zenon DEF VerificationDone, apple, info
  <2>2. CASE v.for = "purchase"
    BY <2>1, <2>2, VerifiedScreens DEF LoadingWaits
  <2>3. CASE v.for # "purchase"
    <3>1. isLoading' = isLoading
      BY <2>1, <2>3, VerifiedScreens
    <3> QED
      BY <1>0, <1>1, <1>12, <2>1, <2>3, <3>1, VerifiedKept, Zenon
  <2> QED
    BY <2>2, <2>3
<1>13. CASE CloseSettings
  <2>1. UNCHANGED <<isLoading, sheet, approval, queue, payments, buyRequest, infoWaiters>>
    BY <1>13, Zenon DEF CloseSettings, apple, info, paywallScreen
  <2> QED
    BY <1>0, <1>1, <1>13, <2>1, ClosingKeepsPurchase, Zenon
<1>14. CASE RestoredTransactions
  <2>1. UNCHANGED <<isLoading, sheet, approval, payments, buyRequest, infoWaiters, verifications>>
    BY <1>14, Zenon DEF RestoredTransactions, info, paywallScreen
  <2>2. PaymentPending => PaymentPending'
    BY <1>14, <2>1, RestoredTells, Zenon DEF PaymentPending
  <2> QED
    BY <1>0, <2>1, <2>2, SameVerified, Zenon
<1>15. CASE RestoreFinished
  <2>1. UNCHANGED <<isLoading, sheet, approval, queue, payments, buyRequest, infoWaiters>>
    BY <1>15, Zenon DEF RestoreFinished, apple, info, paywallScreen
  <2>2. UNCHANGED verifications \/ VerifyPurchases("restore", restoreOwned)
    BY <1>15, Zenon DEF RestoreFinished
  <2> QED
    BY <1>0, <1>1, <2>1, <2>2, SameVerified, VerifyAdds, Zenon
<1> QED
  BY <1>2, <1>3, <1>4, <1>5, <1>6, <1>7, <1>8, <1>9, <1>10, <1>11, <1>12, <1>13, <1>14, <1>15,
     Zenon DEF Next

(* Whatever Apple, a parent, the server or the user does, a paywall that   *)
(* is covered by its loading view has a call out that will uncover it.     *)
THEOREM LoadingHasReason == Spec => []LoadingWaits
<1>1. Init => Stopped /\ LoadingWaits
  BY DEF Init, Stopped, LoadingWaits
<1>2. Stopped /\ [Next]_vars => Stopped'
  BY StoppedKeeps
<1>3. TypeOK /\ AccessInv /\ Stopped /\ LoadingWaits /\ [Next]_vars => LoadingWaits'
  <2> SUFFICES ASSUME TypeOK, AccessInv, Stopped, LoadingWaits, [Next]_vars PROVE LoadingWaits'
    OBVIOUS
  <2>1. Typed /\ payments \subseteq Product /\ verifications \subseteq Verification
    BY Zenon DEF TypeOK, AccessInv
  <2> QED
    BY <2>1, LoadingWaitsKeeps
<1> QED
  BY <1>1, <1>2, <1>3, TypeCorrect, AccessInvariant, PTL DEF Spec

(* Settings that show a restore under way own the restore or the receipt   *)
(* after it, through deaths, swipes, dropped restores and overlaps.        *)
THEOREM RestoreHasReason == Spec => []RestoreWaits
<1>1. Init => RestoreWaits
  BY DEF Init, RestoreWaits
<1>2. TypeOK /\ RestoreWaits /\ [Next]_vars => RestoreWaits'
  <2> SUFFICES ASSUME TypeOK, RestoreWaits, [Next]_vars PROVE RestoreWaits'
    OBVIOUS
  <2>1. verifications \subseteq Verification
    BY Zenon DEF TypeOK
  <2> QED
    BY <2>1, RestoreWaitsKeeps
<1> QED
  BY <1>1, <1>2, TypeCorrect, PTL DEF Spec
=============================================================================
