---------------------------- MODULE Subscription ----------------------------
(***************************************************************************)
(* Subscriptions: BuyProService over SwiftyStoreKit, the paywall and the   *)
(* restore button of the settings.                                         *)
(*                                                                         *)
(* The App Store charges the user and queues transactions.  The app        *)
(* finishes a transaction as soon as it sees it and then asks Apple's      *)
(* server to verify the receipt; the answer replaces the subscription in   *)
(* memory and in the user defaults.  Verifications overlap, answer in any  *)
(* order, fail, and die with the process.                                  *)
(***************************************************************************)
EXTENDS Integers, Sequences, FiniteSets

CONSTANTS
  Products,      \* allProducts, in the order in which a receipt is searched
  Period,        \* product -> how long it is paid for
  None,          \* nil
  MaxTime,       \* bound: the clock
  MaxInFlight,   \* bound: transactions and verifications at a time
  MaxFaults      \* bound: deaths of the process, verifications without an answer

Product == {Products[i] : i \in 1 .. Len(Products)}
Subsciption == [period : Product, expirationDate : Nat]

ASSUME SubscriptionAssumption ==
  /\ Products \in Seq(Product)
  /\ Period \in [Product -> Nat \ {0}]
  /\ None \notin Product \cup Nat \cup Subsciption
  /\ MaxTime \in Nat /\ MaxInFlight \in Nat \ {0}
  /\ MaxFaults \in Nat

VARIABLES
  now,            \* the time, on the device and at Apple
  paid,           \* Apple: product -> paid until (0: never bought)
  queue,          \* Apple: transactions that are not finished
  sheet,          \* Apple: the product on the payment sheet, or None
  approval,       \* Apple: the product that waits for a parent, or None
  running,        \* the process is alive
  activeSubscription,  \* the product and its expirationDate, or None
  stored,         \* activeSubscription in the user defaults
  productsReady,  \* isProductsReady
  infoWaiters,    \* who waits for retrieveProductInfo
  buyRequest,     \* the product purchaseProduct is asking about, or None
  payments,       \* PaymentsController: the products with a payment
  restoring,      \* RestorePurchasesController: "none", "asked", "answered"
  restored,       \* restoredPurchases is not empty
  restoreOwned,   \* the settings screen that asked is still there
  verifications,  \* receipt verifications in flight
  paywall,        \* the paywall is on screen
  isLoading,      \* its loading view, which covers the whole screen
  alert,          \* its alert
  settings,       \* the settings: "closed", "idle", or loading: "restoring",
                  \* or "dropped" when their restore was ignored
  message,        \* the alert of the settings
  lapse,          \* history: why the app may know less than it was told
  faults          \* history: the faults so far

apple == <<now, paid, queue, sheet, approval>>
access == <<activeSubscription, stored, lapse>>
info == <<productsReady, infoWaiters>>
restore == <<restoring, restored, restoreOwned>>
paywallScreen == <<paywall, isLoading, alert>>
settingsScreen == <<settings, message>>
vars == <<apple, running, access, info, buyRequest, payments, restore,
          verifications, paywallScreen, settingsScreen, faults>>

Transaction == [product : Product, state : {"purchased", "failed", "deferred", "restored"}]
Ids == 1 .. MaxInFlight + Len(Products)
Receipt == [Product -> Nat]
Verification == [id : Ids, for : {"purchase", "complete", "restore"},
                 owned : BOOLEAN, answer : {"none", "receipt", "error"}, receipt : Receipt]

TypeOK ==
  /\ now \in 0 .. MaxTime
  /\ paid \in Receipt
  /\ queue \in Seq(Transaction)
  /\ sheet \in Product \cup {None}
  /\ approval \in Product \cup {None}
  /\ running \in BOOLEAN
  /\ activeSubscription \in Subsciption \cup {None}
  /\ stored \in Subsciption \cup {None}
  /\ productsReady \in BOOLEAN
  /\ infoWaiters \subseteq {"launch", "paywall"}
  /\ buyRequest \in Product \cup {None}
  /\ payments \subseteq Product
  /\ restoring \in {"none", "asked", "answered"}
  /\ restored \in BOOLEAN
  /\ restoreOwned \in BOOLEAN
  /\ verifications \subseteq Verification
  /\ paywall \in BOOLEAN
  /\ isLoading \in BOOLEAN
  /\ alert \in {"none", "purchased", "unknown", "error"}
  /\ settings \in {"closed", "idle", "restoring", "dropped"}
  /\ message \in {"none", "Restore failed", "Nothing to Restore", "Restored Successfully"}
  /\ lapse \in {"none", "failed", "overtaken", "cut off", "shorter"}
  /\ faults \in 0 .. MaxFaults

Init ==
  /\ now = 0
  /\ paid = [p \in Product |-> 0]
  /\ queue = <<>>
  /\ sheet = None
  /\ approval = None
  /\ running = FALSE
  /\ activeSubscription = None
  /\ stored = None
  /\ productsReady = FALSE
  /\ infoWaiters = {}
  /\ buyRequest = None
  /\ payments = {}
  /\ restoring = "none"
  /\ restored = FALSE
  /\ restoreOwned = FALSE
  /\ verifications = {}
  /\ paywall = FALSE
  /\ isLoading = FALSE
  /\ alert = "none"
  /\ settings = "closed"
  /\ message = "none"
  /\ lapse = "none"
  /\ faults = 0

subscribed == activeSubscription # None

(* What the user has paid for and not used up.                             *)
Entitled == {p \in Product : paid[p] > now}

(* What is under way; the bound is on what starts more.                    *)
Pending(x) == IF x = None THEN 0 ELSE 1
Load == Len(queue) + Cardinality(verifications)
        + Pending(sheet) + Pending(approval) + Pending(buyRequest)
        + (IF restoring = "none" THEN 0 ELSE 1)

-----------------------------------------------------------------------------
(* The process.                                                            *)

(* A stored subscription is taken over while it lasts; the payment queue   *)
(* is observed and the products are asked for.                             *)
Launch ==
  /\ ~running
  /\ running' = TRUE
  /\ activeSubscription' = IF stored # None /\ stored.expirationDate > now
                           THEN stored ELSE None
  /\ infoWaiters' = {"launch"}
  /\ productsReady' = FALSE
  /\ UNCHANGED <<apple, stored, lapse, buyRequest, payments, restore, verifications,
                 paywallScreen, settingsScreen, faults>>

(* The process ends; the App Store keeps what is not finished.             *)
Kill ==
  /\ running /\ faults < MaxFaults
  /\ faults' = faults + 1
  /\ running' = FALSE
  /\ lapse' = IF verifications # {} THEN "cut off" ELSE lapse
  /\ infoWaiters' = {} /\ buyRequest' = None /\ payments' = {}
  /\ restoring' = "none" /\ restored' = FALSE /\ restoreOwned' = FALSE
  /\ verifications' = {}
  /\ paywall' = FALSE /\ isLoading' = FALSE /\ alert' = "none"
  /\ settings' = "closed" /\ message' = "none"
  /\ UNCHANGED <<apple, activeSubscription, stored, productsReady>>

-----------------------------------------------------------------------------
(* The paywall.                                                            *)

(* onViewDidAppear: without products, they are asked for again, or the     *)
(* request in flight is shared.                                            *)
OpenPaywall ==
  /\ running /\ ~paywall
  /\ settings \in {"closed", "idle"} /\ message = "none"
  /\ paywall' = TRUE
  /\ isLoading' = ~productsReady
  /\ infoWaiters' = IF productsReady THEN infoWaiters ELSE infoWaiters \cup {"paywall"}
  /\ UNCHANGED <<apple, running, access, productsReady, buyRequest, payments, restore,
                 verifications, alert, settingsScreen, faults>>

(* Mutant: the completion is only called when the products have arrived.   *)
ProductInfoOnSuccess ==
  /\ infoWaiters # {}
  /\ productsReady' \in BOOLEAN
  /\ infoWaiters' = {}
  /\ isLoading' = IF "paywall" \in infoWaiters /\ productsReady' THEN FALSE ELSE isLoading
  /\ UNCHANGED <<apple, running, access, buyRequest, payments, restore, verifications,
                 paywall, alert, settingsScreen, faults>>

(* The products' answer: both are known, or one is missing or the request  *)
(* has failed.                                                             *)
ProductInfo ==
  /\ infoWaiters # {}
  /\ productsReady' \in BOOLEAN
  /\ infoWaiters' = {}
  /\ isLoading' = IF "paywall" \in infoWaiters THEN FALSE ELSE isLoading
  /\ UNCHANGED <<apple, running, access, buyRequest, payments, restore, verifications,
                 paywall, alert, settingsScreen, faults>>

(* onContinueAction, with showPurchaseControls.                            *)
Continue(p) ==
  /\ paywall /\ ~isLoading /\ alert = "none"
  /\ productsReady /\ ~subscribed
  /\ Load < MaxInFlight /\ sheet = None
  /\ isLoading' = TRUE
  /\ buyRequest' = p
  /\ UNCHANGED <<apple, running, access, info, payments, restore, verifications,
                 paywall, alert, settingsScreen, faults>>

(* purchaseProduct has the product and adds the payment to the queue.      *)
StartPayment ==
  /\ buyRequest # None
  /\ payments' = payments \cup {buyRequest}
  /\ sheet' = buyRequest
  /\ buyRequest' = None
  /\ UNCHANGED <<now, paid, queue, approval, running, access, info, restore,
                 verifications, paywallScreen, settingsScreen, faults>>

(* purchaseProduct cannot get the product.                                 *)
PaymentUnavailable ==
  /\ buyRequest # None
  /\ buyRequest' = None
  /\ isLoading' = FALSE
  /\ alert' = "error"
  /\ UNCHANGED <<apple, running, access, info, payments, restore, verifications,
                 paywall, settingsScreen, faults>>

(* The alert's OK: the paywall stays unless the user is subscribed.        *)
AlertOK ==
  /\ alert # "none"
  /\ alert' = "none"
  /\ paywall' = ~subscribed
  /\ UNCHANGED <<apple, running, access, info, buyRequest, payments, restore,
                 verifications, isLoading, settingsScreen, faults>>

(* Back or Skip, below the loading view.                                   *)
ClosePaywall ==
  /\ paywall /\ ~isLoading /\ alert = "none"
  /\ paywall' = FALSE
  /\ UNCHANGED <<apple, running, access, info, buyRequest, payments, restore,
                 verifications, isLoading, alert, settingsScreen, faults>>

-----------------------------------------------------------------------------
(* Apple.                                                                  *)

Tick ==
  /\ now < MaxTime
  /\ now' = now + 1
  /\ UNCHANGED <<paid, queue, sheet, approval, running, access, info, buyRequest,
                 payments, restore, verifications, paywallScreen, settingsScreen, faults>>

Charged(p) == [paid EXCEPT ![p] = IF @ > now THEN @ ELSE now + Period[p]]
Queued(p, state) == Append(queue, [product |-> p, state |-> state])
inApp == <<running, access, info, buyRequest, payments, restore, verifications,
           paywallScreen, settingsScreen, faults>>

(* The payment sheet ends: paid, refused, or left to a parent.             *)
Pay ==
  /\ sheet # None
  /\ paid' = Charged(sheet)
  /\ queue' = Queued(sheet, "purchased")
  /\ sheet' = None
  /\ UNCHANGED <<now, approval, inApp>>

PaymentFails ==
  /\ sheet # None
  /\ queue' = Queued(sheet, "failed")
  /\ sheet' = None
  /\ UNCHANGED <<now, paid, approval, inApp>>

AskToBuy ==
  /\ sheet # None /\ approval = None
  /\ Load < MaxInFlight
  /\ queue' = Queued(sheet, "deferred")
  /\ approval' = sheet
  /\ sheet' = None
  /\ UNCHANGED <<now, paid, inApp>>

ParentDecides ==
  /\ approval # None
  /\ \/ paid' = Charged(approval) /\ queue' = Queued(approval, "purchased")
     \/ queue' = Queued(approval, "failed") /\ UNCHANGED paid
  /\ approval' = None
  /\ UNCHANGED <<now, sheet, inApp>>

(* A subscription that has run out is renewed.                             *)
Renew(p) ==
  /\ paid[p] # 0 /\ paid[p] = now
  /\ Load < MaxInFlight
  /\ paid' = Charged(p)
  /\ queue' = Queued(p, "purchased")
  /\ UNCHANGED <<now, sheet, approval, inApp>>

-----------------------------------------------------------------------------
(* Transactions and receipts.                                              *)

FreeId == CHOOSE i \in Ids : \A v \in verifications : v.id # i

(* verifyPurchases asks Apple to verify the receipt.                       *)
VerifyPurchases(for, owned) ==
  verifications' = verifications \cup
    {[id |-> FreeId, for |-> for, owned |-> owned, answer |-> "none",
      receipt |-> [p \in Product |-> 0]]}

(* Mutant: transactions nobody waits for are finished and forgotten.       *)
CompleteTransactionIgnored(t) == UNCHANGED verifications

(* completeTransactions: what no payment and no restore claims.            *)
CompleteTransaction(t) ==
  IF t.state \in {"purchased", "restored"}
  THEN VerifyPurchases("complete", FALSE)
  ELSE UNCHANGED verifications

(* updatedTransactions: payments first, then the restore, then the rest.   *)
(* The transaction is finished whatever becomes of it.                     *)
UpdatedTransaction ==
  /\ running /\ queue # <<>>
  /\ queue' = Tail(queue)
  /\ LET t == Head(queue) IN
     \/ /\ t.product \in payments /\ t.state \in {"purchased", "restored"}
        /\ payments' = payments \ {t.product}
        /\ VerifyPurchases("purchase", TRUE)
        /\ UNCHANGED <<restored, isLoading, alert>>
     \/ /\ t.product \in payments /\ t.state = "failed"
        /\ payments' = payments \ {t.product}
        /\ isLoading' = FALSE
        /\ alert' \in {"none", "error"}
        /\ UNCHANGED <<verifications, restored>>
     \/ /\ t.product \notin payments /\ t.state = "restored" /\ restoring # "none"
        /\ restored' = TRUE
        /\ UNCHANGED <<payments, verifications, isLoading, alert>>
     \/ /\ t.product \notin payments \/ t.state = "deferred"
        /\ t.state # "restored" \/ restoring = "none"
        /\ CompleteTransaction(t)
        /\ UNCHANGED <<payments, restored, isLoading, alert>>
  /\ UNCHANGED <<now, paid, sheet, approval, running, access, info, buyRequest,
                 restoring, restoreOwned, paywall, settingsScreen, faults>>

(* Apple's server looks at the receipt, or cannot be reached.              *)
ServerAnswers(v) ==
  /\ v \in verifications /\ v.answer = "none"
  /\ \/ /\ verifications' = (verifications \ {v}) \cup
             {[v EXCEPT !.answer = "receipt",
                        !.receipt = [p \in Product |-> IF p \in Entitled THEN paid[p] ELSE 0]]}
        /\ UNCHANGED faults
     \/ /\ faults < MaxFaults
        /\ faults' = faults + 1
        /\ verifications' = (verifications \ {v}) \cup {[v EXCEPT !.answer = "error"]}
  /\ UNCHANGED <<apple, running, access, info, buyRequest, payments, restore,
                 paywallScreen, settingsScreen>>

(* Mutant: no valid product makes an empty subscription instead of nil.    *)
UpdateSubscriptionsWithReceiptEmpty(receipt) ==
  LET valid == {i \in DOMAIN Products : receipt[Products[i]] > 0}
      first == CHOOSE i \in valid : \A j \in valid : i <= j
  IN IF valid = {} THEN [period |-> None, expirationDate |-> 0]
     ELSE [period |-> Products[first], expirationDate |-> receipt[Products[first]]]

(* updateSubscriptionsWithReceipt: both products have the same priority,   *)
(* so the first valid one is taken.                                        *)
UpdateSubscriptionsWithReceipt(receipt) ==
  LET valid == {i \in DOMAIN Products : receipt[Products[i]] > 0}
      first == CHOOSE i \in valid : \A j \in valid : i <= j
  IN IF valid = {} THEN None
     ELSE [period |-> Products[first], expirationDate |-> receipt[Products[first]]]

(* Mutant: a failed verification leaves the screens loading.               *)
VerifiedOnSuccess(v) ==
  CASE v.for = "purchase" /\ v.answer # "error" ->
         /\ isLoading' = FALSE
         /\ alert' = IF subscribed' THEN "purchased" ELSE "unknown"
         /\ UNCHANGED settingsScreen
    [] OTHER -> UNCHANGED <<isLoading, alert, settingsScreen>>

(* What the caller of verifyPurchases does with the outcome.               *)
Verified(v) ==
  CASE v.for = "purchase" ->
         /\ isLoading' = FALSE
         /\ alert' = IF subscribed' THEN "purchased" ELSE "unknown"
         /\ UNCHANGED settingsScreen
    [] v.for = "restore" /\ v.owned ->
         /\ settings' = "idle"
         /\ message' = IF subscribed' THEN "Restored Successfully" ELSE "Nothing to Restore"
         /\ UNCHANGED <<isLoading, alert>>
    [] OTHER -> UNCHANGED <<isLoading, alert, settingsScreen>>

(* Mutant: the outcome is not written to the user defaults.                *)
VerificationDoneUnsaved(v) ==
  /\ v \in verifications /\ v.answer # "none"
  /\ verifications' = verifications \ {v}
  /\ activeSubscription' = IF v.answer = "error" THEN None
                           ELSE UpdateSubscriptionsWithReceipt(v.receipt)
  /\ Verified(v)
  /\ UNCHANGED <<apple, running, stored, lapse, info, buyRequest, payments, restore,
                 paywall, faults>>

(* The callback of verifyPurchases: nil first, then what the receipt says. *)
VerificationDone(v) ==
  /\ v \in verifications /\ v.answer # "none"
  /\ verifications' = verifications \ {v}
  /\ activeSubscription' = IF v.answer = "error" THEN None
                           ELSE UpdateSubscriptionsWithReceipt(v.receipt)
  /\ stored' = activeSubscription'
  /\ lapse' = CASE v.answer = "error" -> "failed"
                [] v.answer = "receipt" /\ (\E p \in Entitled : v.receipt[p] < paid[p])
                     -> "overtaken"
                [] v.answer = "receipt" /\ subscribed'
                     /\ (\E p \in Entitled : paid[p] > activeSubscription'.expirationDate)
                     -> "shorter"
                [] OTHER -> "none"
  /\ Verified(v)
  /\ UNCHANGED <<apple, running, info, buyRequest, payments, restore, paywall, faults>>

-----------------------------------------------------------------------------
(* Restore purchases, from the settings.                                   *)

OpenSettings ==
  /\ running /\ settings = "closed" /\ ~paywall
  /\ settings' = "idle"
  /\ UNCHANGED <<apple, running, access, info, buyRequest, payments, restore,
                 verifications, paywallScreen, message, faults>>

(* The sheet is swiped away, also under its loading view; the completion   *)
(* holds it weakly.                                                        *)
CloseSettings ==
  /\ settings # "closed" /\ message = "none" /\ ~paywall
  /\ settings' = "closed"
  /\ restoreOwned' = FALSE
  /\ verifications' = {[v EXCEPT !.owned = @ /\ v.for # "restore"] : v \in verifications}
  /\ UNCHANGED <<apple, running, access, info, buyRequest, payments, restoring, restored,
                 paywallScreen, message, faults>>

MessageOK ==
  /\ message # "none"
  /\ message' = "none"
  /\ UNCHANGED <<apple, running, access, info, buyRequest, payments, restore,
                 verifications, paywallScreen, settings, faults>>

(* onRestorePurchases: restorePurchases returns without a word when a      *)
(* restore is running.                                                     *)
OnRestorePurchases ==
  /\ settings = "idle" /\ message = "none" /\ ~paywall
  /\ Load < MaxInFlight
  /\ IF restoring = "none"
     THEN /\ settings' = "restoring"
          /\ restoring' = "asked" /\ restored' = FALSE /\ restoreOwned' = TRUE
     ELSE settings' = "dropped" /\ UNCHANGED restore
  /\ UNCHANGED <<apple, running, access, info, buyRequest, payments, verifications,
                 paywallScreen, message, faults>>

(* The products that were ever bought, each once, in any order.            *)
PastPurchases ==
  {past \in UNION {[1 .. n -> Product] : n \in 0 .. Len(Products)} :
     /\ {past[i] : i \in DOMAIN past} = {p \in Product : paid[p] # 0}
     /\ \A i, j \in DOMAIN past : past[i] = past[j] => i = j}

(* The App Store queues a restored transaction for every past purchase.    *)
RestoredTransactions ==
  /\ restoring = "asked"
  /\ restoring' = "answered"
  /\ \E past \in PastPurchases :
       queue' = queue \o [i \in DOMAIN past |-> [product |-> past[i], state |-> "restored"]]
  /\ UNCHANGED <<now, paid, sheet, approval, running, access, info, buyRequest, payments,
                 restored, restoreOwned, verifications, paywallScreen, settingsScreen, faults>>

RestoreSays(text) ==
  IF restoreOwned THEN settings' = "idle" /\ message' = text ELSE UNCHANGED settingsScreen

(* Mutant: an empty restore is not reported.                               *)
RestoreFinishedSilently ==
  /\ restoring = "answered" /\ \A i \in DOMAIN queue : queue[i].state # "restored"
  /\ restoring' = "none" /\ restored' = FALSE /\ restoreOwned' = FALSE
  /\ IF restored
     THEN VerifyPurchases("restore", restoreOwned) /\ UNCHANGED settingsScreen
     ELSE UNCHANGED <<settingsScreen, verifications>>
  /\ UNCHANGED <<apple, running, access, info, buyRequest, payments, paywallScreen, faults>>

RestoreFinished ==
  /\ restoring = "answered" /\ \A i \in DOMAIN queue : queue[i].state # "restored"
  /\ restoring' = "none" /\ restored' = FALSE /\ restoreOwned' = FALSE
  /\ IF restored
     THEN VerifyPurchases("restore", restoreOwned) /\ UNCHANGED settingsScreen
     ELSE RestoreSays("Nothing to Restore") /\ UNCHANGED verifications
  /\ UNCHANGED <<apple, running, access, info, buyRequest, payments, paywallScreen, faults>>

RestoreFails ==
  /\ restoring # "none"
  /\ restoring' = "none" /\ restored' = FALSE /\ restoreOwned' = FALSE
  /\ RestoreSays("Restore failed")
  /\ UNCHANGED <<apple, running, access, info, buyRequest, payments, verifications,
                 paywallScreen, faults>>

-----------------------------------------------------------------------------
Next ==
  \/ Launch
  \/ Kill
  \/ OpenPaywall
  \/ ProductInfo
  \/ \E p \in Product : Continue(p)
  \/ StartPayment
  \/ PaymentUnavailable
  \/ AlertOK
  \/ ClosePaywall
  \/ Tick
  \/ Pay
  \/ PaymentFails
  \/ AskToBuy
  \/ ParentDecides
  \/ \E p \in Product : Renew(p)
  \/ UpdatedTransaction
  \/ \E v \in verifications : ServerAnswers(v)
  \/ \E v \in verifications : VerificationDone(v)
  \/ OpenSettings
  \/ CloseSettings
  \/ MessageOK
  \/ OnRestorePurchases
  \/ RestoredTransactions
  \/ RestoreFinished
  \/ RestoreFails

(* StoreKit, Apple's server and the main queue answer in the end, and the  *)
(* user does with a payment sheet.  A parent need not decide.              *)
Fairness ==
  /\ WF_vars(ProductInfo)
  /\ WF_vars(StartPayment \/ PaymentUnavailable)
  /\ WF_vars(Pay \/ PaymentFails \/ AskToBuy)
  /\ WF_vars(UpdatedTransaction)
  /\ \A i \in Ids :
       /\ WF_vars(\E v \in verifications : v.id = i /\ ServerAnswers(v))
       /\ WF_vars(\E v \in verifications : v.id = i /\ VerificationDone(v))
  /\ WF_vars(RestoredTransactions \/ RestoreFails)
  /\ WF_vars(RestoreFinished)

Spec == Init /\ [][Next]_vars /\ Fairness

-----------------------------------------------------------------------------
(* The app has nothing to hear or to handle.                               *)
Quiescent == running /\ queue = <<>> /\ verifications = {}

(* A user who has paid is subscribed once the app has handled every        *)
(* transaction, although transactions are finished before their receipt is *)
(* verified; unless the last answer to verifyPurchases was an error, was   *)
(* overtaken by a newer one, was cut off by the end of the process, or     *)
(* named a product that runs out before another one.                       *)
PaidIsActive == Quiescent /\ Entitled # {} /\ ~subscribed => lapse # "none"

(* Whatever is lost, repeated or overtaken, the app only knows             *)
(* subscriptions that Apple was paid for, and the user defaults hold what  *)
(* is in memory or what has run out.                                       *)
PaidFor ==
  /\ subscribed => activeSubscription.expirationDate <= paid[activeSubscription.period]
  /\ running /\ activeSubscription # stored
       => ~subscribed /\ stored.expirationDate <= now

(* The paywall's loading view, which covers even its Back button, goes     *)
(* away; unless the purchase waits for a parent (a deferred transaction is *)
(* finished by SwiftyStoreKit without a word to the payment's callback).   *)
LoadingEnds == isLoading ~> ~isLoading \/ approval # None

(* A restore that was not dropped ends with a message or with its screen.  *)
RestoreEnds == settings = "restoring" ~> settings # "restoring"
=============================================================================
