# A TLA+ verification of the Leo (GenieD) chat app

The repository is an iOS client for a chat service: `src/GenieD/GenieD` holds about 6000 lines of
Swift, `src/GenieD/Pods` the third-party code it is built with. This directory models the app's
own logic. There are no tests in the repository and its README is one line, so the reference is
the Swift code, with the texts it shows to the user where these make a promise.

Paths below are relative to `src/GenieD/GenieD`.

## 1. Inventory

| Component | State | Operations | Hard part |
|---|---|---|---|
| Chat screen: `Views/AskQuestion/*` | conversation, draft, loading / error / typing flags, alert and covers, two "before the paywall" flags, sound | open, type, pick an image, send, try again, answer, toggle sound, leave, delete, background | four ways into `onSendAction`, whose guard is the only lock; saves at any moment; replay after the paywall |
| Text service: `Servises/OpenAI/*` | per request: attempt, refresh flag; shared key | `sendText`, `_sendTurbo`, `decodeUrl`, restart block | recursion through an asynchronous fetch; exactly-once completion |
| Context window: loop of `_sendTurbo` | messages with `usageTokens` | take messages from the newest on | three meanings of `usageTokens`, rounding, boundaries |
| Remote settings: `Servises/FirestoreManager.swift` | key, limits | `fetchSystem` | called at launch and by every request |
| Server time: `Servises/ServerTimeManager.swift` | offset of the clock, loading flag, failures | update, request, handle, retry | dropped requests, retry chains |
| Question quota: `Servises/LocalStorage.swift`, `KeychainStorage.swift`, `Extensions/Date.swift` | counter in memory, keychain and defaults; stamp in the last two | read (and reset), count, reset | partial writes (`KeychainSwift.set` deletes, then adds, and its result is ignored), reinstallation, days, unknown time |
| Subscriptions: `Servises/BuyPro/*` | active subscription, its copy in the defaults, StoreKit's queue | purchase, verify, restore, complete transactions | forgets before it verifies; transactions are finished before their receipt is looked at; answers overlap |
| Paywall: `Views/Paywall/*`, restore in `Views/Settings/*` | products, loading, alert | load, buy, close; restore | a loading view over every button; its end triggers the replay |
| Chat store: Core Data, `Servises/Persistence.swift`, `Views/SideMenuView.swift` | chats and message rows | save, delete, load | rewritten on each save, ordered by the device's clock |
| Life cycle: `Views/ContentView.swift`, `AppDelegate.swift` | scene phase | appear, become active | starts the fetch, the clock and the review prompt |
| Image questions: `Servises/Networking/*` | none | upload | one asynchronous answer |
| Narration: `speakText`, `Views/VoiceView.swift` | speaking, sound off | speak, stop, toggle | must stop with the screen |
| Type writer: `CustomViews/TypeWriterView.swift` | position | type | ends later than the answer |
| Network monitor: `Servises/Networking/NetworkMonitor.swift` | connected | start, handle a path, stop | two queues, one of them concurrent; started before its handler is set |
| Image sources: pickers of `AskQuestionView`, `Views/GoogleDrive/*`, `Servises/GoogleDrive/*` | picker flags, sign-in, file list, downloads | camera, gallery, files, sign in, list, download | a callback off the main queue; calls that outlive their sheet |
| Home, side menu, settings, onboarding, localization, configuration | presentation state | navigation, look-ups | none |

How they interact: the chat screen asks the text service (callback on the main queue), reads the
quota before each send and counts each answer, reads the subscription to know the limit, opens the
paywall at the limit and is called back by it. The quota trusts only the server time. The text
service takes its key from the remote settings, and fetches them when an attempt fails. Almost
everything runs on the main queue, so a handler is one atomic step; the interleavings are those of
handlers, callbacks, timers, user gestures, StoreKit events, scene phases and midnight. Finer steps
matter in three places: the quota, whose copies outlive a process that dies between two writes, or
between the delete and the add of one keychain write; the
camera's permission callback, whose two assignments run off the main queue; and the network monitor,
whose paths cross a concurrent queue. The keychain's items are synchronised between the user's
devices, one at a time.

`OpenAIService.swift:76` calls `decodeUrl` without the `appCheckToken` it requires, and
`OpenAISession.swift:22` passes its arguments in another order than they are declared in: at this
commit the two do not compile. They are modelled as they are evidently meant, with the App Check
token left out, as the surrounding comments do.

## 2. Modules

| Module | Models | State and actions |
|---|---|---|
| `ServerTime` | `ServerTimeManager` | `clock` is the device's offset from real time, `shortTimers`/`longTimers` the pending `asyncAfter` blocks. `BecomeActive` is `updateServerTime`; `TimestampArrives`/`TimestampFails` are `_handleResponse`; `RetryTimerFires` a block that runs; `SetClock` the user in the system settings. |
| `AskOnce` | the contract of the text service | a request is asked, then completed once. |
| `TextRequest` | `_sendTurbo`, `OpenAISession`, `fetchSystem` | `pc[r]` is where request `r` waits. `CheckRefreshKey` is `checkRefreshKeyAndRestartBlock`. |
| `TokenWindow` | the loop of `_sendTurbo`, the filter of `_sendText` | `chat` is what the filter leaves of the conversation, `kept` says whether the question in flight is part of it (a malformed temperature command is not); `Command` is a command that is obeyed without a request and yet passes the filter. `Take` is one turn of the loop, `Stop` its end and the request, `Respond` the bookkeeping of `handleSendTextResponse`. `size` is what the code does not know: the real size of a message. |
| `Quota` | `LocalStorage`, `KeychainStorage` | `pc` is the running handler's next step: `DeleteStamp`, `AddStamp`, `StoreStamp` for a reset, then `SetMemory`, `DeleteCount`, `AddCount`, `StoreCount`. `SetFails` is a keychain write without effect, `Stop` may come between any two steps. After a reset `pc` is "read": the counter just read may be used for a question (`Ask`) whatever became of the stamp. |
| `ChatSession` | `AskQuestionViewModel`, `AskQuestionView` | one action per handler; the quota, the subscription and the store are the slices the screen sees. |
| `Subscription` | `BuyProService`, `PaywallViewModel`, `SettingsViewModel.onRestorePurchases`, and what they use of SwiftyStoreKit and of Apple | `paid` is what Apple was paid for, `queue` the unfinished transactions, `verifications` the receipts under way. `UpdatedTransaction` is the payment queue's callback with its order of controllers (payments, restore, the rest); `ServerAnswers` takes the receipt's content, `VerificationDone` is the callback of `verifyPurchases`. `lapse` remembers why the app may know less than it was told. |
| `ChatArchive` | the contract of the history | a conversation is opened, grows, is kept without its unanswered question, is deleted. |
| `ChatStore` | `saveChat`, `onDeleteChatAction`, the sort in `init` | `rows` are the message rows with the device's time of each; `Sorted` is every order the sort can give. `Archive` maps the sorted rows to `ChatArchive`. |
| `QuotaSync` | the quota on several devices | `Quota` with one step per handler and a keychain per device; `Sync` brings one item of the latest write. |
| `NetworkMonitor` | `NetworkMonitor`, the two taps that read it | `workers` and `main` are the two queues; `Start` and `SetHandler` are the two statements of `start()`. |
| `ImageSources` | pickers, `GoogleDriveManager`, `GoogleDriveFilesViewModel` | `cameraBlock` counts the assignments left of the permission callback; `drive` is what the open sheet waits for, `downloads` those under way, also of sheets that are gone. `checked` is what the user has checked, kept apart from the code's `selectedIndexes`; `lastPick` the images the last pick allows. |
| `*Proofs` | | the theorems about the module they extend; `NetworkProofs` holds those of `TextRequest`, `ServerTime` and `NetworkMonitor`. |
| `*MC` | | the instances for TLC. |

Abstractions in `ChatSession`: a text is a member of a small set (an ordinary question, a
temperature command that is accepted, out of range, malformed, or typed in another letter case);
an answer carries the text of the question that the service answered, so that an answer under the
wrong question can be seen. An image may come at any moment, because a download from Google Drive
outlives its sheet (`ImageSources`). Connectivity, the moment of midnight and what a receipt says are
free choices at each step. Answers to `LocalStorage` reads are `CountsRead`: the counter, or 0 when the
read is the first of a new day. `temperature` is set or not. Swiping back does not wait for the
answer in flight, the back button does, as in the code. The view model that is discarded with a
question in flight never handles its response (`[weak self]`).

Deleting a chat and then leaving makes `onDisappear` save a deleted Core Data object. Whether the
object comes back depends on Core Data; the models allow both.

Abstractions in the other modules. In `Subscription` time is in periods of the shorter product, and
the server's receipt holds what is paid at the moment it answers; a restore brings the past purchases
back in any order; it starts with nothing paid and the app is not deleted in between. In `Quota` a
read of the keychain always succeeds, and the days are those of one time zone, though `Date.day` uses
`Calendar.current`. `QuotaSync` is about the order of the items: its handlers are atomic and its
keychain writes succeed. `TokenWindow` leaves out when a text contains a command: any question or
answer may. `ImageSources` assumes that a user
is slower than the blocks already queued, and that the sign-in page covers the sheet; the completion
of a download holds the view, so that it may still set the image when the sheet is gone (its `dissmiss()`
then does nothing: the view is not presented). Of several checked files only the one tapped first is
downloaded, as in the code. In
`NetworkMonitor` each opening of the chat has a monitor of its own, as in the code: a cancelled one
is never started again.

## 3. Runs

| Run | Configuration | Checks |
|---|---|---|
| `server_time` | `ServerTime.cfg` | `RetryNeverLost`, `OneChainPerActivation`, `EventuallySynchronised` |
| `text_request` | `TextRequest.cfg` | `BoundedAttempts`, `RefreshBeforeGivingUp`, `KeyBeforePost`, `ImplementsAskOnce` (refinement with liveness) |
| `chat` | `ChatSession.cfg` | `OneActivity`, `FreeQuota`, `ReplayValid`, `Silence`, `ConversationInTurns`, `TemperatureIsLocal`, `HistoryComplete`, `KeepsConversation`, `ReplayNotLost` |
| `token_window` | `TokenWindow.cfg` | `Budget`, `QuestionSent`, `LongestWindow` (against a declarative definition), `PromptFits` |
| `quota` | `Quota.cfg` | `DailyPackage`, `CountsToday` |
| `subscription` | `Subscription.cfg` | `PaidIsActive`, `PaidFor`, `LoadingEnds`, `RestoreEnds` |
| `chat_store` | `ChatStore.cfg` | `LossNeedsSetBack`, `ArchiveUntilSetBack` (step simulation of `ChatArchive`) |
| `quota_sync` | `QuotaSync.cfg` | `PackagePerDevice` |
| `network_monitor` | `NetworkMonitor.cfg` | `KnowsNetwork`, `RecoversConnection` |
| `image_sources` | `ImageSources.cfg` | `CameraOnlyAsked`, `LastPickWins`, `DriveLoadingEnds` |
| `token_memory` | `TokenMemory.cfg` | violated: `RemembersWhatFits` |
| `quota_weekly` | `QuotaWeekly.cfg` | violated: `WeeklyPackage` |

`TypeOK` (`TimeTypeOK`, `NetTypeOK`) is proved for every module; the runs of `Quota`,
`Subscription`, `ChatStore`, `QuotaSync`, `NetworkMonitor` and `ImageSources` check it too. What the
passing runs show is in the comment over each property.

**What does not hold.** Two runs show a disagreement between the code and a text of the app.

- `token_memory`. The plan promises "Dialogs (AI remembers chat history)"
  (`Views/Paywall/PaywallView.swift:362`). An answered question gets `usageTokens = promptTokens`,
  which is the size of the whole prompt, and the loop adds these up: a conversation that would fit
  loses its oldest messages after a few exchanges.
- `quota_weekly`. The alert speaks of a "weekly free package"
  (`Views/AskQuestion/AskQuestionView.swift:117`); the counter is reset on each day
  (`LocalStorage.swift:112`; the weekly rule is a comment on the next line).

Other places where the code does less than a user would expect are named in the exceptions of the
passing properties:

- a verification that fails ends a subscription that is paid for (`verifyPurchases` sets
  `activeSubscription = nil` before it looks at the result, `BuyProService.swift:166`), and a restore
  then says "Nothing to Restore" (`PaidIsActive`);
- a purchase that waits for a parent leaves the paywall's loading view up (`LoadingEnds`);
- a clock set back between a question and its answer can make a chat vanish when it is opened and
  left again (`LossNeedsSetBack`);
- after the first camera permission the "Camera" button can open the photo library, when the view is
  drawn between the callback's two assignments (`CameraOnlyAsked` holds; its converse does not);
- the first path of the network can be lost, and the chat then believes there is no connection until
  the next change (`KnowsNetwork`);
- a stamp that another device wrote today keeps a device from resetting its own counter, which may
  then be used up on a new day (`PackagePerDevice` bounds the answers from above only).

**What the properties had to say exactly.** The first version of some properties was refuted by
legal behaviour, which is now part of their statement:

- `DailyPackage`: until the time service answers, the counter is not reset and old answers count;
  then it is reset, so the answers of a day can be two packages. A fault is a keychain write that
  fails or a death of the process inside a handler. While the defaults keep the second copy it costs
  one count of the questions asked with the time known. Once the app was reinstalled it can cost a
  whole package: after one answer, a reinstallation and a death between the delete and the add
  of the next count, both copies are empty and the stamp is still today's. And a reset whose stamp is
  not stored is repeated, which can cost another package of those asked before the time is known.
  Restarts and reinstallations gain nothing by themselves. TLC attains each of the bounds.
- `QuestionSent`: `_sendText` removes every message whose text contains a temperature text, so a
  malformed command is shown but not in the request, which may even go out empty. The property is
  about what the loop does to a question that passed the filter.
- `CountsToday`: only the day of the month is compared, so a user who comes back on the same day of
  a later month finds the old counter; and a fault can lose the reset of a day.
- `ConversationInTurns`: a malformed temperature command is shown but not sent; the service then answers the
  message before it.
- `PaidIsActive`: the last answer may have been an error, overtaken by a newer one, cut off by the end
  of the process, or have named the product that runs out first; `lapse` tells which.
- `PackagePerDevice`: one more answer than the package when a question asked before midnight is
  answered after it. Between devices nothing is added up: each has a package of its own.
- `LastPickWins`: a download whose sheet was swiped away may still replace a newer image; only the
  step in which such a download ends is exempt. On Google Drive any of the files checked when Open was
  tapped counts as picked.
- `KnowsNetwork`, `RecoversConnection`: unless a path was lost or overtaken.
- `PromptFits`: messages without a usage (the newest question, image questions) are not counted.

### Bounds, and why they are enough

- `server_time`: two offsets, three activations, the code's five quick retries. The code compares the
  offset only with itself; three activations let a chain start while two others are pending.
- `text_request`: three requests, with the launch fetch. Requests interact only through the key.
- `chat`: at most four messages (two exchanges), one chat, limits of one and two questions, the
  counter saturating above both; two ordinary texts, one of them the image's default, and one of each
  kind of command. A question looks at the last two messages only; two exchanges give a conversation
  with a past, a failure and a retry. Two chats at a time are in `chat_store`.
- `token_window`: a context of 16 tokens, sizes 1, 2 and 4, plans of 3 and 6 (one odd, for the
  rounding), six messages that pass the filter or do not, commands among them. Three exchanges
  overflow the window at every boundary.
- `quota`: a package of two, a month of two days and three days, so that a day of the month comes
  back; two faults, so that a second one can meet what the first has left. `quota_weekly` needs no
  fault: a month of three days and four days.
- `subscription`: both products, with periods of one and two units of time and one unit to pass, so
  that one runs out while the other lasts; nothing new starts while two purchases, restores,
  approvals, transactions or verifications are under way (`Load`), though a restore under way may
  bring back both products; one fault, which is a death of the process or a verification without an
  answer. The invariants were also checked once with three under way (5.5 million states).
- `chat_store`: two chats, six messages (three exchanges), a clock that is set back twice.
- `quota_sync`: two devices, a package of two, three days. A third device adds nothing that a device
  with an old copy does not have.
- `network_monitor`: six changes, enough for paths to overtake each other in two openings of a chat.
- `image_sources`: two photos, two files on Google Drive, two downloads: one of the open sheet and one
  of a sheet that is gone.

`quota_sync` uses the symmetry of the devices (no temporal property). Deadlock is checked in all runs
but `text_request`, where all requests may be completed.

### Fairness

- `ServerTime`: a timer on the main queue fires, and `URLSession` ends each request within its
  timeout (weak fairness). A request that is sent again and again is answered in the end (strong
  fairness of `TimestampArrives`): the network is not down for ever. Nothing is assumed of the user
  or of the scene phases.
- `TextRequest`: `URLSession` calls its handler within 240 s and Firestore calls back with a
  snapshot or an error. No fairness of a *successful* answer is assumed.
- `Subscription`: StoreKit, Apple's server and the main queue answer in the end, with success or not,
  and a user ends a payment sheet. A parent need not decide.
- `NetworkMonitor`: the two queues run their blocks.
- `ImageSources`: the sign-in, the list and the download of the open sheet end, with success or not.

The other specifications are safety only: the user may stop at any time.

## 4. Proofs

TLAPS checks the theorems for every value of the constants.

**`NetworkProofs`** — the three components that talk to the network. The module extends
`TextRequest`, `ServerTime` and `NetworkMonitor`, which share no state; the definitions of the last
two carry the prefixes `Time` and `Net` where each module has one (`TimeInit`, `NetSpec`).

- Text service, for any set of requests, finite or not. None of the three safety properties is
  inductive: whether a completed request was refreshed depends on which attempt it was. `Progress(r)`
  says for each control state what the flag, the counts and the result are, and that the key is there
  while a post is out; it is inductive and implies `BoundedAttempts`, `RefreshBeforeGivingUp`,
  `KeyBeforePost`, and that every step maps to a step of `AskOnce` or to a stutter
  (`CompletesAtMostOnce`).
- Server time, for any offsets and bounds. `TimeTypeOK` with `RetryNeverLost` and
  `OneChainPerActivation` is inductive: `_handleResponse` exchanges the request in flight for one
  timer, a timer for a request (or for nothing, when one is in flight), and only `BecomeActive` adds
  to the chains.
- Network monitor, for any number of changes. `KnowsNetwork` speaks of empty queues only;
  `ReportsInv` says what full ones hold: the last report on its way — on the concurrent queue, else on
  the main one, else the last one handled — is the network, unless a path was lost or overtaken;
  nothing is on the main queue before the handler is set, and a closed chat has nothing queued.

**`TokenWindowProofs`** — from `SettingsAssumption`: half of each plan's limit and the reserve fit
the model (with 3000 tokens and 4097: 1550). The invariant `Window` says that the newest message
has no usage yet if the question passed the filter, that what is taken is within the budget, and that
nothing is counted before something is taken. It implies that the loop cannot stop before a question
that passed the filter (`NewestQuestionSent`) and that prompt, reserve and answer fit
(`RequestsFit`). Without the
assumption, a limit above 8094 set in the remote settings would make the window empty.

`WalkInv` relates the walk to the conversation: the sum is the usage of the messages taken
(`Walked`), the walk ends at the oldest message or before one that does not fit (`Cut`), and a
message that carries a usage counts for no less than its size (`Counted`, because the prompt that an
answered question is charged with contains that question). `WindowIsLongest` needs that sums of
natural numbers shrink as the window does; `PromptWithinBudget` compares three sums message by
message. Both are inductions over positions of a sequence. They are made without the library's
induction rules: the positions where a claim fails would have a least element (`FirstOf`, from the
well-foundedness of `<`), and `UpTo` packages the argument for sets of numbers. The recursive
function under `SumFrom` is unfolded once by a lemma that starts from the existence of a function
with its equation.

**`ChatSessionProofs`** — for any texts, chats, package sizes and conversation lengths. Type
correctness alone is not inductive: an answer takes its text from the question in flight, so
`Waiting` (loading implies a known question) goes with it. `FreeQuota` needs also `FreePlan` (who
never subscribed is on the free plan): `Asked(n)` sums up what `onSendAction` and
`onTryAgainAction` may do when the counter reads `n` — a new question only below the limit, on a
counter that then holds `n` — and every handler is an ask, an answer that turns the question in
flight into a counted one, the end of a question, a remembered change of plan, or quiet.
The other properties of the run come from one invariant, `ChatInv`, since none is inductive alone.
`ScreenInv` is about flags: a closed chat has none set, one cover is up at a time, a remembered
send or retry is under the paywall, nobody speaks with the sound off. `Conversation` ties the
messages to the flags: they are a transcript (`ConversationInTurns`), end in a question exactly when
one is in flight or has failed (`OneActivity`), and that question is the one the service was asked
(`LastQuestion`), so that the answer is appended under its own question. `HistoryComplete` then
follows for each save, because `saveChat` drops an unanswered question, and gives back a transcript
when a chat is opened. The action properties `KeepsConversation` and `ReplayNotLost` follow from
`ChatInv` step by step: the question that Try Again removes is the one it puts back.

**`QuotaSyncProofs`** — for any set of devices. `PackageInv` says that once one device has
today's stamp, the last written stamp is today's (so iCloud can make no device reset twice in a
day); that a running device counts at least what it has stored; and that before its reset of the
day a device can have answered only the one question from before midnight. `PackagePerDevice` is
part of it.

**`QuotaProofs`** — for any package, length of a month, number of days and of faults. Within a
handler memory, keychain and defaults differ, and each fault leaves a difference behind, so each
bound needs a copy to measure it by. `HandlerInv`, `CounterInv`, `StampInv` and `FutureInv` say
what a handler works with at each step: one value, at most a package, and no stamp and no answer of
a day after `Now`, which is the day of the running reset or else today. `TimedInv` bounds the
questions asked today with the time known by memory, and by the keychain once that is written, plus
a package for each fault (`Lost`); while the keychain's stamp is not of today, so that a
reinstallation would bring another reset, a package of that is held back (`Reserve`). Before any
reinstallation `OneEach` does so by the defaults and with one question for each fault. `AnswersInv`
adds one package from before the reset of the day (`BeforeReset`) for all answers. `DailyPackage`
follows; its products of two variables are dealt with by two lemmas on multiplication
(`LostPackages`, `LostGrows`). `TodayInv` (without a fault, after the reset of the day each copy
already written counts today's answers only) gives `CountsToday`, together with the lemma `SameDay`:
two days less than a month apart with the same day of the month are one day.

**`SubscriptionProofs`** — for any list of products, periods, and number of transactions,
verifications and faults. `PaidInv`: nothing the app knows or is about to hear is later than what
Apple was paid for. `StoredInv`: memory and the user defaults agree, or the defaults have run out.
`PromiseInv`: unless `lapse` names a reason, a payment is announced in the queue, or a verification
is under way, or the user defaults know a subscription that lasts as long as everything paid for;
`updatedTransactions` finishes no paid transaction without starting a verification, and an answer
that is neither an error nor overtaken contains it. `PaidFor` and `PaidIsActive` follow. `None` is
assumed not to be a subscription (`nil` in the code).

The types need a count. A verification gets a number that none under way has, out of
`MaxInFlight + Len(Products)` many, and `TypeOK` says that there is one. `Bounded` says how much can
be under way: what starts something new asks `Load < MaxInFlight`, everything else exchanges one thing
for another, and only the answer to a restore, which is asked while the load is still within
`MaxInFlight`, adds a transaction for each product. `FreeIdIsFree` is the pigeonhole argument.

What the loading views wait for is the safety half of `LoadingEnds` and `RestoreEnds`, and is proved
for every instance. `LoadingWaits`: a paywall that is loading has asked for the products or for the
product to buy, or has a payment that is on the sheet, with a parent or in a transaction that is not a
deferred one, or has a receipt under way. `RestoreWaits`: settings that show a restore own it, or the
receipt after it. The first needs `Stopped` (nothing survives the process), since a launch
forgets who waits for the products. What the runs add is that, under the fairness of
`Spec`, each of these calls ends.

**`ChatStoreProofs`** — for any chats, numbers of messages and settings of the clock. Neither
property is inductive. `RowsInv`: the rows of a chat that was never saved out of order are ascending
in time, and are a transcript that ends in an answer. `ScreenInv`: an open conversation alternates,
ends in a question exactly while that is in flight or has failed (`Turns`), and contains what is
stored of its chat, so that `saveChat`, which drops the last question, never empties it.
`TimesInv`: until the clock is set back, no message and no row is later than the clock.
`LossNeedsSetBack` follows from the first two. For `ArchiveUntilSetBack` the rows must be their own
sorted order: by `IncreasingIsIdentity` the only permutation that keeps strictly ascending times in
order is the identity, so that `Stored = rows`, and each handler is then a step of `ChatArchive` or
leaves the archive alone. Rows with equal times, which the sort may exchange, count as scrambled.

**`ImageSourcesProofs`** — for any photos, finitely many files on Google Drive and any number of
downloads. `PickerInv` follows the two flags of the sheet through both permission callbacks: what
is under way for the camera or the library was chosen last, and the camera's flag is down whenever
the library's sheet is to be shown; `CameraOnlyAsked` is part of it. `DriveInv`: a call that the
sheet waits for keeps it loading, its own download is the last one and is of a file that was checked
when Open was tapped (`SheetInv`), because the selected indexes are exactly those of the checked files
of a list without duplicates (`ChecksInv`); `LastPickWins` follows for each step. The types
include that a selected index points into the file list, which holds because a new list comes
only before anything is selected; `Without` is shown to keep a selection a selection. `DriveWaits`,
the safety half of `DriveLoadingEnds`, is inductive by itself: a loading sheet has a call out.

Only model-checked: liveness, which is out of the prover's reach. These are
`EventuallySynchronised`, the fairness part of `ImplementsAskOnce`, `LoadingEnds`, `RestoreEnds`,
`RecoversConnection` and `DriveLoadingEnds`; the safety halves of four of them are proved
(`CompletesAtMostOnce`, `LoadingHasReason`, `RestoreHasReason`, `DriveHasReason`). Every invariant
and every action property of the passing runs is proved.

## 5. Not modelled

- Presentation, layout, localization, configuration, onboarding and the side menu hold no logic beyond
  navigation.
- The multipart encoder is byte formatting; the names of chats are text.
- The letters of the type writer, the rest of an answer that is read when the sound comes back, and
  the samples typed into the empty field: nothing else depends on them. In `ChatSession` an answer is
  being typed or not.
- Message rows without a chat, which each save leaves behind: nothing reads them. The security-scoped
  resource of an imported file is never released; it is not part of the app's state.
- `search`, `listFiles` and `signOut` of Google Drive have no caller; `onNewChatAction` and the PDF
  branch of `onSendAction` cannot be reached (`isDialog` is always true; no picker offers a PDF).
- Third-party pods are represented by how the app uses them.

The hazards without a property are in `PROJECT.json` with the reason.

## 6. What could follow

- `ServerTime`: the delay between a response and its handler, when the app is suspended.
- The letters of the type writer, for the rest of an answer that is read when the sound comes back.
