----------------------------- MODULE ChatSession -----------------------------
(***************************************************************************)
(* The chat screen: AskQuestionViewModel driven by AskQuestionView, with   *)
(* the slice of the quota (LocalStorage), the subscription (BuyProService) *)
(* and the chat history (Core Data) it reads and writes.                   *)
(*                                                                         *)
(* All of it runs on the main queue, so a handler is one step.  The user,  *)
(* the answer to the question in flight, the type-writer, the App Store,   *)
(* the scene phases and midnight interleave between handlers.              *)
(*                                                                         *)
(* A message is its author, its text and whether it carries an image.  The *)
(* text of an answer is the text of the question the service answered, so  *)
(* that a misplaced answer can be told from a right one.                   *)
(***************************************************************************)
EXTENDS Integers, Sequences, SequencesExt

CONSTANTS
  Questions,            \* ordinary texts
  ImageQuestion,        \* "What is this image about?", one of them
  TemperatureCommands,  \* "Test Leo. Change temp to <0..2>"
  OutOfRangeCommands,   \* the same with another number
  MalformedCommands,    \* the same with no number
  OtherCaseCommands,    \* commands with a number, in another letter case
  Blank,                \* the empty input field
  NoQuestion,           \* no question in flight
  NoChat,               \* the screen shows no stored chat
  ChatIds,              \* bound: the chats that can be stored
  FreeRequests, LiteRequests,   \* questions a day without and with lite
  MaxCount,             \* bound: the question counter saturates here
  ReviewAfter,          \* answers until the review prompt
  MaxMessages           \* bound: messages of a conversation

LocalCommands == TemperatureCommands \cup OutOfRangeCommands
Commands == LocalCommands \cup MalformedCommands
Texts == Questions \cup Commands

ASSUME TextsAssumption ==
  /\ ImageQuestion \in Questions
  /\ Questions \cap Commands = {}
  /\ LocalCommands \cap MalformedCommands = {}
  /\ TemperatureCommands \cap OutOfRangeCommands = {}
  /\ OtherCaseCommands \subseteq LocalCommands
  /\ Blank \notin Texts /\ NoQuestion \notin Texts
ASSUME ChatsAssumption == NoChat \notin ChatIds
ASSUME LimitsAssumption ==
  /\ FreeRequests \in Nat /\ LiteRequests \in Nat
  /\ MaxCount \in Nat /\ FreeRequests < MaxCount /\ LiteRequests < MaxCount
  /\ ReviewAfter \in Nat /\ MaxMessages \in Nat

Message == [isMy : BOOLEAN, text : Texts, image : BOOLEAN]
Question(t, i) == [isMy |-> TRUE, text |-> t, image |-> i]
Answer(t) == [isMy |-> FALSE, text |-> t, image |-> FALSE]

VARIABLES
  open,             \* the chat screen is shown, its view model alive
  chat,             \* the stored chat it shows, or NoChat
  showDeleteChatButton,
  messages,         \* the conversation
  text, image,      \* the draft: input field, image picked or not
  isLoading,        \* a question is in flight
  pending,          \* the text the service will answer, or NoQuestion
  isAnswerError,    \* the last question failed; Try Again is shown
  isTyping,         \* the last answer is being typed (typingMessageId # nil)
  temperature,      \* LocalStorage.temperature is set
  alert,            \* the alert shown
  showBuyPro, showNoConnection,   \* the full-screen covers
  wasSendAction, wasTryAgainAction,  \* ...BeforeNavigationToPaywall
  isSoundOff, speaking,           \* narration
  access,           \* what activeSubscription grants
  everSubscribed,   \* history: access was not always free
  accessQuestionsCount,     \* questions counted since the last reset
  questionsCountForReview,  \* answers since the last review prompt
  store             \* Core Data: chat -> its messages, <<>> when there is none

draft == <<text, image>>
request == <<isLoading, pending, isAnswerError, isTyping>>
screen == <<open, chat, showDeleteChatButton>>
covers == <<alert, showBuyPro, showNoConnection>>
replay == <<wasSendAction, wasTryAgainAction>>
sound == <<isSoundOff, speaking>>
plan == <<access, everSubscribed>>
counters == <<accessQuestionsCount, questionsCountForReview>>
vars == <<screen, messages, draft, request, temperature, covers, replay, sound,
          plan, counters, store>>

TypeOK ==
  /\ open \in BOOLEAN
  /\ chat \in ChatIds \cup {NoChat}
  /\ showDeleteChatButton \in BOOLEAN
  /\ messages \in Seq(Message)
  /\ text \in Texts \cup {Blank}
  /\ image \in BOOLEAN
  /\ isLoading \in BOOLEAN
  /\ pending \in Texts \cup {NoQuestion}
  /\ isAnswerError \in BOOLEAN
  /\ isTyping \in BOOLEAN
  /\ temperature \in BOOLEAN
  /\ alert \in {"none", "upgrade", "deleteChat"}
  /\ showBuyPro \in BOOLEAN
  /\ showNoConnection \in BOOLEAN
  /\ wasSendAction \in BOOLEAN
  /\ wasTryAgainAction \in BOOLEAN
  /\ isSoundOff \in BOOLEAN
  /\ speaking \in BOOLEAN
  /\ access \in {"free", "lite", "unlimited"}
  /\ everSubscribed \in BOOLEAN
  /\ accessQuestionsCount \in 0 .. MaxCount
  /\ questionsCountForReview \in 0 .. ReviewAfter
  /\ store \in [ChatIds -> Seq(Message)]

(* A view model that is not there: what a new one starts from.             *)
Init ==
  /\ open = FALSE
  /\ chat = NoChat
  /\ showDeleteChatButton = FALSE
  /\ messages = <<>>
  /\ text = Blank /\ image = FALSE
  /\ isLoading = FALSE /\ pending = NoQuestion
  /\ isAnswerError = FALSE /\ isTyping = FALSE
  /\ temperature = FALSE
  /\ alert = "none" /\ showBuyPro = FALSE /\ showNoConnection = FALSE
  /\ wasSendAction = FALSE /\ wasTryAgainAction = FALSE
  /\ isSoundOff \in BOOLEAN /\ speaking = FALSE
  /\ access \in {"free", "lite", "unlimited"}
  /\ everSubscribed = (access # "free")
  /\ accessQuestionsCount = 0
  /\ questionsCountForReview = 0
  /\ store = [c \in ChatIds |-> <<>>]

-----------------------------------------------------------------------------
(* Opening and leaving the screen.                                         *)

(* Nothing covers the screen: the user can reach its controls.             *)
Interactive == open /\ alert = "none" /\ ~showBuyPro /\ ~showNoConnection

(* Mutant: the temperature is not reset.                                   *)
OpenChatKeepsTemperature(c) ==
  /\ ~open
  /\ IF c = NoChat THEN \E free \in ChatIds : store[free] = <<>>
                   ELSE store[c] # <<>>
  /\ open' = TRUE
  /\ chat' = c
  /\ showDeleteChatButton' = (c # NoChat)
  /\ messages' = IF c = NoChat THEN <<>> ELSE store[c]
  /\ UNCHANGED <<draft, request, temperature, covers, replay, sound, plan,
                 counters, store>>

(* AskQuestionViewModel.init, for a new chat or one of the history.        *)
OpenChat(c) ==
  /\ ~open
  /\ IF c = NoChat THEN \E free \in ChatIds : store[free] = <<>>
                   ELSE store[c] # <<>>
  /\ open' = TRUE
  /\ chat' = c
  /\ showDeleteChatButton' = (c # NoChat)
  /\ messages' = IF c = NoChat THEN <<>> ELSE store[c]
  /\ temperature' = FALSE
  /\ UNCHANGED <<draft, request, covers, replay, sound, plan, counters, store>>

(* The view model goes away; a response still in flight finds it gone.     *)
Discard ==
  /\ open' = FALSE
  /\ chat' = NoChat
  /\ showDeleteChatButton' = FALSE
  /\ messages' = <<>>
  /\ text' = Blank /\ image' = FALSE
  /\ isLoading' = FALSE /\ pending' = NoQuestion
  /\ isAnswerError' = FALSE /\ isTyping' = FALSE
  /\ alert' = "none" /\ showBuyPro' = FALSE /\ showNoConnection' = FALSE
  /\ wasSendAction' = FALSE /\ wasTryAgainAction' = FALSE
  /\ speaking' = FALSE

(* Mutant: a trailing question is saved too.                               *)
KeptAll(m) == m

(* What saveChat keeps of a conversation: a trailing question is dropped.  *)
Kept(m) == IF m # <<>> /\ Last(m).isMy THEN Front(m) ELSE m

(* saveChat under the id c: the screen's chat, or a fresh one.  With no    *)
(* question to keep, a stored chat is deleted.                             *)
SaveChat(c) ==
  IF \E i \in DOMAIN Kept(messages) : Kept(messages)[i].isMy
  THEN /\ c \in ChatIds
       /\ c = chat \/ (chat = NoChat /\ store[c] = <<>>)
       /\ store' = [store EXCEPT ![c] = Kept(messages)]
  ELSE /\ c = chat
       /\ store' = [d \in ChatIds |-> IF d = chat THEN <<>> ELSE store[d]]

(* onDisappear: the narration stops and the chat is saved.                 *)
Leave ==
  /\ \E c \in ChatIds \cup {NoChat} : SaveChat(c)
  /\ Discard
  /\ UNCHANGED <<temperature, isSoundOff, plan, counters>>

(* The back button waits for an answer in flight; the swipe does not.      *)
BackTapped == Interactive /\ ~isLoading /\ Leave
SwipeBack == Interactive /\ Leave

(* UIScene.didEnterBackgroundNotification.                                 *)
EnterBackground ==
  /\ open
  /\ \E c \in ChatIds \cup {NoChat} : SaveChat(c) /\ chat' = c
  /\ UNCHANGED <<open, showDeleteChatButton, messages, draft, request,
                 temperature, covers, replay, sound, plan, counters>>

(* onDeleteChatAction deletes the chat and leaves, so that onDisappear     *)
(* saves into a deleted Core Data object: it may stay deleted or come back.*)
DeleteChat ==
  /\ alert = "deleteChat"
  /\ \E kept \in {<<>>, Kept(messages)} : store' = [store EXCEPT ![chat] = kept]
  /\ Discard
  /\ UNCHANGED <<temperature, isSoundOff, plan, counters>>

(* The process dies; the counters and the history are on disk.  So is the  *)
(* subscription, whose end is looked at only when it is loaded.            *)
Kill ==
  /\ Discard
  /\ temperature' = FALSE
  /\ access' \in {access, "free"}
  /\ UNCHANGED <<isSoundOff, everSubscribed, counters, store>>

-----------------------------------------------------------------------------
(* The draft.                                                              *)

(* Typing, or tapping a sample question.                                   *)
EditText(t) ==
  /\ Interactive
  /\ text' = t
  /\ UNCHANGED <<screen, messages, image, request, temperature, covers, replay,
                 sound, plan, counters, store>>

(* An image picked from the gallery, the camera, a file or Google Drive.   *)
(* A Google Drive download may end after its sheet was swiped away: at any *)
(* time.                                                                   *)
PickImage ==
  /\ open
  /\ image' = TRUE
  /\ text' = IF text = Blank THEN ImageQuestion ELSE text
  /\ UNCHANGED <<screen, messages, request, temperature, covers, replay, sound,
                 plan, counters, store>>

RemoveImage ==
  /\ Interactive /\ image
  /\ image' = FALSE
  /\ text' = Blank
  /\ UNCHANGED <<screen, messages, request, temperature, covers, replay, sound,
                 plan, counters, store>>

-----------------------------------------------------------------------------
(* Asking.                                                                 *)

(* getAccessQuestionsCount: the first read of a new day resets the counter *)
(* of a limited plan; midnight may have passed before any read.            *)
CountsRead ==
  IF access = "unlimited" THEN {accessQuestionsCount} ELSE {accessQuestionsCount, 0}

(* Mutants of isSendMessageLocked: off by one, and a limit for every plan. *)
IsSendMessageLockedLate(n) ==
  \/ access = "free" /\ n > FreeRequests
  \/ access = "lite" /\ n > LiteRequests

IsSendMessageLockedAlways(n) == n >= FreeRequests

IsSendMessageLocked(n) ==
  \/ access = "free" /\ n >= FreeRequests
  \/ access = "lite" /\ n >= LiteRequests

(* _sendText leaves the temperature commands and their answers out.  Its   *)
(* test is case-sensitive and onSendAction's is not, so a command in other *)
(* letters is sent (and a malformed one is an ordinary question).          *)
Sent(m) ==
  {i \in DOMAIN m : IF m[i].isMy THEN m[i].text \notin Commands \ OtherCaseCommands
                                 ELSE m[i].text \notin LocalCommands}

(* The question goes out.  The service answers the last message it gets;   *)
(* with nothing to send, or an image that has no PNG, it fails at once.    *)
Post(m, t, i) ==
  LET conversation == Append(m, Question(t, i))
      sent == Sent(conversation)
  IN
  /\ messages' = conversation
  /\ text' = Blank /\ image' = FALSE
  /\ \/ /\ isLoading' = TRUE
        /\ isAnswerError' = FALSE
        /\ \/ i /\ pending' = t
           \/ ~i /\ \E k \in sent : /\ \A j \in sent : j <= k
                                   /\ pending' = conversation[k].text
     \/ /\ i \/ sent = {}
        /\ isLoading' = FALSE
        /\ isAnswerError' = TRUE
        /\ pending' = NoQuestion

(* onSendAction on the conversation m, the draft t and i and the error flag*)
(* err, when the counter reads n.  It returns early while it is busy; a    *)
(* temperature command is answered on the spot, before the limit is looked *)
(* at; a draft over the limit, or a blank one, stays where it is.          *)
OnSendAction(m, t, i, err, n) ==
  IF err \/ isTyping \/ isLoading
  THEN /\ messages' = m /\ text' = t /\ image' = i
       /\ isAnswerError' = err
       /\ UNCHANGED <<isLoading, pending, temperature, accessQuestionsCount>>
  ELSE
  /\ Len(m) + 2 <= MaxMessages
  /\ \/ /\ t \in LocalCommands
        /\ messages' = m \o <<Question(t, FALSE), Answer(t)>>
        /\ text' = Blank /\ image' = i
        /\ temperature' = (temperature \/ t \in TemperatureCommands)
        /\ isAnswerError' = err
        /\ UNCHANGED <<isLoading, pending, accessQuestionsCount>>
     \/ /\ t \notin LocalCommands
        /\ IsSendMessageLocked(n) \/ t = Blank
        /\ messages' = m /\ text' = t /\ image' = i
        /\ isAnswerError' = err
        /\ accessQuestionsCount' = n
        /\ UNCHANGED <<isLoading, pending, temperature>>
     \/ /\ t \notin LocalCommands
        /\ ~IsSendMessageLocked(n) /\ t # Blank
        /\ Post(m, t, i)
        /\ accessQuestionsCount' = n
        /\ UNCHANGED temperature

(* onSendAction stops at the limit and shows the paywall.                  *)
SendHitsLimit(n) ==
  /\ ~isAnswerError /\ ~isTyping /\ ~isLoading
  /\ text \notin LocalCommands
  /\ IsSendMessageLocked(n)

Send(n) ==
  /\ OnSendAction(messages, text, image, isAnswerError, n)
  /\ wasSendAction' = (wasSendAction \/ SendHitsLimit(n))
  /\ showBuyPro' = (showBuyPro \/ SendHitsLimit(n))

SendTapped ==
  /\ Interactive
  /\ \/ /\ \E n \in CountsRead : Send(n)
        /\ UNCHANGED showNoConnection
     \/ /\ showNoConnection' = TRUE
        /\ UNCHANGED <<messages, draft, isLoading, pending, isAnswerError,
                       temperature, wasSendAction, showBuyPro,
                       accessQuestionsCount>>
  /\ UNCHANGED <<screen, isTyping, alert, wasTryAgainAction, sound, plan,
                 questionsCountForReview, store>>

(* NoConnectionView: sends if the network is back, and closes either way.  *)
NoConnectionTryAgain ==
  /\ showNoConnection
  /\ showNoConnection' = FALSE
  /\ \/ \E n \in CountsRead : Send(n)
     \/ UNCHANGED <<messages, draft, isLoading, pending, isAnswerError,
                    temperature, wasSendAction, showBuyPro, accessQuestionsCount>>
  /\ UNCHANGED <<screen, isTyping, alert, wasTryAgainAction, sound, plan,
                 questionsCountForReview, store>>

(* Mutants of onTryAgainAction: the error flag is not cleared, so that the *)
(* send returns early; the question is not removed, so that it is doubled. *)
OnTryAgainActionKeepsError(n) ==
  IF IsSendMessageLocked(n)
  THEN UNCHANGED <<messages, draft, isLoading, pending, isAnswerError,
                   temperature, accessQuestionsCount>>
  ELSE OnSendAction(Front(messages), Last(messages).text, Last(messages).image,
                    isAnswerError, n)

OnTryAgainActionKeepsQuestion(n) ==
  IF IsSendMessageLocked(n)
  THEN UNCHANGED <<messages, draft, isLoading, pending, isAnswerError,
                   temperature, accessQuestionsCount>>
  ELSE OnSendAction(messages, Last(messages).text, Last(messages).image, FALSE, n)

(* onTryAgainAction takes the failed question back into the draft and      *)
(* sends it again.                                                         *)
OnTryAgainAction(n) ==
  IF messages = <<>> \/ ~Last(messages).isMy
  THEN UNCHANGED <<messages, draft, isLoading, pending, isAnswerError,
                   temperature, accessQuestionsCount>>
  ELSE IF IsSendMessageLocked(n)
  THEN /\ accessQuestionsCount' = n
       /\ UNCHANGED <<messages, draft, isLoading, pending, isAnswerError,
                      temperature>>
  ELSE OnSendAction(Front(messages), Last(messages).text, Last(messages).image,
                    FALSE, n)

TryAgainTapped ==
  /\ Interactive /\ isAnswerError
  /\ \E n \in CountsRead :
       LET hitsLimit == /\ messages # <<>> /\ Last(messages).isMy
                        /\ IsSendMessageLocked(n)
       IN  /\ OnTryAgainAction(n)
           /\ wasTryAgainAction' = (wasTryAgainAction \/ hitsLimit)
           /\ showBuyPro' = (showBuyPro \/ hitsLimit)
  /\ UNCHANGED <<screen, isTyping, alert, showNoConnection, wasSendAction, sound,
                 plan, questionsCountForReview, store>>

-----------------------------------------------------------------------------
(* The answer.                                                             *)

(* handleSendTextResponse with a result: counted, shown, typed and read    *)
(* out.                                                                    *)
AnswerArrives ==
  /\ isLoading
  /\ isLoading' = FALSE
  /\ pending' = NoQuestion
  /\ questionsCountForReview' = IF questionsCountForReview < ReviewAfter
                                THEN questionsCountForReview + 1
                                ELSE questionsCountForReview
  /\ accessQuestionsCount' = IF accessQuestionsCount < MaxCount
                             THEN accessQuestionsCount + 1
                             ELSE accessQuestionsCount
  /\ messages' = Append(messages, Answer(pending))
  /\ isTyping' = TRUE
  /\ speaking' = (speaking \/ ~isSoundOff)
  /\ UNCHANGED <<screen, draft, isAnswerError, temperature, covers, replay,
                 isSoundOff, plan, store>>

(* Mutant: the failure leaves the loading flag on.                         *)
AnswerFailsKeepsLoading ==
  /\ isLoading
  /\ isAnswerError' = TRUE
  /\ UNCHANGED <<screen, messages, draft, isLoading, pending, isTyping,
                 temperature, covers, replay, sound, plan, counters, store>>

(* handleSendTextResponse with nil.                                        *)
AnswerFails ==
  /\ isLoading
  /\ isLoading' = FALSE
  /\ pending' = NoQuestion
  /\ isAnswerError' = TRUE
  /\ UNCHANGED <<screen, messages, draft, isTyping, temperature, covers, replay,
                 sound, plan, counters, store>>

FinishTyping ==
  /\ isTyping
  /\ isTyping' = FALSE
  /\ UNCHANGED <<screen, messages, draft, isLoading, pending, isAnswerError,
                 temperature, covers, replay, sound, plan, counters, store>>

(* Mutant: muting lets the current utterance go on.                        *)
ToggleSoundKeepsSpeaking ==
  /\ Interactive
  /\ isSoundOff' = ~isSoundOff
  /\ UNCHANGED <<screen, messages, draft, request, temperature, covers, replay,
                 speaking, plan, counters, store>>

(* onToggleIsSoundOff: off silences; on resumes an answer being typed if   *)
(* some of it remains.                                                     *)
ToggleSound ==
  /\ Interactive
  /\ isSoundOff' = ~isSoundOff
  /\ \/ ~isSoundOff /\ speaking' = FALSE
     \/ isSoundOff /\ UNCHANGED speaking
     \/ isSoundOff /\ isTyping /\ speaking' = TRUE
  /\ UNCHANGED <<screen, messages, draft, request, temperature, covers, replay,
                 plan, counters, store>>

(* VoiceView, in the settings: the next chat starts with this setting.     *)
SetSound ==
  /\ ~open
  /\ isSoundOff' = ~isSoundOff
  /\ UNCHANGED <<screen, messages, draft, request, temperature, covers, replay,
                 speaking, plan, counters, store>>

NarrationEnds ==
  /\ speaking
  /\ speaking' = FALSE
  /\ UNCHANGED <<screen, messages, draft, request, temperature, covers, replay,
                 isSoundOff, plan, counters, store>>

-----------------------------------------------------------------------------
(* Alerts, paywall, subscription, and the rest of the app.                 *)

(* The badge of a new chat (upgrade), the trash of a stored one (delete).  *)
ShowAlert(a) ==
  /\ Interactive
  /\ \/ a = "upgrade" /\ chat = NoChat /\ access = "free"
     \/ a = "deleteChat" /\ showDeleteChatButton
  /\ alert' = a
  /\ UNCHANGED <<screen, messages, draft, request, temperature, showBuyPro,
                 showNoConnection, replay, sound, plan, counters, store>>

(* The alert's other buttons: cancel, or upgrade to the paywall.           *)
DismissAlert ==
  /\ alert # "none"
  /\ alert' = "none"
  /\ \/ UNCHANGED showBuyPro
     \/ alert = "upgrade" /\ showBuyPro' = TRUE
  /\ UNCHANGED <<screen, messages, draft, request, temperature, showNoConnection,
                 replay, sound, plan, counters, store>>

(* A purchase that verifies: an advanced plan (a stored pro plan can still *)
(* be traded for it), and the counter starts over.  Home and Settings have *)
(* a paywall too.                                                          *)
Purchase ==
  /\ open => showBuyPro
  /\ access' = "unlimited"
  /\ everSubscribed' = TRUE
  /\ accessQuestionsCount' = 0
  /\ UNCHANGED <<screen, messages, draft, request, temperature, covers, replay,
                 sound, questionsCountForReview, store>>

(* verifyPurchases, after any transaction: the receipt holds an advanced   *)
(* plan, or none, or could not be verified.                                *)
VerifyPurchases ==
  /\ access' \in {"free", "unlimited"}
  /\ everSubscribed' = (everSubscribed \/ access' # "free")
  /\ UNCHANGED <<screen, messages, draft, request, temperature, covers, replay,
                 sound, counters, store>>

(* Mutant: only the stopped send is forgotten.                             *)
ForgetReplaySendOnly == wasSendAction' = FALSE /\ UNCHANGED wasTryAgainAction

(* The end of onPaywallDoneAction.                                         *)
ForgetReplay == wasSendAction' = FALSE /\ wasTryAgainAction' = FALSE

(* onPaywallDoneAction, then the paywall closes: what the limit stopped is *)
(* done now if the user has subscribed.                                    *)
PaywallDone ==
  /\ showBuyPro
  /\ \/ /\ access # "free" /\ wasTryAgainAction
        /\ \E n \in CountsRead : OnTryAgainAction(n)
     \/ /\ access # "free" /\ ~wasTryAgainAction /\ wasSendAction
        /\ \E n \in CountsRead :
             OnSendAction(messages, text, image, isAnswerError, n)
     \/ /\ access = "free" \/ (~wasTryAgainAction /\ ~wasSendAction)
        /\ UNCHANGED <<messages, draft, isLoading, pending, isAnswerError,
                       temperature, accessQuestionsCount>>
  /\ showBuyPro' = FALSE
  /\ ForgetReplay
  /\ UNCHANGED <<screen, isTyping, alert, showNoConnection, sound, plan,
                 questionsCountForReview, store>>

(* QuestionCountInfoView renders what is left of the free package, which   *)
(* reads the counter and so may reset it.                                  *)
RenderCount ==
  /\ access = "free"
  /\ accessQuestionsCount' \in CountsRead
  /\ UNCHANGED <<screen, messages, draft, request, temperature, covers, replay,
                 sound, plan, questionsCountForReview, store>>

(* handleActivePhase: the review prompt.                                   *)
HandleActivePhase ==
  /\ questionsCountForReview >= ReviewAfter
  /\ questionsCountForReview' = 0
  /\ UNCHANGED <<screen, messages, draft, request, temperature, covers, replay,
                 sound, plan, accessQuestionsCount, store>>

Next ==
  \/ \E c \in ChatIds \cup {NoChat} : OpenChat(c)
  \/ BackTapped
  \/ SwipeBack
  \/ EnterBackground
  \/ DeleteChat
  \/ Kill
  \/ \E t \in Texts \cup {Blank} : EditText(t)
  \/ PickImage
  \/ RemoveImage
  \/ SendTapped
  \/ NoConnectionTryAgain
  \/ TryAgainTapped
  \/ AnswerArrives
  \/ AnswerFails
  \/ FinishTyping
  \/ ToggleSound
  \/ SetSound
  \/ NarrationEnds
  \/ \E a \in {"upgrade", "deleteChat"} : ShowAlert(a)
  \/ DismissAlert
  \/ Purchase
  \/ VerifyPurchases
  \/ PaywallDone
  \/ RenderCount
  \/ HandleActivePhase

Spec == Init /\ [][Next]_vars

-----------------------------------------------------------------------------
(* A conversation as the user reads it: questions and answers take turns,  *)
(* starting with a question, and an answer answers the question above it.  *)
(* (A malformed temperature command is not sent to the service, which then *)
(* answers an earlier message.)                                            *)
Transcript(m) ==
  /\ m # <<>> => m[1].isMy
  /\ \A k \in 1 .. Len(m) - 1 :
       /\ m[k].isMy <=> ~m[k + 1].isMy
       /\ m[k].isMy /\ m[k].text \notin MalformedCommands
            => m[k + 1].text = m[k].text

(* The conversation on the screen is a transcript, whatever the order of   *)
(* sends, failures, retries, paywall replays and background saves: the     *)
(* response handler appends blindly and onTryAgainAction removes blindly.  *)
ConversationInTurns == Transcript(messages)

(* The view model does one thing at a time, and the end of the             *)
(* conversation shows which: loading and error mean an unanswered question,*)
(* typing means an answer.  onSendAction's guard is the only lock.         *)
EndsInQuestion(m) == m # <<>> /\ Last(m).isMy
OneActivity ==
  /\ ~(isTyping /\ (isLoading \/ isAnswerError))
  /\ ~(isLoading /\ isAnswerError)
  /\ isLoading <=> pending # NoQuestion
  /\ EndsInQuestion(messages) <=> isLoading \/ isAnswerError
  /\ isTyping => messages # <<>>

(* Nothing the user has seen disappears while the screen stays: Try Again  *)
(* and the paywall replay remove the last question, but in the same step   *)
(* it is back.                                                             *)
KeepsConversation == [][open /\ open' => IsPrefix(messages, messages')]_vars

(* Without a subscription the answers counted, and the question in flight, *)
(* never exceed the free package, across retries, midnights and restarts.  *)
FreeQuota ==
  ~everSubscribed =>
    accessQuestionsCount + (IF isLoading THEN 1 ELSE 0) <= FreeRequests

(* While the paywall is up for a stopped send or retry, that send or retry *)
(* is still possible, and only one of them is remembered.                  *)
ReplayValid ==
  /\ wasSendAction => showBuyPro /\ ~isLoading /\ ~isTyping /\ ~isAnswerError
  /\ wasTryAgainAction => showBuyPro /\ isAnswerError
  /\ ~(wasSendAction /\ wasTryAgainAction)

(* A question the limit stopped is asked when the user comes back from the *)
(* paywall with an unlimited plan.                                         *)
ReplayNotLost ==
  [][ LET stopped == \/ wasTryAgainAction /\ Last(messages).text \in Questions
                                          /\ ~Last(messages).image
                     \/ wasSendAction /\ text \in Questions /\ ~image
      IN  showBuyPro /\ ~showBuyPro' /\ open' /\ access = "unlimited" /\ stopped
            => isLoading' ]_vars

(* The history holds finished transcripts only, so that an opened chat is  *)
(* never stuck on a question that nobody is answering.                     *)
HistoryComplete ==
  \A c \in ChatIds : Transcript(store[c]) /\ ~EndsInQuestion(store[c])

(* Nothing is read out with the sound off or the screen gone.              *)
Silence == speaking => open /\ ~isSoundOff

(* A temperature set in one chat is not used in another.                   *)
TemperatureIsLocal ==
  open /\ temperature =>
    \E k \in DOMAIN messages : messages[k].text \in TemperatureCommands
=============================================================================
