-------------------------- MODULE ChatSessionProofs --------------------------
(***************************************************************************)
(* The chat screen for any texts, any number of chats and any limits: its  *)
(* types and its free package, then the conversation, the screen, the      *)
(* history and the temperature, and what a step may never do.              *)
(***************************************************************************)
EXTENDS ChatSession, SequenceTheorems, TLAPS

(* TypeOK in two halves: the provers are at their best with the Boolean    *)
(* variables kept apart from the others.                                   *)
Flags ==
  /\ open \in BOOLEAN
  /\ showDeleteChatButton \in BOOLEAN
  /\ image \in BOOLEAN
  /\ isLoading \in BOOLEAN
  /\ isAnswerError \in BOOLEAN
  /\ isTyping \in BOOLEAN
  /\ temperature \in BOOLEAN
  /\ showBuyPro \in BOOLEAN
  /\ showNoConnection \in BOOLEAN
  /\ wasSendAction \in BOOLEAN
  /\ wasTryAgainAction \in BOOLEAN
  /\ isSoundOff \in BOOLEAN
  /\ speaking \in BOOLEAN
  /\ everSubscribed \in BOOLEAN

Data ==
  /\ chat \in ChatIds \cup {NoChat}
  /\ messages \in Seq(Message)
  /\ text \in Texts \cup {Blank}
  /\ pending \in Texts \cup {NoQuestion}
  /\ alert \in {"none", "upgrade", "deleteChat"}
  /\ access \in {"free", "lite", "unlimited"}
  /\ accessQuestionsCount \in 0 .. MaxCount
  /\ questionsCountForReview \in 0 .. ReviewAfter
  /\ store \in [ChatIds -> Seq(Message)]

(* TypeOK is its two halves.                                               *)
LEMMA Halves == TypeOK <=> Flags /\ Data
BY DEF TypeOK, Flags, Data

(* The halves after a step make up TypeOK after it.                        *)
LEMMA HalvesNext == Flags' /\ Data' => TypeOK'
BY DEF TypeOK, Flags, Data

USE DEF screen, draft, request, covers, replay, sound, plan, counters

(* A pair is a sequence.                                                   *)
LEMMA PairTyped ==
  ASSUME NEW S, NEW a \in S, NEW b \in S
  PROVE  <<a, b>> \in Seq(S)
OBVIOUS

(* Questions and answers are messages.                                     *)
LEMMA MessagesTyped ==
  ASSUME NEW t \in Texts, NEW i \in BOOLEAN
  PROVE  Question(t, i) \in Message /\ Answer(t) \in Message
BY DEF Question, Answer, Message

(* The parts of a message.                                                 *)
LEMMA PartsTyped ==
  ASSUME NEW m \in Message
  PROVE  m.text \in Texts /\ m.image \in BOOLEAN /\ m.isMy \in BOOLEAN
BY DEF Message

(* Front and Last of a conversation that is not empty.                     *)
LEMMA FrontLast ==
  ASSUME NEW S, NEW m \in Seq(S), m # <<>>
  PROVE  /\ Front(m) \in Seq(S) /\ Last(m) \in S
         /\ Len(m) \in Nat /\ Len(m) >= 1
         /\ Len(Front(m)) = Len(m) - 1
         /\ \A k \in 1 .. Len(m) - 1 : Front(m)[k] = m[k]
         /\ Last(m) = m[Len(m)]
<1>1. Len(m) \in Nat /\ Len(m) >= 1
  BY EmptySeq
<1>2. Last(m) = m[Len(m)] /\ Last(m) \in S
  BY <1>1, ElementOfSeq DEF Last
<1>3. Front(m) = SubSeq(m, 1, Len(m) - 1)
  BY DEF Front
<1>4. /\ Front(m) \in Seq(S) /\ Len(Front(m)) = Len(m) - 1
      /\ \A k \in 1 .. Len(m) - 1 : Front(m)[k] = m[k]
  <2>1. \A k \in 1 .. Len(m) - 1 : m[k] \in S
    BY <1>1, ElementOfSeq
  <2>2. 1 \in Int /\ Len(m) - 1 \in Int
    BY <1>1
  <2>3. /\ SubSeq(m, 1, Len(m) - 1) \in Seq(S)
        /\ Len(SubSeq(m, 1, Len(m) - 1)) = IF 1 <= Len(m) - 1 THEN (Len(m) - 1) - 1 + 1 ELSE 0
        /\ \A k \in 1 .. (Len(m) - 1) - 1 + 1 : SubSeq(m, 1, Len(m) - 1)[k] = m[1 + k - 1]
    BY <2>1, <2>2, SubSeqProperties
  <2>4. Len(SubSeq(m, 1, Len(m) - 1)) = Len(m) - 1
    <3> DEFINE n == Len(m) - 1
               L == Len(SubSeq(m, 1, n))
    <3>1. n \in Nat
      BY <1>1
    <3>2. L = IF 1 <= n THEN n - 1 + 1 ELSE 0
      BY <2>3, Zenon
    <3> HIDE DEF n, L
    <3>3. L = n
      BY <3>1, <3>2
    <3> QED
      BY <3>3 DEF n, L
  <2>5. ASSUME NEW k \in 1 .. Len(m) - 1
        PROVE  SubSeq(m, 1, Len(m) - 1)[k] = m[k]
    <3>1. k \in 1 .. (Len(m) - 1) - 1 + 1 /\ 1 + k - 1 = k
      BY <1>1
    <3>2. SubSeq(m, 1, Len(m) - 1)[k] = m[1 + k - 1]
      BY <2>3, <3>1
    <3> QED
      BY <3>1, <3>2
  <2> QED
    BY <1>3, <2>3, <2>4, <2>5, Zenon
<1> QED
  BY <1>1, <1>2, <1>4

(* What saveChat keeps is a conversation.                                  *)
LEMMA KeptTyped ==
  ASSUME NEW m \in Seq(Message)
  PROVE  Kept(m) \in Seq(Message)
BY FrontLast DEF Kept

(* saveChat stores a conversation.                                         *)
LEMMA SaveChatTyped ==
  ASSUME TypeOK, NEW c \in ChatIds \cup {NoChat}, SaveChat(c)
  PROVE  store' \in [ChatIds -> Seq(Message)]
<1>1. Kept(messages) \in Seq(Message) /\ store \in [ChatIds -> Seq(Message)]
  BY KeptTyped DEF TypeOK
<1>2. <<>> \in Seq(Message)
  OBVIOUS
<1> QED
  BY <1>1, <1>2 DEF SaveChat

(* A view model that is gone has its initial flags.                        *)
LEMMA DiscardTyped ==
  ASSUME Discard
  PROVE  /\ open' \in BOOLEAN /\ showDeleteChatButton' \in BOOLEAN /\ image' \in BOOLEAN
         /\ isLoading' \in BOOLEAN /\ isAnswerError' \in BOOLEAN /\ isTyping' \in BOOLEAN
         /\ showBuyPro' \in BOOLEAN /\ showNoConnection' \in BOOLEAN
         /\ wasSendAction' \in BOOLEAN /\ wasTryAgainAction' \in BOOLEAN
         /\ speaking' \in BOOLEAN
BY Zenon DEF Discard

(* Leave keeps the types.                                                  *)
LEMMA LeaveTyped ==
  ASSUME TypeOK, Leave
  PROVE  TypeOK'
<1>0. Flags /\ Data
  BY Halves
<1>1. store' \in [ChatIds -> Seq(Message)]
  BY SaveChatTyped DEF Leave
<1>2. Discard /\ UNCHANGED <<temperature, isSoundOff, plan, counters>>
  BY DEF Leave
<1>3. Flags'
  BY <1>0, <1>2, DiscardTyped, SMT DEF Flags
<1>4. Data'
  BY <1>0, <1>1, <1>2, SMT DEF Data, Discard
<1> QED
  BY <1>3, <1>4, HalvesNext

(* EnterBackground keeps the types.                                        *)
LEMMA EnterBackgroundTyped ==
  ASSUME TypeOK, EnterBackground
  PROVE  TypeOK'
<1>0. Flags /\ Data
  BY Halves
<1>1. store' \in [ChatIds -> Seq(Message)] /\ chat' \in ChatIds \cup {NoChat}
  BY SaveChatTyped DEF EnterBackground
<1>2. Flags'
  <2>1. UNCHANGED <<open, showDeleteChatButton, messages, draft, request,
                    temperature, covers, replay, sound, plan, counters>>
    BY DEF EnterBackground
  <2> QED
    BY <1>0, <2>1 DEF Flags
<1>3. Data'
  BY <1>0, <1>1, SMT DEF Data, EnterBackground
<1> QED
  BY <1>2, <1>3, HalvesNext

(* DeleteChat keeps the types.                                             *)
LEMMA DeleteChatTyped ==
  ASSUME TypeOK, DeleteChat
  PROVE  TypeOK'
<1>0. Flags /\ Data
  BY Halves
<1>1. store' \in [ChatIds -> Seq(Message)]
  <2>1. PICK kept \in {<<>>, Kept(messages)} : store' = [store EXCEPT ![chat] = kept]
    BY DEF DeleteChat
  <2>2. kept \in Seq(Message)
    <3>1. <<>> \in Seq(Message)
      OBVIOUS
    <3> QED
      BY <3>1, KeptTyped DEF TypeOK
  <2> QED
    BY <2>1, <2>2 DEF TypeOK
<1>2. Discard /\ UNCHANGED <<temperature, isSoundOff, plan, counters>>
  BY DEF DeleteChat
<1>3. Flags'
  BY <1>0, <1>2, DiscardTyped, SMT DEF Flags
<1>4. Data'
  BY <1>0, <1>1, <1>2, SMT DEF Data, Discard
<1> QED
  BY <1>3, <1>4, HalvesNext

(* Kill keeps the types.                                                   *)
LEMMA KillTyped ==
  ASSUME TypeOK, Kill
  PROVE  TypeOK'
<1>0. Flags /\ Data
  BY Halves
<1>1. Discard /\ UNCHANGED <<isSoundOff, everSubscribed, counters, store>>
  BY DEF Kill
<1>2. temperature' \in BOOLEAN
  BY DEF Kill
<1>3. access' \in {"free", "lite", "unlimited"}
  BY DEF Kill, TypeOK
<1>4. Flags'
  BY <1>0, <1>1, <1>2, DiscardTyped, SMT DEF Flags
<1>5. Data'
  BY <1>0, <1>1, <1>3, SMT DEF Data, Discard
<1> QED
  BY <1>4, <1>5, HalvesNext

(* Post appends a question; what the service will answer is the text of a  *)
(* message.                                                                *)
LEMMA PostTyped ==
  ASSUME NEW m \in Seq(Message), NEW t \in Texts, NEW i \in BOOLEAN, Post(m, t, i)
  PROVE  /\ messages' \in Seq(Message) /\ text' \in Texts \cup {Blank}
         /\ pending' \in Texts \cup {NoQuestion}
         /\ image' \in BOOLEAN /\ isLoading' \in BOOLEAN /\ isAnswerError' \in BOOLEAN
<1> DEFINE conversation == Append(m, Question(t, i))
<1>1. conversation \in Seq(Message)
  BY MessagesTyped
<1>2. messages' = conversation /\ text' = Blank
  BY DEF Post
<1>3. pending' \in Texts \cup {NoQuestion}
  <2>1. ASSUME NEW k \in Sent(conversation)
        PROVE  conversation[k].text \in Texts
    <3>1. k \in 1 .. Len(conversation)
      BY <1>1 DEF Sent
    <3>2. conversation[k] \in Message
      BY <1>1, <3>1, ElementOfSeq
    <3> QED
      BY <3>2, PartsTyped
  <2>2. \/ pending' = t
        \/ \E k \in Sent(conversation) : pending' = conversation[k].text
        \/ pending' = NoQuestion
    BY Zenon DEF Post
  <2> QED
    BY <2>1, <2>2, Zenon
<1>4. image' \in BOOLEAN /\ isLoading' \in BOOLEAN /\ isAnswerError' \in BOOLEAN
  BY Zenon DEF Post
<1> QED
  BY <1>1, <1>2, <1>3, <1>4

(* onSendAction keeps the types of all it assigns.                         *)
LEMMA OnSendActionTyped ==
  ASSUME TypeOK, NEW m \in Seq(Message), NEW t \in Texts \cup {Blank},
         NEW i \in BOOLEAN, NEW err \in BOOLEAN, NEW n \in 0 .. MaxCount,
         OnSendAction(m, t, i, err, n)
  PROVE  /\ messages' \in Seq(Message) /\ text' \in Texts \cup {Blank}
         /\ pending' \in Texts \cup {NoQuestion}
         /\ image' \in BOOLEAN /\ isLoading' \in BOOLEAN /\ isAnswerError' \in BOOLEAN
         /\ temperature' \in BOOLEAN
         /\ accessQuestionsCount' \in 0 .. MaxCount
<1>0. /\ pending \in Texts \cup {NoQuestion} /\ isLoading \in BOOLEAN
      /\ temperature \in BOOLEAN /\ accessQuestionsCount \in 0 .. MaxCount
  BY DEF TypeOK
<1>1. CASE err \/ isTyping \/ isLoading
  BY <1>0, <1>1, Zenon DEF OnSendAction
<1>2. CASE ~(err \/ isTyping \/ isLoading) /\ t \in LocalCommands
  <2>1. /\ messages' = m \o <<Question(t, FALSE), Answer(t)>>
        /\ text' = Blank /\ image' = i
        /\ temperature' = (temperature \/ t \in TemperatureCommands)
        /\ isAnswerError' = err
        /\ UNCHANGED <<isLoading, pending, accessQuestionsCount>>
    BY <1>2, Zenon DEF OnSendAction
  <2>2. t \in Texts
    BY <1>2 DEF Texts, Commands
  <2>3. Question(t, FALSE) \in Message /\ Answer(t) \in Message
    BY <2>2, MessagesTyped
  <2>4. messages' \in Seq(Message)
    <3>1. messages' = m \o <<Question(t, FALSE), Answer(t)>>
      BY <2>1, Zenon
    <3>2. <<Question(t, FALSE), Answer(t)>> \in Seq(Message)
      BY <2>3, PairTyped
    <3> QED
      BY <3>1, <3>2, ConcatProperties
  <2>5. temperature' \in BOOLEAN
    <3>1. temperature' = (temperature \/ t \in TemperatureCommands)
      BY <2>1
    <3> QED
      BY <3>1, Zenon
  <2> QED
    BY <1>0, <2>1, <2>4, <2>5, Zenon
<1>3. CASE /\ ~(err \/ isTyping \/ isLoading) /\ t \notin LocalCommands
           /\ IsSendMessageLocked(n) \/ t = Blank
  BY <1>0, <1>3, Zenon DEF OnSendAction
<1>4. CASE /\ ~(err \/ isTyping \/ isLoading) /\ t \notin LocalCommands
           /\ ~IsSendMessageLocked(n) /\ t # Blank
  <2>1. Post(m, t, i) /\ accessQuestionsCount' = n /\ UNCHANGED temperature
    BY <1>4, Zenon DEF OnSendAction
  <2>2. t \in Texts
    BY <1>4
  <2> QED
    BY <1>0, <2>1, <2>2, PostTyped, Zenon
<1> QED
  BY <1>1, <1>2, <1>3, <1>4, Zenon

(* A read of the counter is within its bound.                              *)
LEMMA CountsReadTyped ==
  ASSUME TypeOK
  PROVE  CountsRead \subseteq 0 .. MaxCount
BY LimitsAssumption DEF TypeOK, CountsRead

(* So does onTryAgainAction, whose draft is the last message.              *)
LEMMA OnTryAgainActionTyped ==
  ASSUME TypeOK, NEW n \in 0 .. MaxCount, OnTryAgainAction(n)
  PROVE  /\ messages' \in Seq(Message) /\ text' \in Texts \cup {Blank}
         /\ pending' \in Texts \cup {NoQuestion}
         /\ image' \in BOOLEAN /\ isLoading' \in BOOLEAN /\ isAnswerError' \in BOOLEAN
         /\ temperature' \in BOOLEAN
         /\ accessQuestionsCount' \in 0 .. MaxCount
<1>0. /\ messages \in Seq(Message) /\ text \in Texts \cup {Blank} /\ image \in BOOLEAN
      /\ pending \in Texts \cup {NoQuestion} /\ isLoading \in BOOLEAN
      /\ isAnswerError \in BOOLEAN
      /\ temperature \in BOOLEAN /\ accessQuestionsCount \in 0 .. MaxCount
  BY DEF TypeOK
<1>1. CASE messages = <<>> \/ ~Last(messages).isMy
  BY <1>0, <1>1, Zenon DEF OnTryAgainAction
<1>2. CASE ~(messages = <<>> \/ ~Last(messages).isMy) /\ IsSendMessageLocked(n)
  BY <1>0, <1>2, Zenon DEF OnTryAgainAction
<1>3. CASE ~(messages = <<>> \/ ~Last(messages).isMy) /\ ~IsSendMessageLocked(n)
  <2>1. OnSendAction(Front(messages), Last(messages).text, Last(messages).image, FALSE, n)
    BY <1>3, Zenon DEF OnTryAgainAction
  <2>2. Front(messages) \in Seq(Message) /\ Last(messages) \in Message
    BY <1>0, <1>3, FrontLast
  <2>3. Last(messages).text \in Texts \cup {Blank} /\ Last(messages).image \in BOOLEAN
    BY <2>2, PartsTyped
  <2>4. FALSE \in BOOLEAN
    OBVIOUS
  <2> QED
    BY <2>1, <2>2, <2>3, <2>4, OnSendActionTyped, Zenon
<1> QED
  BY <1>1, <1>2, <1>3, Zenon

(* OpenChat keeps the types.                                               *)
LEMMA OpenChatTyped ==
  ASSUME TypeOK, NEW c \in ChatIds \cup {NoChat}, OpenChat(c)
  PROVE  TypeOK'
<1>0. Flags /\ Data
  BY Halves
<1>1. open' \in BOOLEAN /\ showDeleteChatButton' \in BOOLEAN /\ temperature' \in BOOLEAN
  BY Zenon DEF OpenChat
<1>2. UNCHANGED <<draft, request, covers, replay, sound, plan, counters, store>>
  BY Zenon DEF OpenChat
<1>8. Flags'
  BY <1>0, <1>1, <1>2, SMT DEF Flags
<1>9. Data'
  BY <1>0, SMT DEF Data, OpenChat
<1> QED
  BY <1>8, <1>9, HalvesNext

(* EditText keeps the types.                                               *)
LEMMA EditTextTyped ==
  ASSUME TypeOK, NEW t \in Texts \cup {Blank}, EditText(t)
  PROVE  TypeOK'
<1>0. Flags /\ Data
  BY Halves
<1>8. Flags'
  BY <1>0, SMT DEF Flags, EditText
<1>9. Data'
  BY <1>0, SMT DEF Data, EditText
<1> QED
  BY <1>8, <1>9, HalvesNext

(* PickImage keeps the types.                                              *)
LEMMA PickImageTyped ==
  ASSUME TypeOK, PickImage
  PROVE  TypeOK'
<1>0. Flags /\ Data
  BY Halves
<1>1. image' \in BOOLEAN
  BY Zenon DEF PickImage
<1>2. UNCHANGED <<screen, messages, request, temperature, covers, replay, sound,
                  plan, counters, store>>
  BY Zenon DEF PickImage
<1>8. Flags'
  BY <1>0, <1>1, <1>2, SMT DEF Flags
<1>9. Data'
  BY <1>0, TextsAssumption, SMT DEF Data, PickImage, Texts
<1> QED
  BY <1>8, <1>9, HalvesNext

(* RemoveImage keeps the types.                                            *)
LEMMA RemoveImageTyped ==
  ASSUME TypeOK, RemoveImage
  PROVE  TypeOK'
<1>0. Flags /\ Data
  BY Halves
<1>1. image' \in BOOLEAN
  BY Zenon DEF RemoveImage
<1>2. UNCHANGED <<screen, messages, request, temperature, covers, replay, sound,
                  plan, counters, store>>
  BY Zenon DEF RemoveImage
<1>8. Flags'
  BY <1>0, <1>1, <1>2, SMT DEF Flags
<1>9. Data'
  BY <1>0, SMT DEF Data, RemoveImage
<1> QED
  BY <1>8, <1>9, HalvesNext

(* Send: onSendAction and the paywall at the limit.                        *)
LEMMA SendTyped ==
  ASSUME TypeOK, NEW n \in CountsRead, Send(n)
  PROVE  /\ messages' \in Seq(Message) /\ text' \in Texts \cup {Blank}
         /\ pending' \in Texts \cup {NoQuestion}
         /\ image' \in BOOLEAN /\ isLoading' \in BOOLEAN /\ isAnswerError' \in BOOLEAN
         /\ temperature' \in BOOLEAN
         /\ accessQuestionsCount' \in 0 .. MaxCount
         /\ wasSendAction' \in BOOLEAN /\ showBuyPro' \in BOOLEAN
<1>1. /\ messages \in Seq(Message) /\ text \in Texts \cup {Blank}
      /\ image \in BOOLEAN /\ isAnswerError \in BOOLEAN
  BY DEF TypeOK
<1>2. n \in 0 .. MaxCount
  BY CountsReadTyped
<1>3. OnSendAction(messages, text, image, isAnswerError, n)
  BY DEF Send
<1>4. wasSendAction' \in BOOLEAN /\ showBuyPro' \in BOOLEAN
  BY Zenon DEF Send
<1> QED
  BY <1>1, <1>2, <1>3, <1>4, OnSendActionTyped, Zenon

(* SendTapped keeps the types.                                             *)
LEMMA SendTappedTyped ==
  ASSUME TypeOK, SendTapped
  PROVE  TypeOK'
<1>0. Flags /\ Data
  BY Halves
<1>1. /\ messages' \in Seq(Message) /\ text' \in Texts \cup {Blank}
      /\ pending' \in Texts \cup {NoQuestion}
      /\ image' \in BOOLEAN /\ isLoading' \in BOOLEAN /\ isAnswerError' \in BOOLEAN
      /\ temperature' \in BOOLEAN
      /\ accessQuestionsCount' \in 0 .. MaxCount
      /\ wasSendAction' \in BOOLEAN /\ showBuyPro' \in BOOLEAN
  <2>1. CASE \E n \in CountsRead : Send(n)
    BY <2>1, SendTyped, Zenon
  <2>2. CASE UNCHANGED <<messages, draft, isLoading, pending, isAnswerError,
                         temperature, wasSendAction, showBuyPro, accessQuestionsCount>>
    BY <1>0, <2>2 DEF Flags, Data
  <2> QED
    BY <2>1, <2>2, Zenon DEF SendTapped
<1>2. showNoConnection' \in BOOLEAN
  BY <1>0, Zenon DEF SendTapped, Flags
<1>3. UNCHANGED <<screen, isTyping, alert, wasTryAgainAction, sound, plan,
                  questionsCountForReview, store>>
  BY Zenon DEF SendTapped
<1>8. Flags'
  BY <1>0, <1>1, <1>2, <1>3, SMT DEF Flags
<1>9. Data'
  BY <1>0, <1>1, <1>3, Zenon DEF Data
<1> QED
  BY <1>8, <1>9, HalvesNext

(* NoConnectionTryAgain keeps the types.                                   *)
LEMMA NoConnectionTryAgainTyped ==
  ASSUME TypeOK, NoConnectionTryAgain
  PROVE  TypeOK'
<1>0. Flags /\ Data
  BY Halves
<1>1. /\ messages' \in Seq(Message) /\ text' \in Texts \cup {Blank}
      /\ pending' \in Texts \cup {NoQuestion}
      /\ image' \in BOOLEAN /\ isLoading' \in BOOLEAN /\ isAnswerError' \in BOOLEAN
      /\ temperature' \in BOOLEAN
      /\ accessQuestionsCount' \in 0 .. MaxCount
      /\ wasSendAction' \in BOOLEAN /\ showBuyPro' \in BOOLEAN
  <2>1. CASE \E n \in CountsRead : Send(n)
    BY <2>1, SendTyped, Zenon
  <2>2. CASE UNCHANGED <<messages, draft, isLoading, pending, isAnswerError,
                         temperature, wasSendAction, showBuyPro, accessQuestionsCount>>
    BY <1>0, <2>2 DEF Flags, Data
  <2> QED
    BY <2>1, <2>2, Zenon DEF NoConnectionTryAgain
<1>2. showNoConnection' \in BOOLEAN
  BY <1>0, Zenon DEF NoConnectionTryAgain, Flags
<1>3. UNCHANGED <<screen, isTyping, alert, wasTryAgainAction, sound, plan,
                  questionsCountForReview, store>>
  BY Zenon DEF NoConnectionTryAgain
<1>8. Flags'
  BY <1>0, <1>1, <1>2, <1>3, SMT DEF Flags
<1>9. Data'
  BY <1>0, <1>1, <1>3, Zenon DEF Data
<1> QED
  BY <1>8, <1>9, HalvesNext

(* TryAgainTapped keeps the types.                                         *)
LEMMA TryAgainTappedTyped ==
  ASSUME TypeOK, TryAgainTapped
  PROVE  TypeOK'
<1>0. Flags /\ Data
  BY Halves
<1>1. PICK n \in CountsRead :
        /\ OnTryAgainAction(n)
        /\ wasTryAgainAction' = (wasTryAgainAction \/ (/\ messages # <<>> /\ Last(messages).isMy
                                                      /\ IsSendMessageLocked(n)))
        /\ showBuyPro' = (showBuyPro \/ (/\ messages # <<>> /\ Last(messages).isMy
                                        /\ IsSendMessageLocked(n)))
  BY Zenon DEF TryAgainTapped
<1>2. /\ messages' \in Seq(Message) /\ text' \in Texts \cup {Blank}
      /\ pending' \in Texts \cup {NoQuestion}
      /\ image' \in BOOLEAN /\ isLoading' \in BOOLEAN /\ isAnswerError' \in BOOLEAN
      /\ temperature' \in BOOLEAN
      /\ accessQuestionsCount' \in 0 .. MaxCount
  BY <1>1, CountsReadTyped, OnTryAgainActionTyped, Zenon
<1>3. wasTryAgainAction' \in BOOLEAN /\ showBuyPro' \in BOOLEAN
  BY <1>1, Zenon
<1>4. UNCHANGED <<screen, isTyping, alert, showNoConnection, wasSendAction, sound,
                  plan, questionsCountForReview, store>>
  BY Zenon DEF TryAgainTapped
<1>8. Flags'
  BY <1>0, <1>2, <1>3, <1>4, SMT DEF Flags
<1>9. Data'
  BY <1>0, <1>2, <1>4, Zenon DEF Data
<1> QED
  BY <1>8, <1>9, HalvesNext

(* PaywallDone keeps the types.                                            *)
LEMMA PaywallDoneTyped ==
  ASSUME TypeOK, PaywallDone
  PROVE  TypeOK'
<1>0. Flags /\ Data
  BY Halves
<1>2. /\ messages' \in Seq(Message) /\ text' \in Texts \cup {Blank}
      /\ pending' \in Texts \cup {NoQuestion}
      /\ image' \in BOOLEAN /\ isLoading' \in BOOLEAN /\ isAnswerError' \in BOOLEAN
      /\ temperature' \in BOOLEAN
      /\ accessQuestionsCount' \in 0 .. MaxCount
  <2>1. CASE \E n \in CountsRead : OnTryAgainAction(n)
    BY <2>1, CountsReadTyped, OnTryAgainActionTyped, Zenon
  <2>2. CASE \E n \in CountsRead : OnSendAction(messages, text, image, isAnswerError, n)
    <3>1. /\ messages \in Seq(Message) /\ text \in Texts \cup {Blank}
          /\ image \in BOOLEAN /\ isAnswerError \in BOOLEAN
      BY <1>0 DEF Flags, Data
    <3> QED
      BY <2>2, <3>1, CountsReadTyped, OnSendActionTyped, Zenon
  <2>3. CASE UNCHANGED <<messages, draft, isLoading, pending, isAnswerError,
                         temperature, accessQuestionsCount>>
    BY <1>0, <2>3 DEF Flags, Data
  <2> QED
    BY <2>1, <2>2, <2>3, Zenon DEF PaywallDone
<1>3. /\ showBuyPro' \in BOOLEAN /\ wasSendAction' \in BOOLEAN
      /\ wasTryAgainAction' \in BOOLEAN
  BY Zenon DEF PaywallDone, ForgetReplay
<1>4. UNCHANGED <<screen, isTyping, alert, showNoConnection, sound, plan,
                  questionsCountForReview, store>>
  BY Zenon DEF PaywallDone
<1>8. Flags'
  BY <1>0, <1>2, <1>3, <1>4, SMT DEF Flags
<1>9. Data'
  BY <1>0, <1>2, <1>4, Zenon DEF Data
<1> QED
  BY <1>8, <1>9, HalvesNext

(* An answer needs a question in flight to be well typed.                  *)
LEMMA AnswerArrivesTyped ==
  ASSUME TypeOK, isLoading => pending # NoQuestion, AnswerArrives
  PROVE  TypeOK'
<1>0. Flags /\ Data
  BY Halves
<1>1. pending \in Texts
  BY <1>0 DEF AnswerArrives, Data
<1>2. messages' \in Seq(Message)
  <2>1. Answer(pending) \in Message
    BY <1>1, MessagesTyped, TRUE \in BOOLEAN
  <2>2. messages \in Seq(Message)
    BY <1>0, Zenon DEF Data
  <2>3. messages' = Append(messages, Answer(pending))
    BY Zenon DEF AnswerArrives
  <2> QED
    BY <2>1, <2>2, <2>3, AppendProperties
<1>3. accessQuestionsCount' \in 0 .. MaxCount
  BY <1>0, LimitsAssumption DEF AnswerArrives, Data
<1>4. questionsCountForReview' \in 0 .. ReviewAfter
  BY <1>0, LimitsAssumption DEF AnswerArrives, Data
<1>5. speaking' \in BOOLEAN /\ isLoading' \in BOOLEAN /\ isTyping' \in BOOLEAN
  BY Zenon DEF AnswerArrives
<1>6. pending' = NoQuestion
  BY DEF AnswerArrives
<1>7. UNCHANGED <<screen, draft, isAnswerError, temperature, covers, replay,
                  isSoundOff, plan, store>>
  BY Zenon DEF AnswerArrives
<1>8. Flags'
  BY <1>0, <1>5, <1>7, SMT DEF Flags
<1>9. Data'
  BY <1>0, <1>2, <1>3, <1>4, <1>6, <1>7, Zenon DEF Data
<1> QED
  BY <1>8, <1>9, HalvesNext

(* AnswerFails keeps the types.                                            *)
LEMMA AnswerFailsTyped ==
  ASSUME TypeOK, AnswerFails
  PROVE  TypeOK'
<1>0. Flags /\ Data
  BY Halves
<1>1. isLoading' \in BOOLEAN /\ isAnswerError' \in BOOLEAN
  BY Zenon DEF AnswerFails
<1>2. UNCHANGED <<screen, messages, draft, isTyping, temperature, covers, replay,
                  sound, plan, counters, store>>
  BY Zenon DEF AnswerFails
<1>8. Flags'
  BY <1>0, <1>1, <1>2, SMT DEF Flags
<1>9. Data'
  BY <1>0, SMT DEF Data, AnswerFails
<1> QED
  BY <1>8, <1>9, HalvesNext

(* FinishTyping keeps the types.                                           *)
LEMMA FinishTypingTyped ==
  ASSUME TypeOK, FinishTyping
  PROVE  TypeOK'
<1>0. Flags /\ Data
  BY Halves
<1>1. isTyping' \in BOOLEAN
  BY Zenon DEF FinishTyping
<1>2. UNCHANGED <<screen, messages, draft, isLoading, pending, isAnswerError,
                  temperature, covers, replay, sound, plan, counters, store>>
  BY Zenon DEF FinishTyping
<1>8. Flags'
  BY <1>0, <1>1, <1>2, SMT DEF Flags
<1>9. Data'
  BY <1>0, SMT DEF Data, FinishTyping
<1> QED
  BY <1>8, <1>9, HalvesNext

(* ToggleSound keeps the types.                                            *)
LEMMA ToggleSoundTyped ==
  ASSUME TypeOK, ToggleSound
  PROVE  TypeOK'
<1>0. Flags /\ Data
  BY Halves
<1>1. isSoundOff' \in BOOLEAN /\ speaking' \in BOOLEAN
  BY <1>0, Zenon DEF ToggleSound, Flags
<1>2. UNCHANGED <<screen, messages, draft, request, temperature, covers, replay,
                  plan, counters, store>>
  BY Zenon DEF ToggleSound
<1>8. Flags'
  BY <1>0, <1>1, <1>2, SMT DEF Flags
<1>9. Data'
  BY <1>0, <1>2, SMT DEF Data
<1> QED
  BY <1>8, <1>9, HalvesNext

(* SetSound keeps the types.                                               *)
LEMMA SetSoundTyped ==
  ASSUME TypeOK, SetSound
  PROVE  TypeOK'
<1>0. Flags /\ Data
  BY Halves
<1>1. isSoundOff' \in BOOLEAN
  BY Zenon DEF SetSound
<1>2. UNCHANGED <<screen, messages, draft, request, temperature, covers, replay,
                  speaking, plan, counters, store>>
  BY Zenon DEF SetSound
<1>8. Flags'
  BY <1>0, <1>1, <1>2, SMT DEF Flags
<1>9. Data'
  BY <1>0, SMT DEF Data, SetSound
<1> QED
  BY <1>8, <1>9, HalvesNext

(* NarrationEnds keeps the types.                                          *)
LEMMA NarrationEndsTyped ==
  ASSUME TypeOK, NarrationEnds
  PROVE  TypeOK'
<1>0. Flags /\ Data
  BY Halves
<1>1. speaking' \in BOOLEAN
  BY Zenon DEF NarrationEnds
<1>2. UNCHANGED <<screen, messages, draft, request, temperature, covers, replay,
                  isSoundOff, plan, counters, store>>
  BY Zenon DEF NarrationEnds
<1>8. Flags'
  BY <1>0, <1>1, <1>2, SMT DEF Flags
<1>9. Data'
  BY <1>0, SMT DEF Data, NarrationEnds
<1> QED
  BY <1>8, <1>9, HalvesNext

(* ShowAlert keeps the types.                                              *)
LEMMA ShowAlertTyped ==
  ASSUME TypeOK, NEW a \in {"upgrade", "deleteChat"}, ShowAlert(a)
  PROVE  TypeOK'
<1>0. Flags /\ Data
  BY Halves
<1>1. UNCHANGED <<screen, messages, draft, request, temperature, showBuyPro,
                  showNoConnection, replay, sound, plan, counters, store>>
  BY Zenon DEF ShowAlert
<1>8. Flags'
  BY <1>0, <1>1, SMT DEF Flags
<1>9. Data'
  BY <1>0, SMT DEF Data, ShowAlert
<1> QED
  BY <1>8, <1>9, HalvesNext

(* DismissAlert keeps the types.                                           *)
LEMMA DismissAlertTyped ==
  ASSUME TypeOK, DismissAlert
  PROVE  TypeOK'
<1>0. Flags /\ Data
  BY Halves
<1>1. UNCHANGED <<screen, messages, draft, request, temperature, showNoConnection,
                  replay, sound, plan, counters, store>>
  BY Zenon DEF DismissAlert
<1>2. showBuyPro' \in BOOLEAN
  BY <1>0, Zenon DEF DismissAlert, Flags
<1>8. Flags'
  BY <1>0, <1>1, <1>2, SMT DEF Flags
<1>9. Data'
  BY <1>0, SMT DEF Data, DismissAlert
<1> QED
  BY <1>8, <1>9, HalvesNext

(* Purchase keeps the types.                                               *)
LEMMA PurchaseTyped ==
  ASSUME TypeOK, Purchase
  PROVE  TypeOK'
<1>0. Flags /\ Data
  BY Halves
<1>1. everSubscribed' \in BOOLEAN
  BY Zenon DEF Purchase
<1>2. UNCHANGED <<screen, messages, draft, request, temperature, covers, replay,
                  sound, questionsCountForReview, store>>
  BY Zenon DEF Purchase
<1>8. Flags'
  BY <1>0, <1>1, <1>2, SMT DEF Flags
<1>9. Data'
  BY <1>0, LimitsAssumption, SMT DEF Data, Purchase
<1> QED
  BY <1>8, <1>9, HalvesNext

(* VerifyPurchases keeps the types.                                        *)
LEMMA VerifyPurchasesTyped ==
  ASSUME TypeOK, VerifyPurchases
  PROVE  TypeOK'
<1>0. Flags /\ Data
  BY Halves
<1>1. UNCHANGED <<screen, messages, draft, request, temperature, covers, replay,
                  sound, counters, store>>
  BY Zenon DEF VerifyPurchases
<1>2. everSubscribed' \in BOOLEAN
  BY Zenon DEF VerifyPurchases
<1>8. Flags'
  BY <1>0, <1>1, <1>2, SMT DEF Flags
<1>9. Data'
  BY <1>0, SMT DEF Data, VerifyPurchases
<1> QED
  BY <1>8, <1>9, HalvesNext

(* RenderCount keeps the types.                                            *)
LEMMA RenderCountTyped ==
  ASSUME TypeOK, RenderCount
  PROVE  TypeOK'
<1>0. Flags /\ Data
  BY Halves
<1>1. UNCHANGED <<screen, messages, draft, request, temperature, covers, replay,
                  sound, plan, questionsCountForReview, store>>
  BY Zenon DEF RenderCount
<1>2. accessQuestionsCount' \in 0 .. MaxCount
  BY CountsReadTyped DEF RenderCount
<1>8. Flags'
  BY <1>0, <1>1, SMT DEF Flags
<1>9. Data'
  BY <1>0, <1>1, <1>2, SMT DEF Data
<1> QED
  BY <1>8, <1>9, HalvesNext

(* HandleActivePhase keeps the types.                                      *)
LEMMA HandleActivePhaseTyped ==
  ASSUME TypeOK, HandleActivePhase
  PROVE  TypeOK'
<1>0. Flags /\ Data
  BY Halves
<1>1. UNCHANGED <<screen, messages, draft, request, temperature, covers, replay,
                  sound, plan, accessQuestionsCount, store>>
  BY Zenon DEF HandleActivePhase
<1>8. Flags'
  BY <1>0, <1>1, SMT DEF Flags
<1>9. Data'
  BY <1>0, LimitsAssumption, SMT DEF Data, HandleActivePhase
<1> QED
  BY <1>8, <1>9, HalvesNext

-----------------------------------------------------------------------------
(* The free package.                                                       *)

(* What FreeQuota needs besides the types: a question in flight is a known *)
(* text, and a user who never subscribed is on the free plan.              *)
Waiting == isLoading => pending # NoQuestion
FreePlan == ~everSubscribed => access = "free"
Package == Waiting /\ FreePlan /\ FreeQuota

(* What a send or a retry may do to the question in flight and the counter *)
(* when the counter reads n: a new question is in flight only if n is below*)
(* the limit, and then n is what the counter holds.                        *)
Asked(n) ==
  /\ accessQuestionsCount' \in {accessQuestionsCount, n}
  /\ \/ UNCHANGED <<isLoading, pending>>
     \/ isLoading' = FALSE
     \/ /\ isLoading' = TRUE /\ pending' # NoQuestion
        /\ ~IsSendMessageLocked(n) /\ accessQuestionsCount' = n

(* Post either fails at once or waits for an answer to a known text.       *)
LEMMA PostAsks ==
  ASSUME NEW m \in Seq(Message), NEW t \in Texts, NEW i \in BOOLEAN, Post(m, t, i)
  PROVE  isLoading' = FALSE \/ (isLoading' = TRUE /\ pending' # NoQuestion)
<1> DEFINE conversation == Append(m, Question(t, i))
<1>1. conversation \in Seq(Message)
  BY MessagesTyped
<1>2. ASSUME NEW k \in Sent(conversation)
      PROVE  conversation[k].text \in Texts
  <2>1. k \in 1 .. Len(conversation)
    BY <1>1 DEF Sent
  <2>2. conversation[k] \in Message
    BY <1>1, <2>1, ElementOfSeq
  <2> QED
    BY <2>2, PartsTyped
<1>3. \/ isLoading' = FALSE
      \/ isLoading' = TRUE /\ pending' = t
      \/ isLoading' = TRUE /\ \E k \in Sent(conversation) : pending' = conversation[k].text
  BY Zenon DEF Post
<1>4. NoQuestion \notin Texts
  BY TextsAssumption, Zenon
<1> QED
  BY <1>2, <1>3, <1>4, Zenon

(* onSendAction asks within the limit.                                     *)
LEMMA OnSendActionAsks ==
  ASSUME NEW m \in Seq(Message), NEW t \in Texts \cup {Blank},
         NEW i \in BOOLEAN, NEW err \in BOOLEAN, NEW n,
         OnSendAction(m, t, i, err, n)
  PROVE  Asked(n)
<1>1. CASE UNCHANGED <<isLoading, pending>> /\ accessQuestionsCount' \in {accessQuestionsCount, n}
  BY <1>1, Zenon DEF Asked
<1>2. CASE /\ ~IsSendMessageLocked(n) /\ t # Blank
           /\ Post(m, t, i) /\ accessQuestionsCount' = n
  <2>1. t \in Texts
    BY <1>2
  <2>2. isLoading' = FALSE \/ (isLoading' = TRUE /\ pending' # NoQuestion)
    BY <1>2, <2>1, PostAsks, Zenon
  <2> QED
    BY <1>2, <2>2, Zenon DEF Asked
<1> QED
  BY <1>1, <1>2, Zenon DEF OnSendAction

(* So does onTryAgainAction.                                               *)
LEMMA OnTryAgainActionAsks ==
  ASSUME TypeOK, NEW n, OnTryAgainAction(n)
  PROVE  Asked(n)
<1>1. messages \in Seq(Message)
  BY DEF TypeOK
<1>2. CASE UNCHANGED <<isLoading, pending>> /\ accessQuestionsCount' \in {accessQuestionsCount, n}
  BY <1>2, Zenon DEF Asked
<1>3. CASE /\ ~(messages = <<>> \/ ~Last(messages).isMy)
           /\ OnSendAction(Front(messages), Last(messages).text, Last(messages).image, FALSE, n)
  <2>1. Front(messages) \in Seq(Message) /\ Last(messages) \in Message
    BY <1>1, <1>3, FrontLast
  <2>2. Last(messages).text \in Texts \cup {Blank} /\ Last(messages).image \in BOOLEAN
    BY <2>1, PartsTyped
  <2>3. FALSE \in BOOLEAN
    OBVIOUS
  <2> QED
    BY <1>3, <2>1, <2>2, <2>3, OnSendActionAsks, Zenon
<1> QED
  BY <1>2, <1>3, Zenon DEF OnTryAgainAction

(* Asking within the limit keeps the package.                              *)
LEMMA AskingKeepsPackage ==
  ASSUME TypeOK, Package, NEW n \in CountsRead, Asked(n), UNCHANGED plan
  PROVE  Package'
<1>1. /\ accessQuestionsCount \in Nat /\ n \in Nat /\ n <= accessQuestionsCount
      /\ isLoading \in BOOLEAN /\ everSubscribed \in BOOLEAN
  BY LimitsAssumption DEF TypeOK, CountsRead
<1>2. accessQuestionsCount' \in Nat /\ accessQuestionsCount' <= accessQuestionsCount
  BY <1>1 DEF Asked
<1>3. Waiting'
  BY Zenon DEF Package, Waiting, Asked
<1>4. FreePlan'
  BY Zenon DEF Package, FreePlan
<1>5. ASSUME ~everSubscribed
      PROVE  accessQuestionsCount' + (IF isLoading' THEN 1 ELSE 0) <= FreeRequests
  <2>1. access = "free" /\ accessQuestionsCount + (IF isLoading THEN 1 ELSE 0) <= FreeRequests
    BY <1>5 DEF Package, FreePlan, FreeQuota
  <2> DEFINE inFlight == IF isLoading THEN 1 ELSE 0
             inFlightNext == IF isLoading' THEN 1 ELSE 0
  <2>0. inFlight \in {0, 1}
    OBVIOUS
  <2>2. CASE isLoading' = isLoading \/ isLoading' = FALSE
    <3>1. inFlightNext = inFlight \/ inFlightNext = 0
      <4>1. CASE isLoading'
        <5>1. isLoading
          BY <2>2, <4>1, Zenon
        <5> QED
          BY <4>1, <5>1, Zenon
      <4>2. CASE ~isLoading'
        BY <4>2, Zenon
      <4> QED
        BY <4>1, <4>2
    <3>2. accessQuestionsCount + inFlight <= FreeRequests
      BY <2>1, Zenon
    <3> HIDE DEF inFlight, inFlightNext
    <3>3. accessQuestionsCount' + inFlightNext <= FreeRequests
      BY <1>1, <1>2, <2>0, <3>1, <3>2, LimitsAssumption
    <3> QED
      BY <3>3 DEF inFlightNext
  <2>4. CASE isLoading' = TRUE /\ ~IsSendMessageLocked(n) /\ accessQuestionsCount' = n
    BY <1>1, <2>1, <2>4, LimitsAssumption DEF IsSendMessageLocked
  <2> QED
    BY <2>2, <2>4, Zenon DEF Asked
<1>6. everSubscribed' = everSubscribed
  BY Zenon
<1>7. FreeQuota'
  BY <1>5, <1>6 DEF FreeQuota
<1> QED
  BY <1>3, <1>4, <1>7, Zenon DEF Package

(* A step that touches neither the question in flight, nor the counter, nor*)
(* the plan keeps the package.                                             *)
LEMMA QuietKeepsPackage ==
  ASSUME Package,
         UNCHANGED <<isLoading, pending, accessQuestionsCount, access, everSubscribed>>
  PROVE  Package'
BY Zenon DEF Package, Waiting, FreePlan, FreeQuota

(* An answer: the question that was in flight becomes a counted one.       *)
LEMMA AnswerArrivesKeepsPackage ==
  ASSUME TypeOK, Package, AnswerArrives
  PROVE  Package'
<1>1. accessQuestionsCount \in Nat /\ everSubscribed' = everSubscribed /\ access' = access
  BY LimitsAssumption DEF TypeOK, AnswerArrives
<1>2. isLoading /\ isLoading' = FALSE
  BY Zenon DEF AnswerArrives
<1>3. Waiting' /\ FreePlan'
  BY <1>1, <1>2, Zenon DEF Package, Waiting, FreePlan
<1>4. ASSUME ~everSubscribed
      PROVE  accessQuestionsCount' <= FreeRequests /\ accessQuestionsCount' \in Nat
  <2>1. accessQuestionsCount + 1 <= FreeRequests
    BY <1>2, <1>4, Zenon DEF Package, FreeQuota
  <2>2. accessQuestionsCount' = accessQuestionsCount + 1
    BY <1>1, <2>1, LimitsAssumption DEF AnswerArrives
  <2> QED
    BY <1>1, <2>1, <2>2
<1>5. FreeQuota'
  BY <1>1, <1>2, <1>4 DEF FreeQuota
<1> QED
  BY <1>3, <1>5, Zenon DEF Package

(* A step after which no question is in flight and the counter has not     *)
(* grown keeps the package, if a paid plan is remembered.                  *)
LEMMA EndingKeepsPackage ==
  ASSUME TypeOK, Package, isLoading' = FALSE,
         accessQuestionsCount' = accessQuestionsCount,
         ~everSubscribed' => ~everSubscribed /\ access' = "free"
  PROVE  Package'
<1>1. accessQuestionsCount \in Nat
  BY LimitsAssumption DEF TypeOK
<1>2. Waiting' /\ FreePlan'
  BY Zenon DEF Waiting, FreePlan
<1>3. ASSUME ~everSubscribed
      PROVE  accessQuestionsCount <= FreeRequests
  <2>1. CASE isLoading
    <3>1. accessQuestionsCount + 1 <= FreeRequests
      BY <1>3, <2>1, Zenon DEF Package, FreeQuota
    <3> QED
      BY <1>1, <3>1, LimitsAssumption
  <2>2. CASE ~isLoading
    <3>1. accessQuestionsCount + 0 <= FreeRequests
      BY <1>3, <2>2, Zenon DEF Package, FreeQuota
    <3> QED
      BY <1>1, <3>1, LimitsAssumption
  <2> QED
    BY <2>1, <2>2
<1>4. FreeQuota'
  BY <1>1, <1>3 DEF FreeQuota
<1> QED
  BY <1>2, <1>4, Zenon DEF Package

(* A step that changes the plan remembers that it did.                     *)
LEMMA PlanKeepsPackage ==
  ASSUME Package, UNCHANGED <<isLoading, pending>>,
         \/ everSubscribed'
         \/ /\ ~everSubscribed /\ access' = "free"
            /\ UNCHANGED accessQuestionsCount
  PROVE  Package'
BY Zenon DEF Package, Waiting, FreePlan, FreeQuota

-----------------------------------------------------------------------------
(* Every step, action by action.                                           *)

(* The inductive invariant holds at the start.                             *)
LEMMA InitInv == Init => TypeOK /\ Package
<1> SUFFICES ASSUME Init PROVE TypeOK /\ Package
  OBVIOUS
<1>1. Flags
  BY Zenon DEF Init, Flags
<1>2. Data
  <2>1. <<>> \in Seq(Message)
    OBVIOUS
  <2> QED
    BY <2>1, LimitsAssumption, SMT DEF Init, Data
<1>3. Waiting /\ FreePlan
  BY Zenon DEF Init, Waiting, FreePlan
<1>4. accessQuestionsCount = 0 /\ ~isLoading
  BY Zenon DEF Init
<1>5. FreeQuota
  BY <1>4, LimitsAssumption DEF FreeQuota
<1> QED
  BY <1>1, <1>2, <1>3, <1>5, Halves DEF Package

(* Every step keeps the types.                                             *)
LEMMA NextTyped ==
  ASSUME TypeOK, Waiting, [Next]_vars
  PROVE  TypeOK'
<1>1. ASSUME NEW c \in ChatIds \cup {NoChat}, OpenChat(c)
      PROVE  TypeOK'
  BY <1>1, OpenChatTyped
<1>2. CASE BackTapped \/ SwipeBack
  BY <1>2, LeaveTyped, Zenon DEF BackTapped, SwipeBack
<1>3. CASE EnterBackground
  BY <1>3, EnterBackgroundTyped
<1>4. CASE DeleteChat
  BY <1>4, DeleteChatTyped
<1>5. CASE Kill
  BY <1>5, KillTyped
<1>6. ASSUME NEW t \in Texts \cup {Blank}, EditText(t)
      PROVE  TypeOK'
  BY <1>6, EditTextTyped
<1>7. CASE PickImage
  BY <1>7, PickImageTyped
<1>8. CASE RemoveImage
  BY <1>8, RemoveImageTyped
<1>9. CASE SendTapped
  BY <1>9, SendTappedTyped
<1>10. CASE NoConnectionTryAgain
  BY <1>10, NoConnectionTryAgainTyped
<1>11. CASE TryAgainTapped
  BY <1>11, TryAgainTappedTyped
<1>12. CASE AnswerArrives
  BY <1>12, AnswerArrivesTyped, Zenon DEF Waiting
<1>13. CASE AnswerFails
  BY <1>13, AnswerFailsTyped
<1>14. CASE FinishTyping
  BY <1>14, FinishTypingTyped
<1>15. CASE ToggleSound
  BY <1>15, ToggleSoundTyped
<1>16. CASE SetSound
  BY <1>16, SetSoundTyped
<1>17. CASE NarrationEnds
  BY <1>17, NarrationEndsTyped
<1>18. ASSUME NEW a \in {"upgrade", "deleteChat"}, ShowAlert(a)
       PROVE  TypeOK'
  BY <1>18, ShowAlertTyped
<1>19. CASE DismissAlert
  BY <1>19, DismissAlertTyped
<1>20. CASE Purchase
  BY <1>20, PurchaseTyped
<1>21. CASE VerifyPurchases
  BY <1>21, VerifyPurchasesTyped
<1>22. CASE PaywallDone
  BY <1>22, PaywallDoneTyped
<1>23. CASE RenderCount
  BY <1>23, RenderCountTyped
<1>24. CASE HandleActivePhase
  BY <1>24, HandleActivePhaseTyped
<1>25. CASE UNCHANGED vars
  <2>0. Flags /\ Data
    BY Halves
  <2>1. UNCHANGED <<screen, messages, draft, request, temperature, covers, replay,
                    sound, plan, counters, store>>
    BY <1>25, Zenon DEF vars
  <2>2. Flags'
    BY <2>0, <2>1, SMT DEF Flags
  <2>3. Data'
    BY <2>0, <2>1, SMT DEF Data
  <2> QED
    BY <2>2, <2>3, HalvesNext
<1> QED
  BY <1>1, <1>2, <1>3, <1>4, <1>5, <1>6, <1>7, <1>8, <1>9, <1>10, <1>11, <1>12,
     <1>13, <1>14, <1>15, <1>16, <1>17, <1>18, <1>19, <1>20, <1>21, <1>22, <1>23,
     <1>24, <1>25, Zenon DEF Next

(* Every step keeps the package: sends, retries and replays by the limit,  *)
(* an answer by the place its question held, a purchase by being           *)
(* remembered; the others leave it alone.                                  *)
LEMMA NextPackage ==
  ASSUME TypeOK, Package, [Next]_vars
  PROVE  Package'
<1> DEFINE quiet == UNCHANGED <<isLoading, pending, accessQuestionsCount, access, everSubscribed>>
<1>1. CASE \/ \E c \in ChatIds \cup {NoChat} : OpenChat(c)
           \/ EnterBackground
           \/ \E t \in Texts \cup {Blank} : EditText(t)
           \/ PickImage \/ RemoveImage
  <2>1. quiet
    BY <1>1, Zenon DEF OpenChat, EnterBackground, EditText, PickImage, RemoveImage
  <2> QED
    BY <2>1, QuietKeepsPackage
<1>2. CASE \/ FinishTyping \/ ToggleSound \/ SetSound \/ NarrationEnds
           \/ \E a \in {"upgrade", "deleteChat"} : ShowAlert(a)
           \/ DismissAlert \/ HandleActivePhase
  <2>1. quiet
    BY <1>2, Zenon DEF FinishTyping, ToggleSound, SetSound, NarrationEnds, ShowAlert,
                       DismissAlert, HandleActivePhase
  <2> QED
    BY <2>1, QuietKeepsPackage
<1>3. CASE UNCHANGED vars
  <2>1. quiet
    BY <1>3, Zenon DEF vars
  <2> QED
    BY <2>1, QuietKeepsPackage
<1>4. CASE BackTapped \/ SwipeBack \/ DeleteChat \/ Kill \/ AnswerFails
  <2>1. isLoading' = FALSE /\ UNCHANGED <<accessQuestionsCount, everSubscribed>>
    BY <1>4, Zenon DEF BackTapped, SwipeBack, Leave, DeleteChat, Kill, AnswerFails, Discard
  <2>2. access' \in {access, "free"}
    BY <1>4, Zenon DEF BackTapped, SwipeBack, Leave, DeleteChat, Kill, AnswerFails, Discard
  <2>3. ~everSubscribed' => ~everSubscribed /\ access' = "free"
    BY <2>1, <2>2, Zenon DEF Package, FreePlan
  <2> QED
    BY <2>1, <2>3, EndingKeepsPackage, Zenon
<1>5. CASE SendTapped \/ NoConnectionTryAgain
  <2>1. UNCHANGED plan
    BY <1>5, Zenon DEF SendTapped, NoConnectionTryAgain
  <2>2. CASE \E n \in CountsRead : Send(n)
    <3>1. PICK n \in CountsRead : Send(n)
      BY <2>2
    <3>2. /\ messages \in Seq(Message) /\ text \in Texts \cup {Blank}
          /\ image \in BOOLEAN /\ isAnswerError \in BOOLEAN
      BY DEF TypeOK
    <3>3. OnSendAction(messages, text, image, isAnswerError, n)
      BY <3>1 DEF Send
    <3>4. Asked(n)
      BY <3>2, <3>3, OnSendActionAsks, Zenon
    <3> QED
      BY <2>1, <3>4, AskingKeepsPackage
  <2>3. CASE UNCHANGED <<messages, draft, isLoading, pending, isAnswerError,
                         temperature, wasSendAction, showBuyPro, accessQuestionsCount>>
    <3>1. quiet
      BY <2>1, <2>3, Zenon
    <3> QED
      BY <3>1, QuietKeepsPackage
  <2> QED
    BY <1>5, <2>2, <2>3, Zenon DEF SendTapped, NoConnectionTryAgain
<1>6. CASE TryAgainTapped
  <2>1. PICK n \in CountsRead : OnTryAgainAction(n)
    BY <1>6, Zenon DEF TryAgainTapped
  <2>2. UNCHANGED plan
    BY <1>6, Zenon DEF TryAgainTapped
  <2> QED
    BY <2>1, <2>2, OnTryAgainActionAsks, AskingKeepsPackage
<1>7. CASE PaywallDone
  <2>1. UNCHANGED plan
    BY <1>7, Zenon DEF PaywallDone
  <2>2. CASE \E n \in CountsRead : OnTryAgainAction(n)
    BY <2>1, <2>2, OnTryAgainActionAsks, AskingKeepsPackage
  <2>3. CASE \E n \in CountsRead : OnSendAction(messages, text, image, isAnswerError, n)
    <3>1. PICK n \in CountsRead : OnSendAction(messages, text, image, isAnswerError, n)
      BY <2>3
    <3>2. /\ messages \in Seq(Message) /\ text \in Texts \cup {Blank}
          /\ image \in BOOLEAN /\ isAnswerError \in BOOLEAN
      BY DEF TypeOK
    <3>3. Asked(n)
      BY <3>1, <3>2, OnSendActionAsks, Zenon
    <3> QED
      BY <2>1, <3>3, AskingKeepsPackage
  <2>4. CASE UNCHANGED <<messages, draft, isLoading, pending, isAnswerError,
                         temperature, accessQuestionsCount>>
    <3>1. quiet
      BY <2>1, <2>4, Zenon
    <3> QED
      BY <3>1, QuietKeepsPackage
  <2> QED
    BY <1>7, <2>2, <2>3, <2>4, Zenon DEF PaywallDone
<1>8. CASE AnswerArrives
  BY <1>8, AnswerArrivesKeepsPackage
<1>9. CASE RenderCount
  <2>1. UNCHANGED plan /\ UNCHANGED <<isLoading, pending>>
    BY <1>9, Zenon DEF RenderCount
  <2>2. PICK n \in CountsRead : accessQuestionsCount' = n
    BY <1>9, Zenon DEF RenderCount
  <2>3. Asked(n)
    BY <2>1, <2>2, Zenon DEF Asked
  <2> QED
    BY <2>1, <2>3, AskingKeepsPackage
<1>10. CASE Purchase
  <2>1. everSubscribed' /\ UNCHANGED <<isLoading, pending>>
    BY <1>10, Zenon DEF Purchase
  <2> QED
    BY <2>1, PlanKeepsPackage
<1>11. CASE VerifyPurchases
  <2>1. UNCHANGED <<isLoading, pending>> /\ UNCHANGED accessQuestionsCount
    BY <1>11, Zenon DEF VerifyPurchases
  <2>2. everSubscribed' \/ (~everSubscribed /\ access' = "free")
    BY <1>11, Zenon DEF VerifyPurchases
  <2> QED
    BY <2>1, <2>2, PlanKeepsPackage, Zenon
<1> QED
  BY <1>1, <1>2, <1>3, <1>4, <1>5, <1>6, <1>7, <1>8, <1>9, <1>10, <1>11, Zenon DEF Next

(* The inductive invariant of the chat screen.                             *)
LEMMA Invariance == Spec => [](TypeOK /\ Package)
<1>1. TypeOK /\ Package /\ [Next]_vars => (TypeOK /\ Package)'
  BY NextTyped, NextPackage, Zenon DEF Package
<1> QED
  BY <1>1, InitInv, PTL DEF Spec

(* Type correctness: in particular an answer that arrives always has a     *)
(* question in flight to belong to.                                        *)
THEOREM TypeCorrect == Spec => []TypeOK
BY Invariance, PTL

(* Without a subscription, the answers counted and the question in flight  *)
(* never exceed the free package, however sends, failures, retries, paywall*)
(* replays, resets at midnight and restarts interleave.                    *)
THEOREM FreeQuotaHolds == Spec => []FreeQuota
<1>1. TypeOK /\ Package => FreeQuota
  BY DEF Package
<1> QED
  BY <1>1, Invariance, PTL

-----------------------------------------------------------------------------
(* The conversation.                                                       *)

(* The end of the conversation: a question without an answer is no         *)
(* temperature command, and the service answers it (not an earlier one),   *)
(* unless it is a malformed command.                                       *)
LastQuestion ==
  /\ EndsInQuestion(messages) => Last(messages).text \notin LocalCommands
  /\ isLoading /\ Last(messages).text \notin MalformedCommands
       => pending = Last(messages).text

(* OneActivity and ConversationInTurns are inductive together with it.     *)
Conversation == OneActivity /\ ConversationInTurns /\ LastQuestion

(* A message that continues a transcript.                                  *)
Continues(m, x) ==
  IF m = <<>> THEN x.isMy
  ELSE /\ Last(m).isMy <=> ~x.isMy
       /\ Last(m).isMy /\ Last(m).text \notin MalformedCommands => x.text = Last(m).text

(* The ends of a conversation with one message more.                       *)
LEMMA AppendEnds ==
  ASSUME NEW m \in Seq(Message), NEW x \in Message
  PROVE  /\ Append(m, x) \in Seq(Message) /\ Append(m, x) # <<>>
         /\ Len(Append(m, x)) = Len(m) + 1 /\ Len(m) \in Nat
         /\ Last(Append(m, x)) = x
         /\ \A k \in 1 .. Len(m) : Append(m, x)[k] = m[k]
BY AppendProperties, LenProperties DEF Last

(* A transcript goes on with a message that continues it.                  *)
LEMMA TranscriptGrows ==
  ASSUME NEW m \in Seq(Message), NEW x \in Message, Transcript(m), Continues(m, x)
  PROVE  Transcript(Append(m, x))
<1> DEFINE a == Append(m, x)
           n == Len(m)
<1>1. /\ a \in Seq(Message) /\ Len(a) = n + 1 /\ n \in Nat
      /\ \A k \in 1 .. n : a[k] = m[k]
      /\ a[n + 1] = x
  BY AppendEnds DEF Last
<1>2. CASE m = <<>>
  <2>1. n = 0
    BY <1>2
  <2> HIDE DEF a, n
  <2>2. a[1].isMy /\ 1 .. Len(a) - 1 = {}
    <3>1. x.isMy
      BY <1>2 DEF Continues
    <3> QED
      BY <1>1, <2>1, <3>1
  <2>3. Transcript(a)
    BY <2>2, Zenon DEF Transcript
  <2> QED
    BY <2>3 DEF a
<1>3. CASE m # <<>>
  <2>1. n >= 1 /\ Last(m) = m[n]
    BY <1>3, FrontLast
  <2>2. /\ m[n].isMy <=> ~x.isMy
        /\ m[n].isMy /\ m[n].text \notin MalformedCommands => x.text = m[n].text
    BY <1>3, <2>1, Zenon DEF Continues
  <2> HIDE DEF a
  <2>3. a[1].isMy
    <3>1. m[1].isMy
      BY <1>3, Zenon DEF Transcript
    <3>2. a[1] = m[1]
      BY <1>1, <2>1
    <3> QED
      BY <3>1, <3>2, Zenon
  <2>4. ASSUME NEW k \in 1 .. Len(a) - 1
        PROVE  /\ a[k].isMy <=> ~a[k + 1].isMy
               /\ a[k].isMy /\ a[k].text \notin MalformedCommands => a[k + 1].text = a[k].text
    <3>1. CASE k = n
      <4>1. a[k] = m[n] /\ a[k + 1] = x
        BY <1>1, <2>1, <3>1
      <4> QED
        BY <2>2, <4>1, Zenon
    <3>2. CASE k # n
      <4>1. k \in 1 .. n - 1 /\ k \in 1 .. n /\ k + 1 \in 1 .. n
        BY <1>1, <2>1, <3>2
      <4>2. a[k] = m[k] /\ a[k + 1] = m[k + 1]
        BY <1>1, <4>1
      <4>3. /\ m[k].isMy <=> ~m[k + 1].isMy
            /\ m[k].isMy /\ m[k].text \notin MalformedCommands => m[k + 1].text = m[k].text
        BY <4>1, Zenon DEF Transcript
      <4> QED
        BY <4>2, <4>3, Zenon
    <3> QED
      BY <3>1, <3>2
  <2>5. Transcript(a)
    BY <2>3, <2>4, Zenon DEF Transcript
  <2> QED
    BY <2>5 DEF a
<1> QED
  BY <1>2, <1>3

(* No conversation is a transcript, and it ends in no question.            *)
LEMMA NoConversation == Transcript(<<>>) /\ ~EndsInQuestion(<<>>)
<1>1. 1 .. Len(<<>>) - 1 = {}
  OBVIOUS
<1> QED
  BY <1>1, Zenon DEF Transcript, EndsInQuestion

(* What saveChat keeps of a transcript is a transcript that ends in an     *)
(* answer.                                                                 *)
LEMMA KeptTranscript ==
  ASSUME NEW m \in Seq(Message), Transcript(m)
  PROVE  Transcript(Kept(m)) /\ ~EndsInQuestion(Kept(m))
<1>1. CASE m # <<>> /\ Last(m).isMy
  <2> DEFINE f == Front(m)
             n == Len(m)
  <2>1. Kept(m) = f
    BY <1>1, Zenon DEF Kept
  <2>2. /\ f \in Seq(Message) /\ n \in Nat /\ n >= 1 /\ Len(f) = n - 1
        /\ \A k \in 1 .. n - 1 : f[k] = m[k]
        /\ m[n].isMy
    BY <1>1, FrontLast
  <2>3. \A k \in 1 .. n - 1 :
          /\ m[k].isMy <=> ~m[k + 1].isMy
          /\ m[k].isMy /\ m[k].text \notin MalformedCommands => m[k + 1].text = m[k].text
    BY Zenon DEF Transcript
  <2>4. m[1].isMy
    BY <1>1, Zenon DEF Transcript
  <2> HIDE DEF f, n
  <2>5. CASE f = <<>>
    BY <2>1, <2>5, NoConversation
  <2>6. CASE f # <<>>
    <3>1. Len(f) >= 1 /\ Last(f) = f[Len(f)]
      BY <2>2, <2>6, FrontLast
    <3>2. n - 1 \in 1 .. n - 1 /\ (n - 1) + 1 = n /\ 1 \in 1 .. n - 1
      BY <2>2, <3>1
    <3>3. ~Last(f).isMy
      <4>1. Last(f) = m[n - 1]
        BY <2>2, <3>1, <3>2
      <4>2. m[n - 1].isMy <=> ~m[n].isMy
        BY <2>3, <3>2
      <4> QED
        BY <2>2, <4>1, <4>2, Zenon
    <3>4. f[1].isMy
      BY <2>2, <2>4, <3>2
    <3>5. ASSUME NEW k \in 1 .. Len(f) - 1
          PROVE  /\ f[k].isMy <=> ~f[k + 1].isMy
                 /\ f[k].isMy /\ f[k].text \notin MalformedCommands => f[k + 1].text = f[k].text
      <4>1. k \in 1 .. n - 1 /\ k + 1 \in 1 .. n - 1
        BY <2>2
      <4>2. f[k] = m[k] /\ f[k + 1] = m[k + 1]
        BY <2>2, <4>1
      <4> QED
        BY <2>3, <4>1, <4>2, Zenon
    <3>6. Transcript(f) /\ ~EndsInQuestion(f)
      BY <3>3, <3>4, <3>5, Zenon DEF Transcript, EndsInQuestion
    <3> QED
      BY <2>1, <3>6
  <2> QED
    BY <2>5, <2>6
<1>2. CASE ~(m # <<>> /\ Last(m).isMy)
  BY <1>2, Zenon DEF Kept, EndsInQuestion
<1> QED
  BY <1>1, <1>2

(* The view model is busy: onSendAction returns at once.                   *)
Busy == isAnswerError \/ isTyping \/ isLoading

(* After the question t went out: in flight, with its answer to come, or   *)
(* failed at once.                                                         *)
WentOut(t) ==
  \/ isLoading' = FALSE /\ isAnswerError' = TRUE /\ pending' = NoQuestion
  \/ /\ isLoading' = TRUE /\ isAnswerError' = FALSE /\ pending' \in Texts
     /\ t \notin MalformedCommands => pending' = t

(* What a send, a retry or a replay may do to the conversation: nothing;   *)
(* answer a temperature command on the spot; append a question; or ask the *)
(* last question again.                                                    *)
Commanded ==
  /\ ~Busy
  /\ \E t \in LocalCommands :
       /\ messages' = Append(Append(messages, Question(t, FALSE)), Answer(t))
       /\ temperature' => temperature \/ t \in TemperatureCommands
  /\ UNCHANGED <<isLoading, pending, isAnswerError>>

AskedNew ==
  /\ ~Busy
  /\ \E t \in Texts \ LocalCommands, i \in BOOLEAN :
       messages' = Append(messages, Question(t, i)) /\ WentOut(t)
  /\ UNCHANGED temperature

AskedAgain ==
  /\ ~isTyping /\ ~isLoading /\ EndsInQuestion(messages)
  /\ WentOut(Last(messages).text)
  /\ UNCHANGED <<messages, temperature>>

AskStep ==
  \/ UNCHANGED <<messages, isLoading, pending, isAnswerError, temperature>>
  \/ Commanded
  \/ AskedNew
  \/ AskedAgain

(* Post sends the whole conversation, so the service answers its last      *)
(* question: the last message that is not left out.                        *)
LEMMA PostGoesOut ==
  ASSUME NEW m \in Seq(Message), NEW t \in Texts \ LocalCommands, NEW i \in BOOLEAN,
         Post(m, t, i)
  PROVE  messages' = Append(m, Question(t, i)) /\ WentOut(t)
<1> DEFINE conversation == Append(m, Question(t, i))
           n == Len(m) + 1
<1>1. /\ conversation \in Seq(Message) /\ Len(conversation) = n /\ Len(m) \in Nat
      /\ conversation[n] = Question(t, i)
  BY MessagesTyped, AppendEnds DEF Last
<1>2. messages' = conversation
  BY DEF Post
<1>3. pending' \in Texts \cup {NoQuestion}
  BY PostTyped
<1>4. CASE isLoading' = FALSE /\ isAnswerError' = TRUE /\ pending' = NoQuestion
  BY <1>2, <1>4, Zenon DEF WentOut
<1>5. CASE isLoading' = TRUE /\ isAnswerError' = FALSE /\ pending' = t
  BY <1>2, <1>5, Zenon DEF WentOut
<1>6. CASE /\ isLoading' = TRUE /\ isAnswerError' = FALSE
           /\ \E k \in Sent(conversation) : /\ \A j \in Sent(conversation) : j <= k
                                            /\ pending' = conversation[k].text
  <2>1. PICK k \in Sent(conversation) : /\ \A j \in Sent(conversation) : j <= k
                                        /\ pending' = conversation[k].text
    BY <1>6
  <2>2. k \in 1 .. n
    BY <1>1 DEF Sent
  <2>3. pending' \in Texts
    <3>1. conversation[k] \in Message
      BY <1>1, <2>2, ElementOfSeq
    <3> QED
      BY <2>1, <3>1, PartsTyped
  <2>4. ASSUME t \notin MalformedCommands PROVE pending' = t
    <3>1. t \notin Commands
      BY <2>4 DEF Commands
    <3>2. Question(t, i).isMy /\ Question(t, i).text = t
      BY DEF Question
    <3>3. n \in Sent(conversation)
      BY <1>1, <3>1, <3>2 DEF Sent
    <3>4. k = n
      BY <1>1, <2>1, <2>2, <3>3
    <3> QED
      BY <1>1, <2>1, <3>2, <3>4
  <2> QED
    BY <1>2, <1>6, <2>3, <2>4, Zenon DEF WentOut
<1> QED
  BY <1>4, <1>5, <1>6, Zenon DEF Post

(* A temperature command and its answer are two messages more.             *)
LEMMA AppendPair ==
  ASSUME NEW m \in Seq(Message), NEW a \in Message, NEW b \in Message
  PROVE  m \o <<a, b>> = Append(Append(m, a), b)
<1>1. Append(m, a) \in Seq(Message)
  OBVIOUS
<1>2. Append(Append(m, a), b) = (m \o <<a>>) \o <<b>>
  BY <1>1, AppendIsConcat
<1>3. <<a>> \in Seq(Message) /\ <<b>> \in Seq(Message)
  OBVIOUS
<1>4. (m \o <<a>>) \o <<b>> = m \o (<<a>> \o <<b>>)
  BY <1>3, ConcatAssociative
<1>5. <<a>> \o <<b>> = <<a, b>>
  <2>1. Append(<<a>>, b) = <<a, b>>
    <3> DEFINE s == Append(<<a>>, b)
               p == <<a, b>>
    <3>1. s \in Seq(Message) /\ Len(s) = 2 /\ s[1] = a /\ s[2] = b
      BY <1>3, AppendProperties
    <3>2. p \in Seq(Message) /\ Len(p) = 2 /\ p[1] = a /\ p[2] = b
      BY PairTyped
    <3> HIDE DEF s, p
    <3>3. \A i \in 1 .. Len(s) : s[i] = p[i]
      BY <3>1, <3>2
    <3>4. s = p
      BY <3>1, <3>2, <3>3, SeqEqual
    <3> QED
      BY <3>4 DEF s, p
  <2> QED
    BY <1>3, <2>1, AppendIsConcat
<1> QED
  BY <1>2, <1>4, <1>5

(* onSendAction on the conversation and the draft of the screen.           *)
LEMMA OnSendActionSteps ==
  ASSUME TypeOK, NEW n, OnSendAction(messages, text, image, isAnswerError, n)
  PROVE  AskStep
<1>0. /\ messages \in Seq(Message) /\ text \in Texts \cup {Blank}
      /\ image \in BOOLEAN /\ isAnswerError \in BOOLEAN
  BY DEF TypeOK
<1>1. CASE UNCHANGED <<messages, isLoading, pending, isAnswerError, temperature>>
  BY <1>1, Zenon DEF AskStep
<1>2. CASE /\ ~Busy /\ text \in LocalCommands
           /\ messages' = messages \o <<Question(text, FALSE), Answer(text)>>
           /\ temperature' = (temperature \/ text \in TemperatureCommands)
           /\ isAnswerError' = isAnswerError
           /\ UNCHANGED <<isLoading, pending>>
  <2>1. text \in Texts
    BY <1>2 DEF Texts, Commands
  <2>2. Question(text, FALSE) \in Message /\ Answer(text) \in Message
    BY <2>1, MessagesTyped
  <2>3. messages' = Append(Append(messages, Question(text, FALSE)), Answer(text))
    BY <1>0, <1>2, <2>2, AppendPair
  <2> QED
    BY <1>2, <2>3, Zenon DEF AskStep, Commanded
<1>3. CASE /\ ~Busy /\ text \notin LocalCommands /\ text # Blank
           /\ Post(messages, text, image) /\ UNCHANGED temperature
  <2>1. text \in Texts \ LocalCommands
    BY <1>0, <1>3
  <2>2. messages' = Append(messages, Question(text, image)) /\ WentOut(text)
    BY <1>0, <1>3, <2>1, PostGoesOut
  <2> QED
    BY <1>0, <1>3, <2>1, <2>2, Zenon DEF AskStep, AskedNew
<1> QED
  BY <1>1, <1>2, <1>3, Zenon DEF OnSendAction, Busy

(* A conversation without its last message, and the message again.         *)
LEMMA FrontAppendLast ==
  ASSUME NEW m \in Seq(Message), m # <<>>
  PROVE  Append(Front(m), Last(m)) = m
<1> DEFINE a == Append(Front(m), Last(m))
<1>1. /\ Front(m) \in Seq(Message) /\ Last(m) \in Message
      /\ Len(m) \in Nat /\ Len(m) >= 1 /\ Len(Front(m)) = Len(m) - 1
      /\ \A k \in 1 .. Len(m) - 1 : Front(m)[k] = m[k]
      /\ Last(m) = m[Len(m)]
  BY FrontLast
<1>2. /\ a \in Seq(Message) /\ Len(a) = Len(Front(m)) + 1
      /\ \A k \in 1 .. Len(Front(m)) : a[k] = Front(m)[k]
      /\ a[Len(Front(m)) + 1] = Last(m)
  BY <1>1, AppendProperties
<1> HIDE DEF a
<1>3. Len(a) = Len(m)
  BY <1>1, <1>2
<1>4. \A k \in 1 .. Len(m) : a[k] = m[k]
  BY <1>1, <1>2
<1>5. a = m
  BY <1>2, <1>3, <1>4, SeqEqual
<1> QED
  BY <1>5 DEF a

(* onTryAgainAction takes the failed question back and asks it again: the  *)
(* conversation is the same afterwards, because a failed question is no    *)
(* temperature command and the view model is not busy otherwise.           *)
LEMMA OnTryAgainActionSteps ==
  ASSUME TypeOK, Conversation, isAnswerError, NEW n, OnTryAgainAction(n)
  PROVE  AskStep
<1>0. messages \in Seq(Message)
  BY DEF TypeOK
<1>1. ~isTyping /\ ~isLoading /\ EndsInQuestion(messages) /\ Last(messages).text \notin LocalCommands
  BY Zenon DEF Conversation, OneActivity, LastQuestion
<1>2. messages # <<>> /\ Last(messages).isMy
  BY <1>1 DEF EndsInQuestion
<1>3. CASE UNCHANGED <<messages, draft, isLoading, pending, isAnswerError, temperature>>
  BY <1>3, Zenon DEF AskStep
<1>4. CASE OnSendAction(Front(messages), Last(messages).text, Last(messages).image, FALSE, n)
           /\ ~IsSendMessageLocked(n)
  <2>1. Front(messages) \in Seq(Message) /\ Last(messages) \in Message
    BY <1>0, <1>2, FrontLast
  <2>2. Last(messages).text \in Texts \ LocalCommands /\ Last(messages).image \in BOOLEAN
    BY <1>1, <2>1, PartsTyped
  <2>3. Last(messages).text # Blank
    BY <2>2, TextsAssumption
  <2>4. Post(Front(messages), Last(messages).text, Last(messages).image) /\ UNCHANGED temperature
    BY <1>1, <1>4, <2>3, Zenon DEF OnSendAction
  <2>5. /\ messages' = Append(Front(messages), Question(Last(messages).text, Last(messages).image))
        /\ WentOut(Last(messages).text)
    BY <2>1, <2>2, <2>4, PostGoesOut
  <2>6. Question(Last(messages).text, Last(messages).image) = Last(messages)
    <3>1. Last(messages).isMy = TRUE
      BY <1>2, <2>1, PartsTyped
    <3> QED
      BY <2>1, <3>1 DEF Question, Message
  <2>7. messages' = messages
    BY <1>0, <1>2, <2>5, <2>6, FrontAppendLast
  <2> QED
    BY <1>1, <2>4, <2>5, <2>7, Zenon DEF AskStep, AskedAgain
<1> QED
  BY <1>2, <1>3, <1>4, Zenon DEF OnTryAgainAction

-----------------------------------------------------------------------------
(* The conversation, step by step.                                         *)

(* A step that leaves the conversation and what goes on in it alone.       *)
LEMMA QuietKeepsConversation ==
  ASSUME Conversation, UNCHANGED <<messages, isLoading, pending, isAnswerError, isTyping>>
  PROVE  Conversation'
BY Zenon DEF Conversation, OneActivity, ConversationInTurns, LastQuestion

(* A conversation with nothing going on, at its beginning or out of the    *)
(* history.                                                                *)
LEMMA IdleConversation ==
  ASSUME Transcript(messages'), ~EndsInQuestion(messages'), isLoading' = FALSE,
         pending' = NoQuestion, isAnswerError' = FALSE, isTyping' = FALSE
  PROVE  Conversation'
<1>1. OneActivity'
  BY Zenon DEF OneActivity, EndsInQuestion
<1>2. LastQuestion'
  BY Zenon DEF LastQuestion, EndsInQuestion
<1> QED
  BY <1>1, <1>2, Zenon DEF Conversation, ConversationInTurns

(* Sends, retries and replays keep the conversation.                       *)
LEMMA AskKeepsConversation ==
  ASSUME TypeOK, Conversation, AskStep, UNCHANGED isTyping
  PROVE  Conversation'
<1>0. messages \in Seq(Message) /\ Transcript(messages) /\ NoQuestion \notin Texts
  BY TextsAssumption DEF TypeOK, Conversation, ConversationInTurns
<1>1. CASE UNCHANGED <<messages, isLoading, pending, isAnswerError, temperature>>
  BY <1>1, QuietKeepsConversation
<1>2. ASSUME ~Busy PROVE ~EndsInQuestion(messages) /\ pending = NoQuestion
  BY <1>2, Zenon DEF Busy, Conversation, OneActivity
<1>3. ASSUME ~Busy, NEW x \in Message, x.isMy PROVE Continues(messages, x)
  BY <1>2, <1>3, Zenon DEF Continues, EndsInQuestion
<1>4. CASE Commanded
  <2>1. PICK t \in LocalCommands :
          messages' = Append(Append(messages, Question(t, FALSE)), Answer(t))
    BY <1>4, Zenon DEF Commanded
  <2> DEFINE q == Question(t, FALSE)
             a == Answer(t)
             m == Append(messages, q)
  <2>2. /\ q \in Message /\ q.isMy = TRUE /\ q.text = t
        /\ a \in Message /\ a.isMy = FALSE /\ a.text = t
    <3>1. t \in Texts
      BY DEF Texts, Commands
    <3> QED
      BY <3>1, MessagesTyped DEF Question, Answer
  <2>3. ~Busy
    BY <1>4, Zenon DEF Commanded
  <2> HIDE DEF q, a
  <2>4. Transcript(m) /\ m \in Seq(Message) /\ m # <<>> /\ Last(m) = q
    <3>1. Continues(messages, q)
      BY <1>3, <2>2, <2>3
    <3> QED
      BY <1>0, <2>2, <3>1, TranscriptGrows, AppendEnds
  <2> HIDE DEF m
  <2>5. Continues(m, a)
    BY <2>2, <2>4 DEF Continues
  <2>6. messages' = Append(m, a)
    BY <2>1 DEF m, q, a
  <2>7. /\ Transcript(messages') /\ ~EndsInQuestion(messages')
    BY <2>2, <2>4, <2>5, <2>6, TranscriptGrows, AppendEnds DEF EndsInQuestion
  <2>8. isLoading' = isLoading /\ pending' = pending /\ isAnswerError' = isAnswerError
    BY <1>4, Zenon DEF Commanded
  <2>9. ~isLoading /\ ~isAnswerError /\ ~isTyping
    BY <2>3 DEF Busy
  <2>10. OneActivity'
    BY <1>2, <2>3, <2>7, <2>8, <2>9, Zenon DEF OneActivity
  <2>11. LastQuestion'
    BY <2>7, <2>8, <2>9, Zenon DEF LastQuestion
  <2> QED
    BY <2>7, <2>10, <2>11, Zenon DEF Conversation, ConversationInTurns
<1>5. ASSUME NEW t \in Texts \ LocalCommands, WentOut(t), ~isTyping,
             Transcript(messages'), messages' # <<>>,
             Last(messages').isMy, Last(messages').text = t
      PROVE  Conversation'
  <2>1. EndsInQuestion(messages')
    BY <1>5, Zenon DEF EndsInQuestion
  <2>2. OneActivity'
    BY <1>0, <1>5, <2>1, Zenon DEF OneActivity, WentOut
  <2>3. LastQuestion'
    BY <1>5, Zenon DEF LastQuestion, WentOut
  <2> QED
    BY <1>5, <2>2, <2>3, Zenon DEF Conversation, ConversationInTurns
<1>6. CASE AskedNew
  <2>1. PICK t \in Texts \ LocalCommands, i \in BOOLEAN :
          messages' = Append(messages, Question(t, i)) /\ WentOut(t)
    BY <1>6, Zenon DEF AskedNew
  <2>2. ~Busy /\ ~isTyping
    BY <1>6, Zenon DEF AskedNew, Busy
  <2> DEFINE q == Question(t, i)
  <2>3. q \in Message /\ q.isMy = TRUE /\ q.text = t
    BY MessagesTyped DEF Question
  <2> HIDE DEF q
  <2>4. Continues(messages, q)
    BY <1>3, <2>2, <2>3
  <2>5. messages' = Append(messages, q)
    BY <2>1 DEF q
  <2>6. Transcript(messages') /\ messages' # <<>> /\ Last(messages') = q
    BY <1>0, <2>3, <2>4, <2>5, TranscriptGrows, AppendEnds
  <2> QED
    BY <1>5, <2>1, <2>2, <2>3, <2>6
<1>7. CASE AskedAgain
  <2>1. /\ messages' = messages /\ ~isTyping /\ WentOut(Last(messages).text)
        /\ messages # <<>> /\ Last(messages).isMy
    BY <1>7, Zenon DEF AskedAgain, EndsInQuestion
  <2>2. Last(messages).text \in Texts
    BY <1>0, <2>1, FrontLast, PartsTyped
  <2>3. Last(messages).text \notin LocalCommands
    BY <2>1, Zenon DEF Conversation, LastQuestion, EndsInQuestion
  <2> QED
    BY <1>0, <1>5, <2>1, <2>2, <2>3
<1> QED
  BY <1>1, <1>4, <1>6, <1>7, Zenon DEF AskStep

(* The response handler appends the answer to the question it answers.     *)
LEMMA AnswerKeepsConversation ==
  ASSUME TypeOK, Conversation, AnswerArrives
  PROVE  Conversation'
<1>0. messages \in Seq(Message) /\ pending \in Texts \cup {NoQuestion}
  BY DEF TypeOK
<1>1. isLoading /\ pending # NoQuestion /\ ~isTyping /\ ~isAnswerError
  BY Zenon DEF AnswerArrives, Conversation, OneActivity
<1>2. /\ messages' = Append(messages, Answer(pending)) /\ isTyping' = TRUE
      /\ isLoading' = FALSE /\ pending' = NoQuestion /\ isAnswerError' = isAnswerError
  BY Zenon DEF AnswerArrives
<1> DEFINE a == Answer(pending)
<1>3. a \in Message /\ a.isMy = FALSE /\ a.text = pending
  BY <1>0, <1>1, MessagesTyped DEF Answer
<1>4. /\ messages # <<>> /\ Last(messages).isMy
      /\ Last(messages).text \notin MalformedCommands => pending = Last(messages).text
  BY <1>1, Zenon DEF Conversation, OneActivity, LastQuestion, EndsInQuestion
<1> HIDE DEF a
<1>5. Continues(messages, a)
  BY <1>3, <1>4 DEF Continues
<1>6. Transcript(messages)
  BY Zenon DEF Conversation, ConversationInTurns
<1>7. messages' = Append(messages, a)
  BY <1>2 DEF a
<1>8. Transcript(messages') /\ messages' # <<>> /\ ~EndsInQuestion(messages')
  BY <1>0, <1>3, <1>5, <1>6, <1>7, TranscriptGrows, AppendEnds DEF EndsInQuestion
<1>9. OneActivity'
  BY <1>1, <1>2, <1>8, Zenon DEF OneActivity
<1>10. LastQuestion'
  BY <1>2, <1>8, Zenon DEF LastQuestion
<1> QED
  BY <1>8, <1>9, <1>10, Zenon DEF Conversation, ConversationInTurns

(* A failure leaves the question for Try Again.                            *)
LEMMA FailureKeepsConversation ==
  ASSUME Conversation, AnswerFails
  PROVE  Conversation'
<1>1. /\ isLoading /\ messages' = messages /\ isTyping' = isTyping
      /\ isLoading' = FALSE /\ pending' = NoQuestion /\ isAnswerError' = TRUE
  BY Zenon DEF AnswerFails
<1>2. ~isTyping /\ EndsInQuestion(messages)
  BY <1>1, Zenon DEF Conversation, OneActivity
<1>3. OneActivity'
  BY <1>1, <1>2, Zenon DEF OneActivity
<1>4. LastQuestion'
  BY <1>1, Zenon DEF Conversation, LastQuestion
<1> QED
  BY <1>1, <1>3, <1>4, Zenon DEF Conversation, ConversationInTurns

(* The end of typing leaves the answer.                                    *)
LEMMA TypingKeepsConversation ==
  ASSUME Conversation, FinishTyping
  PROVE  Conversation'
BY Zenon DEF FinishTyping, Conversation, OneActivity, ConversationInTurns, LastQuestion

-----------------------------------------------------------------------------
(* The screen.                                                             *)

(* A screen that is gone has nothing on it and nothing under way.          *)
Gone ==
  /\ messages = <<>>
  /\ isLoading = FALSE /\ pending = NoQuestion /\ isAnswerError = FALSE /\ isTyping = FALSE
  /\ alert = "none" /\ showBuyPro = FALSE /\ showNoConnection = FALSE
  /\ wasSendAction = FALSE /\ wasTryAgainAction = FALSE
  /\ speaking = FALSE

ClosedIsGone == ~open => Gone

(* Only one of the alert, the paywall and the no-connection screen is up.  *)
OneCover ==
  /\ alert # "none" => ~showBuyPro /\ ~showNoConnection
  /\ ~(showBuyPro /\ showNoConnection)

ScreenInv == ClosedIsGone /\ OneCover /\ ReplayValid /\ Silence

(* Leaving, deleting and the death of the process.                         *)
Leaves == BackTapped \/ SwipeBack \/ DeleteChat \/ Kill

(* The steps that send.                                                    *)
Asks == SendTapped \/ NoConnectionTryAgain \/ TryAgainTapped \/ PaywallDone

(* Whoever leaves leaves nothing behind.                                   *)
LEMMA LeavesGone ==
  ASSUME Leaves
  PROVE  open' = FALSE /\ Gone'
BY Zenon DEF Leaves, BackTapped, SwipeBack, Leave, DeleteChat, Kill, Discard, Gone

(* A screen that is gone is silent and has no cover and no replay.         *)
LEMMA GoneKeepsScreen ==
  ASSUME open' = FALSE, Gone'
  PROVE  ScreenInv'
BY Zenon DEF Gone, ScreenInv, ClosedIsGone, OneCover, ReplayValid, Silence

(* A send stopped by the limit changes nothing.                            *)
LEMMA StoppedSend ==
  ASSUME NEW n, OnSendAction(messages, text, image, isAnswerError, n), SendHitsLimit(n)
  PROVE  /\ isLoading' = isLoading /\ isAnswerError' = isAnswerError
         /\ ~isLoading /\ ~isAnswerError /\ ~isTyping
BY Zenon DEF OnSendAction, SendHitsLimit

(* Send under no cover keeps the replay flags valid.                       *)
LEMMA SendKeepsScreen ==
  ASSUME TypeOK, ScreenInv, open, ~showBuyPro, alert = "none", NEW n, Send(n),
         showNoConnection' = FALSE, UNCHANGED <<open, isTyping, alert, wasTryAgainAction, sound>>
  PROVE  ScreenInv'
<1>1. ~wasSendAction /\ ~wasTryAgainAction
  BY Zenon DEF ScreenInv, ReplayValid
<1>2. /\ OnSendAction(messages, text, image, isAnswerError, n)
      /\ wasSendAction' = (wasSendAction \/ SendHitsLimit(n))
      /\ showBuyPro' = (showBuyPro \/ SendHitsLimit(n))
  BY Zenon DEF Send
<1>3. ASSUME SendHitsLimit(n) PROVE ~isLoading' /\ ~isAnswerError' /\ ~isTyping'
  BY <1>2, <1>3, StoppedSend, Zenon
<1>4. ReplayValid'
  BY <1>1, <1>2, <1>3, Zenon DEF ReplayValid
<1>5. ClosedIsGone' /\ OneCover' /\ Silence'
  BY Zenon DEF ScreenInv, ClosedIsGone, OneCover, Silence
<1> QED
  BY <1>4, <1>5 DEF ScreenInv

(* The steps that send keep the screen in order.                           *)
LEMMA AsksKeepScreen ==
  ASSUME TypeOK, ScreenInv, Conversation, Asks
  PROVE  ScreenInv'
<1>0. /\ open' = open /\ isTyping' = isTyping /\ alert' = alert /\ UNCHANGED sound
  BY Zenon DEF Asks, SendTapped, NoConnectionTryAgain, TryAgainTapped, PaywallDone
<1>1. open
  BY Zenon DEF Asks, SendTapped, NoConnectionTryAgain, TryAgainTapped, PaywallDone,
               Interactive, ScreenInv, ClosedIsGone, Gone
<1>2. CASE SendTapped
  <2>1. alert = "none" /\ ~showBuyPro /\ ~showNoConnection /\ wasTryAgainAction' = wasTryAgainAction
    BY <1>2, Zenon DEF SendTapped, Interactive
  <2>2. CASE \E n \in CountsRead : Send(n) /\ UNCHANGED showNoConnection
    <3>1. PICK n \in CountsRead : Send(n) /\ UNCHANGED showNoConnection
      BY <2>2
    <3>2. showNoConnection' = FALSE
      BY <2>1, <3>1 DEF TypeOK
    <3> QED
      BY <1>0, <1>1, <2>1, <3>1, <3>2, SendKeepsScreen
  <2>3. CASE /\ showNoConnection' = TRUE
             /\ UNCHANGED <<messages, isLoading, isAnswerError, wasSendAction, showBuyPro>>
    BY <1>0, <1>1, <2>1, <2>3, Zenon DEF ScreenInv, ClosedIsGone, OneCover, ReplayValid, Silence
  <2> QED
    BY <1>2, <2>2, <2>3, Zenon DEF SendTapped
<1>3. CASE NoConnectionTryAgain
  <2>1. /\ alert = "none" /\ ~showBuyPro /\ showNoConnection' = FALSE
        /\ wasTryAgainAction' = wasTryAgainAction
    BY <1>3, Zenon DEF NoConnectionTryAgain, ScreenInv, OneCover
  <2>2. CASE \E n \in CountsRead : Send(n)
    BY <1>0, <1>1, <2>1, <2>2, SendKeepsScreen
  <2>3. CASE UNCHANGED <<messages, isLoading, isAnswerError, wasSendAction, showBuyPro>>
    BY <1>0, <1>1, <2>1, <2>3, Zenon DEF ScreenInv, ClosedIsGone, OneCover, ReplayValid, Silence
  <2> QED
    BY <1>3, <2>2, <2>3, Zenon DEF NoConnectionTryAgain
<1>4. CASE TryAgainTapped
  <2>1. /\ alert = "none" /\ ~showBuyPro /\ ~showNoConnection /\ isAnswerError
        /\ wasSendAction' = wasSendAction /\ showNoConnection' = showNoConnection
    BY <1>4, Zenon DEF TryAgainTapped, Interactive
  <2>2. ~wasSendAction /\ ~wasTryAgainAction
    BY <2>1, Zenon DEF ScreenInv, ReplayValid
  <2>3. PICK n \in CountsRead :
          LET hitsLimit == /\ messages # <<>> /\ Last(messages).isMy
                           /\ IsSendMessageLocked(n)
          IN  /\ OnTryAgainAction(n)
              /\ wasTryAgainAction' = (wasTryAgainAction \/ hitsLimit)
              /\ showBuyPro' = (showBuyPro \/ hitsLimit)
    BY <1>4, Zenon DEF TryAgainTapped
  <2>4. ASSUME wasTryAgainAction' PROVE showBuyPro' /\ isAnswerError'
    <3>1. messages # <<>> /\ Last(messages).isMy /\ IsSendMessageLocked(n)
      BY <2>2, <2>3, <2>4, Zenon
    <3>2. isAnswerError' = isAnswerError
      BY <2>3, <3>1, Zenon DEF OnTryAgainAction
    <3> QED
      BY <2>1, <2>3, <3>1, <3>2, Zenon
  <2>5. ReplayValid'
    BY <2>1, <2>2, <2>4, Zenon DEF ReplayValid
  <2>6. ClosedIsGone' /\ OneCover' /\ Silence'
    BY <1>0, <1>1, <2>1, Zenon DEF ScreenInv, ClosedIsGone, OneCover, Silence
  <2> QED
    BY <2>5, <2>6 DEF ScreenInv
<1>5. CASE PaywallDone
  <2>1. /\ showBuyPro' = FALSE /\ wasSendAction' = FALSE /\ wasTryAgainAction' = FALSE
        /\ showNoConnection' = showNoConnection /\ showBuyPro
    BY <1>5, Zenon DEF PaywallDone, ForgetReplay
  <2>2. alert = "none" /\ ~showNoConnection
    BY <2>1, Zenon DEF ScreenInv, OneCover
  <2> QED
    BY <1>0, <1>1, <2>1, <2>2, Zenon DEF ScreenInv, ClosedIsGone, OneCover, ReplayValid, Silence
<1> QED
  BY <1>2, <1>3, <1>4, <1>5 DEF Asks

(* The steps that leave the conversation and the screen alone.             *)
Quiet ==
  \/ EnterBackground
  \/ \E t \in Texts \cup {Blank} : EditText(t)
  \/ PickImage \/ RemoveImage
  \/ Purchase \/ VerifyPurchases \/ RenderCount \/ HandleActivePhase
  \/ UNCHANGED vars

(* Of the sound and the covers.                                            *)
Around ==
  \/ ToggleSound \/ SetSound \/ NarrationEnds
  \/ \E a \in {"upgrade", "deleteChat"} : ShowAlert(a)
  \/ DismissAlert

(* So they do.                                                             *)
LEMMA QuietSteps ==
  ASSUME Quiet
  PROVE  /\ UNCHANGED <<messages, isLoading, pending, isAnswerError, isTyping, temperature>>
         /\ UNCHANGED <<open, alert, showBuyPro, showNoConnection>>
         /\ UNCHANGED <<wasSendAction, wasTryAgainAction, isSoundOff, speaking>>
BY Zenon DEF Quiet, EnterBackground, EditText, PickImage, RemoveImage, Purchase,
             VerifyPurchases, RenderCount, HandleActivePhase, vars

(* And the others leave the conversation and the replay alone.             *)
LEMMA AroundSteps ==
  ASSUME Around
  PROVE  /\ UNCHANGED <<messages, isLoading, pending, isAnswerError, isTyping, temperature>>
         /\ UNCHANGED <<open, wasSendAction, wasTryAgainAction, showNoConnection, store>>
BY Zenon DEF Around, ToggleSound, SetSound, NarrationEnds, ShowAlert, DismissAlert

(* Next by what its steps do to the conversation.                          *)
LEMMA NextSteps ==
  ASSUME [Next]_vars
  PROVE  \/ \E c \in ChatIds \cup {NoChat} : OpenChat(c)
         \/ Leaves \/ Quiet \/ Around \/ Asks
         \/ AnswerArrives \/ AnswerFails \/ FinishTyping
BY Zenon DEF Next, Leaves, Quiet, Around, Asks

(* Every step keeps the screen in order.                                   *)
LEMMA NextScreen ==
  ASSUME TypeOK, ScreenInv, Conversation, [Next]_vars
  PROVE  ScreenInv'
<1>1. ASSUME NEW c, OpenChat(c) PROVE ScreenInv'
  <2>1. Gone /\ open'
    BY <1>1, Zenon DEF OpenChat, ScreenInv, ClosedIsGone
  <2>2. /\ UNCHANGED <<alert, showBuyPro, showNoConnection, isTyping, isLoading>>
        /\ UNCHANGED <<isAnswerError, wasSendAction, wasTryAgainAction, speaking>>
    BY <1>1, Zenon DEF OpenChat
  <2> QED
    BY <2>1, <2>2, Zenon DEF Gone, ScreenInv, ClosedIsGone, OneCover, ReplayValid, Silence
<1>2. CASE Leaves
  BY <1>2, LeavesGone, GoneKeepsScreen
<1>3. CASE Quiet
  <2>0. /\ open' = open /\ alert' = alert /\ showBuyPro' = showBuyPro
        /\ showNoConnection' = showNoConnection /\ wasSendAction' = wasSendAction
        /\ wasTryAgainAction' = wasTryAgainAction
        /\ isSoundOff' = isSoundOff /\ speaking' = speaking
        /\ isLoading' = isLoading /\ isAnswerError' = isAnswerError /\ isTyping' = isTyping
    BY <1>3, QuietSteps
  <2>1. ClosedIsGone'
    <3>1. messages' = messages /\ pending' = pending
      BY <1>3, QuietSteps
    <3> QED
      BY <2>0, <3>1, Zenon DEF ScreenInv, ClosedIsGone, Gone
  <2>2. OneCover'
    BY <2>0, Zenon DEF ScreenInv, OneCover
  <2>3. ReplayValid'
    BY <2>0, Zenon DEF ScreenInv, ReplayValid
  <2>4. Silence'
    BY <2>0, Zenon DEF ScreenInv, Silence
  <2> QED
    BY <2>1, <2>2, <2>3, <2>4 DEF ScreenInv
<1>4. CASE Around
  <2>0. /\ open' = open /\ showNoConnection' = showNoConnection
        /\ wasSendAction' = wasSendAction /\ wasTryAgainAction' = wasTryAgainAction
        /\ isLoading' = isLoading /\ isAnswerError' = isAnswerError /\ isTyping' = isTyping
    BY <1>4, AroundSteps
  <2>1. \/ speaking' = speaking /\ isSoundOff' = isSoundOff
        \/ speaking' = FALSE
        \/ open /\ isSoundOff /\ ~isSoundOff'
        \/ ~open /\ speaking' = speaking
    BY <1>4, Zenon DEF Around, ToggleSound, SetSound, NarrationEnds, ShowAlert, DismissAlert,
                       Interactive
  <2>2. ~open => speaking = FALSE
    BY Zenon DEF ScreenInv, ClosedIsGone, Gone
  <2>3. Silence' /\ (~open => speaking' = FALSE)
    <3>1. speaking => open /\ ~isSoundOff
      BY DEF ScreenInv, Silence
    <3>2. ~open => speaking' = FALSE
      BY <2>1, <2>2, Zenon
    <3>3. speaking' => ~isSoundOff'
      <4>1. CASE speaking' = speaking /\ isSoundOff' = isSoundOff
        BY <3>1, <4>1, Zenon
      <4>2. CASE ~(speaking' = speaking /\ isSoundOff' = isSoundOff)
        BY <2>1, <3>2, <4>2, Zenon
      <4> QED
        BY <4>1, <4>2
    <3> QED
      BY <2>0, <3>2, <3>3, Zenon DEF Silence
  <2>4. \/ alert' = alert /\ showBuyPro' = showBuyPro
        \/ open /\ ~showBuyPro /\ ~showNoConnection /\ showBuyPro' = showBuyPro
        \/ alert # "none" /\ alert' = "none"
    BY <1>4, Zenon DEF Around, ToggleSound, SetSound, NarrationEnds, ShowAlert, DismissAlert,
                       Interactive
  <2>5. OneCover' /\ (showBuyPro => showBuyPro')
    <3>1. OneCover
      BY DEF ScreenInv
    <3>2. CASE alert' = alert /\ showBuyPro' = showBuyPro
      BY <2>0, <3>1, <3>2, Zenon DEF OneCover
    <3>3. CASE ~showBuyPro /\ ~showNoConnection /\ showBuyPro' = showBuyPro
      BY <2>0, <3>3, Zenon DEF OneCover
    <3>4. CASE alert # "none" /\ alert' = "none"
      BY <2>0, <3>1, <3>4, Zenon DEF OneCover
    <3> QED
      BY <2>4, <3>2, <3>3, <3>4, Zenon
  <2>6. ReplayValid'
    BY <2>0, <2>5, Zenon DEF ScreenInv, ReplayValid
  <2>7. ClosedIsGone'
    <3>1. messages' = messages /\ pending' = pending
      BY <1>4, AroundSteps
    <3> QED
      BY <2>0, <2>3, <2>4, <3>1, Zenon DEF ScreenInv, ClosedIsGone, Gone
  <2> QED
    BY <2>3, <2>5, <2>6, <2>7 DEF ScreenInv
<1>5. CASE Asks
  BY <1>5, AsksKeepScreen
<1>6. CASE AnswerArrives \/ AnswerFails \/ FinishTyping
  <2>1. open /\ open' = open
    BY <1>6, Zenon DEF AnswerArrives, AnswerFails, FinishTyping, ScreenInv, ClosedIsGone, Gone
  <2>2. ~wasSendAction
    BY <1>6, Zenon DEF AnswerArrives, AnswerFails, FinishTyping, ScreenInv, ReplayValid
  <2>3. isAnswerError => isAnswerError'
    BY <1>6, Zenon DEF AnswerArrives, AnswerFails, FinishTyping
  <2>4. /\ UNCHANGED <<alert, showBuyPro, showNoConnection, wasSendAction, wasTryAgainAction>>
        /\ isSoundOff' = isSoundOff
    BY <1>6, Zenon DEF AnswerArrives, AnswerFails, FinishTyping
  <2>5. speaking' = speaking \/ speaking' = (speaking \/ ~isSoundOff)
    BY <1>6, Zenon DEF AnswerArrives, AnswerFails, FinishTyping
  <2>7. OneCover' /\ Silence' /\ ClosedIsGone'
    <3>1. speaking' => speaking \/ ~isSoundOff
      BY <2>5, Zenon
    <3>2. Silence'
      BY <2>1, <2>4, <3>1, Zenon DEF ScreenInv, Silence
    <3>3. OneCover'
      BY <2>4, Zenon DEF ScreenInv, OneCover
    <3> QED
      BY <2>1, <3>2, <3>3, Zenon DEF ClosedIsGone
  <2>6. ReplayValid'
    BY <2>2, <2>3, <2>4, Zenon DEF ScreenInv, ReplayValid
  <2> QED
    BY <2>6, <2>7 DEF ScreenInv
<1> QED
  BY <1>1, <1>2, <1>3, <1>4, <1>5, <1>6, NextSteps

(* What the steps that send do to the conversation.                        *)
LEMMA AsksSteps ==
  ASSUME TypeOK, ScreenInv, Conversation, Asks
  PROVE  AskStep /\ open' = open /\ isTyping' = isTyping
<1>1. open' = open /\ isTyping' = isTyping
  BY Zenon DEF Asks, SendTapped, NoConnectionTryAgain, TryAgainTapped, PaywallDone
<1>2. CASE \E n \in CountsRead : OnSendAction(messages, text, image, isAnswerError, n)
  BY <1>1, <1>2, OnSendActionSteps
<1>3. CASE isAnswerError /\ \E n \in CountsRead : OnTryAgainAction(n)
  BY <1>1, <1>3, OnTryAgainActionSteps
<1>4. CASE UNCHANGED <<messages, draft, isLoading, pending, isAnswerError, temperature>>
  BY <1>1, <1>4, Zenon DEF AskStep
<1>5. CASE PaywallDone
  <2>1. wasTryAgainAction => isAnswerError
    BY Zenon DEF ScreenInv, ReplayValid
  <2> QED
    BY <1>2, <1>3, <1>4, <1>5, <2>1, Zenon DEF PaywallDone
<1>6. CASE SendTapped \/ NoConnectionTryAgain
  BY <1>2, <1>4, <1>6, Zenon DEF SendTapped, NoConnectionTryAgain, Send
<1>7. CASE TryAgainTapped
  BY <1>3, <1>7, Zenon DEF TryAgainTapped
<1> QED
  BY <1>5, <1>6, <1>7 DEF Asks

(* Every step keeps the conversation.                                      *)
LEMMA NextConversation ==
  ASSUME TypeOK, ScreenInv, Conversation, HistoryComplete, [Next]_vars
  PROVE  Conversation'
<1>1. ASSUME NEW c \in ChatIds \cup {NoChat}, OpenChat(c) PROVE Conversation'
  <2>1. Gone
    BY <1>1, Zenon DEF OpenChat, ScreenInv, ClosedIsGone
  <2>2. /\ isLoading' = FALSE /\ pending' = NoQuestion
        /\ isAnswerError' = FALSE /\ isTyping' = FALSE
    BY <1>1, <2>1, Zenon DEF OpenChat, Gone
  <2>3. Transcript(messages') /\ ~EndsInQuestion(messages')
    <3>1. CASE c = NoChat
      <4>1. messages' = <<>>
        BY <1>1, <3>1, Zenon DEF OpenChat
      <4> QED
        BY <4>1, NoConversation
    <3>2. CASE c # NoChat
      <4>1. messages' = store[c] /\ c \in ChatIds
        BY <1>1, <3>2, Zenon DEF OpenChat
      <4> QED
        BY <4>1, Zenon DEF HistoryComplete
    <3> QED
      BY <3>1, <3>2
  <2> QED
    BY <2>2, <2>3, IdleConversation
<1>2. CASE Leaves
  <2>1. Gone'
    BY <1>2, LeavesGone
  <2>2. messages' = <<>> /\ isLoading' = FALSE /\ pending' = NoQuestion
        /\ isAnswerError' = FALSE /\ isTyping' = FALSE
    BY <2>1 DEF Gone
  <2> QED
    BY <2>2, NoConversation, IdleConversation
<1>3. CASE Quiet
  BY <1>3, QuietSteps, QuietKeepsConversation
<1>4. CASE Around
  BY <1>4, AroundSteps, QuietKeepsConversation
<1>5. CASE Asks
  BY <1>5, AsksSteps, AskKeepsConversation
<1> QED
  BY <1>1, <1>2, <1>3, <1>4, <1>5, AnswerKeepsConversation, FailureKeepsConversation,
     TypingKeepsConversation, NextSteps

-----------------------------------------------------------------------------
(* The history and the temperature.                                        *)

(* saveChat stores finished transcripts.                                   *)
LEMMA SaveChatKeepsHistory ==
  ASSUME TypeOK, Conversation, HistoryComplete, NEW c \in ChatIds \cup {NoChat}, SaveChat(c)
  PROVE  HistoryComplete'
<1>1. /\ Transcript(Kept(messages)) /\ ~EndsInQuestion(Kept(messages))
      /\ store \in [ChatIds -> Seq(Message)]
  BY KeptTranscript DEF TypeOK, Conversation, ConversationInTurns
<1> SUFFICES ASSUME NEW d \in ChatIds
             PROVE  Transcript(store'[d]) /\ ~EndsInQuestion(store'[d])
  BY DEF HistoryComplete
<1>2. store'[d] \in {Kept(messages), <<>>, store[d]}
  BY <1>1 DEF SaveChat
<1>3. Transcript(store[d]) /\ ~EndsInQuestion(store[d])
  BY DEF HistoryComplete
<1> QED
  BY <1>1, <1>2, <1>3, NoConversation, Zenon

(* Every step keeps the history complete.                                  *)
LEMMA NextHistory ==
  ASSUME TypeOK, Conversation, HistoryComplete, [Next]_vars
  PROVE  HistoryComplete'
<1>1. CASE UNCHANGED store
  BY <1>1 DEF HistoryComplete
<1>2. CASE BackTapped \/ SwipeBack \/ EnterBackground
  <2>1. \E c \in ChatIds \cup {NoChat} : SaveChat(c)
    BY <1>2, Zenon DEF BackTapped, SwipeBack, Leave, EnterBackground
  <2> QED
    BY <2>1, SaveChatKeepsHistory
<1>3. CASE DeleteChat
  <2>1. PICK kept \in {<<>>, Kept(messages)} : store' = [store EXCEPT ![chat] = kept]
    BY <1>3 DEF DeleteChat
  <2>2. Transcript(kept) /\ ~EndsInQuestion(kept)
    <3>1. Transcript(Kept(messages)) /\ ~EndsInQuestion(Kept(messages))
      BY KeptTranscript DEF TypeOK, Conversation, ConversationInTurns
    <3> QED
      BY <3>1, NoConversation
  <2>3. \A d \in ChatIds : store'[d] = kept \/ store'[d] = store[d]
    BY <2>1 DEF TypeOK
  <2> QED
    BY <2>2, <2>3, Zenon DEF HistoryComplete
<1>4. CASE Asks \/ Around
  BY <1>1, <1>4, Zenon DEF Asks, SendTapped, NoConnectionTryAgain, TryAgainTapped, PaywallDone,
                           Around, ToggleSound, SetSound, NarrationEnds, ShowAlert, DismissAlert
<1>5. CASE AnswerArrives \/ AnswerFails \/ FinishTyping \/ Kill
           \/ \E c \in ChatIds \cup {NoChat} : OpenChat(c)
  BY <1>1, <1>5, Zenon DEF AnswerArrives, AnswerFails, FinishTyping, Kill, OpenChat
<1>6. CASE Quiet
  BY <1>1, <1>2, <1>6, Zenon DEF Quiet, EditText, PickImage, RemoveImage, Purchase,
                                 VerifyPurchases, RenderCount, HandleActivePhase, vars
<1> QED
  BY <1>2, <1>3, <1>4, <1>5, <1>6, NextSteps DEF Leaves

HasCommand(m) == \E k \in DOMAIN m : m[k].text \in TemperatureCommands

(* A temperature command stays in a conversation that grows.               *)
LEMMA CommandStays ==
  ASSUME NEW m \in Seq(Message), NEW x \in Message,
         HasCommand(m) \/ x.text \in TemperatureCommands
  PROVE  HasCommand(Append(m, x))
<1> DEFINE a == Append(m, x)
<1>1. /\ a \in Seq(Message) /\ Len(a) = Len(m) + 1 /\ Len(m) \in Nat
      /\ \A k \in 1 .. Len(m) : a[k] = m[k]
      /\ a[Len(m) + 1] = x
      /\ DOMAIN a = 1 .. Len(a) /\ DOMAIN m = 1 .. Len(m)
  BY AppendProperties, LenProperties
<1> HIDE DEF a
<1>2. HasCommand(a)
  BY <1>1 DEF HasCommand
<1> QED
  BY <1>2 DEF a

(* Every step keeps the temperature to the chat it was set in.             *)
LEMMA NextTemperature ==
  ASSUME TypeOK, ScreenInv, Conversation, TemperatureIsLocal, [Next]_vars
  PROVE  TemperatureIsLocal'
<1>0. messages \in Seq(Message)
  BY DEF TypeOK
<1>1. open /\ temperature => HasCommand(messages)
  BY DEF TemperatureIsLocal, HasCommand
<1>2. SUFFICES ASSUME open', temperature' PROVE HasCommand(messages')
  BY DEF TemperatureIsLocal, HasCommand
<1>3. CASE messages' = messages /\ temperature' = temperature /\ open' = open
  BY <1>1, <1>2, <1>3, Zenon
<1>4. CASE \E c \in ChatIds \cup {NoChat} : OpenChat(c)
  BY <1>2, <1>4, Zenon DEF OpenChat
<1>5. CASE Leaves
  BY <1>2, <1>5, LeavesGone
<1>6. CASE Quiet
  BY <1>3, <1>6, QuietSteps
<1>7. CASE Around
  BY <1>3, <1>7, AroundSteps
<1>8. CASE Asks
  <2>1. open /\ AskStep
    BY <1>2, <1>8, AsksSteps
  <2>2. CASE UNCHANGED <<messages, temperature>>
    BY <1>1, <1>2, <2>1, <2>2, Zenon
  <2>3. CASE Commanded
    <3>1. PICK t \in LocalCommands :
            /\ messages' = Append(Append(messages, Question(t, FALSE)), Answer(t))
            /\ temperature' => temperature \/ t \in TemperatureCommands
      BY <2>3, Zenon DEF Commanded
    <3>2. Question(t, FALSE) \in Message /\ Answer(t) \in Message /\ Question(t, FALSE).text = t
      <4>1. t \in Texts
        BY DEF Texts, Commands
      <4> QED
        BY <4>1, MessagesTyped DEF Question
    <3>3. HasCommand(Append(messages, Question(t, FALSE)))
      BY <1>0, <1>1, <1>2, <2>1, <3>1, <3>2, CommandStays
    <3>4. Append(messages, Question(t, FALSE)) \in Seq(Message)
      BY <1>0, <3>2, AppendEnds
    <3> QED
      BY <3>1, <3>2, <3>3, <3>4, CommandStays
  <2>4. CASE AskedNew
    <3>1. PICK t \in Texts \ LocalCommands, i \in BOOLEAN :
            messages' = Append(messages, Question(t, i))
      BY <2>4, Zenon DEF AskedNew
    <3>2. HasCommand(messages)
      BY <1>1, <1>2, <2>1, <2>4, Zenon DEF AskedNew
    <3> QED
      BY <1>0, <3>1, <3>2, MessagesTyped, CommandStays
  <2> QED
    BY <2>1, <2>2, <2>3, <2>4, Zenon DEF AskStep, AskedAgain
<1>9. CASE AnswerArrives
  <2>1. /\ messages' = Append(messages, Answer(pending)) /\ pending \in Texts
        /\ temperature' = temperature /\ open' = open
    BY <1>9 DEF AnswerArrives, Conversation, OneActivity, TypeOK
  <2>2. HasCommand(messages)
    BY <1>1, <1>2, <2>1, Zenon
  <2> QED
    BY <1>0, <2>1, <2>2, MessagesTyped, CommandStays
<1>10. CASE AnswerFails \/ FinishTyping
  BY <1>3, <1>10, Zenon DEF AnswerFails, FinishTyping
<1> QED
  BY <1>4, <1>5, <1>6, <1>7, <1>8, <1>9, <1>10, NextSteps

-----------------------------------------------------------------------------
(* The invariant of the screen, and what follows from it.                  *)

ChatInv == TypeOK /\ ScreenInv /\ Conversation /\ HistoryComplete /\ TemperatureIsLocal

(* A chat screen that is not there satisfies it.                           *)
LEMMA InitChat == Init => ChatInv
<1> SUFFICES ASSUME Init PROVE ChatInv
  OBVIOUS
<1>1. TypeOK
  BY InitInv
<1>2. /\ open = FALSE /\ Gone /\ temperature = FALSE
  BY Zenon DEF Init, Gone
<1>3. ScreenInv
  BY <1>2, Zenon DEF Gone, ScreenInv, ClosedIsGone, OneCover, ReplayValid, Silence
<1>4. Conversation
  BY <1>2, NoConversation, Zenon DEF Gone, Conversation, OneActivity, ConversationInTurns,
                                     LastQuestion, EndsInQuestion
<1>5. HistoryComplete
  <2>1. \A c \in ChatIds : store[c] = <<>>
    BY DEF Init
  <2> QED
    BY <2>1, NoConversation DEF HistoryComplete
<1>6. TemperatureIsLocal
  BY <1>2, Zenon DEF TemperatureIsLocal
<1> QED
  BY <1>1, <1>3, <1>4, <1>5, <1>6 DEF ChatInv

(* Every step keeps it.                                                    *)
LEMMA NextChat ==
  ASSUME ChatInv, [Next]_vars
  PROVE  ChatInv'
<1>1. TypeOK'
  <2>1. Waiting
    BY Zenon DEF ChatInv, Conversation, OneActivity, Waiting
  <2> QED
    BY <2>1, NextTyped DEF ChatInv
<1>2. ScreenInv' /\ Conversation' /\ HistoryComplete' /\ TemperatureIsLocal'
  BY NextScreen, NextConversation, NextHistory, NextTemperature DEF ChatInv
<1> QED
  BY <1>1, <1>2 DEF ChatInv

(* The invariant of the chat screen.                                       *)
LEMMA ChatInvariance == Spec => []ChatInv
<1>1. ChatInv /\ [Next]_vars => ChatInv'
  BY NextChat
<1> QED
  BY <1>1, InitChat, PTL DEF Spec

(* onSendAction's guard is lock enough: in every interleaving of sends,    *)
(* answers, failures, retries, replays, typing and leaving, the view model *)
(* does one thing at a time, the end of the conversation shows which, and  *)
(* a request is in flight exactly while it is loading.                     *)
THEOREM OneActivityHolds == Spec => []OneActivity
<1>1. ChatInv => OneActivity
  BY DEF ChatInv, Conversation
<1> QED
  BY <1>1, ChatInvariance, PTL

(* The conversation is a transcript for any texts and any length, although *)
(* the response handler appends blindly and onTryAgainAction removes       *)
(* blindly.                                                                *)
THEOREM TurnsHold == Spec => []ConversationInTurns
<1>1. ChatInv => ConversationInTurns
  BY DEF ChatInv, Conversation
<1> QED
  BY <1>1, ChatInvariance, PTL

(* A send or retry the paywall has stopped is still possible when the      *)
(* paywall closes, and only one of them is remembered.                     *)
THEOREM ReplayHolds == Spec => []ReplayValid
<1>1. ChatInv => ReplayValid
  BY DEF ChatInv, ScreenInv
<1> QED
  BY <1>1, ChatInvariance, PTL

(* Nothing is read out with the sound off or the screen gone.              *)
THEOREM SilenceHolds == Spec => []Silence
<1>1. ChatInv => Silence
  BY DEF ChatInv, ScreenInv
<1> QED
  BY <1>1, ChatInvariance, PTL

(* Whatever moment saveChat runs at (a swipe, the background, a deletion), *)
(* the history holds finished transcripts only.                            *)
THEOREM HistoryHolds == Spec => []HistoryComplete
<1>1. ChatInv => HistoryComplete
  BY DEF ChatInv
<1> QED
  BY <1>1, ChatInvariance, PTL

(* A temperature is never carried from one chat into another.              *)
THEOREM TemperatureHolds == Spec => []TemperatureIsLocal
<1>1. ChatInv => TemperatureIsLocal
  BY DEF ChatInv
<1> QED
  BY <1>1, ChatInvariance, PTL

-----------------------------------------------------------------------------
(* What a step may never do.                                               *)

(* A conversation whose messages are all there is a prefix.                *)
LEMMA PrefixOf ==
  ASSUME NEW s \in Seq(Message), NEW t \in Seq(Message), Len(s) <= Len(t),
         \A k \in 1 .. Len(s) : t[k] = s[k]
  PROVE  IsPrefix(s, t)
<1> DEFINE n == Len(s)
           u == SubSeq(s, 1, n)
           v == SubSeq(t, 1, n)
<1>1. n \in Nat /\ Len(t) \in Nat /\ 1 \in Int /\ n \in Int
  BY LenProperties
<1>2. \A k \in 1 .. n : s[k] \in Message /\ t[k] \in Message
  BY <1>1, ElementOfSeq
<1>3. /\ u \in Seq(Message) /\ Len(u) = IF 1 <= n THEN n - 1 + 1 ELSE 0
      /\ \A k \in 1 .. n - 1 + 1 : u[k] = s[1 + k - 1]
  BY <1>1, <1>2, SubSeqProperties
<1>4. /\ v \in Seq(Message) /\ Len(v) = IF 1 <= n THEN n - 1 + 1 ELSE 0
      /\ \A k \in 1 .. n - 1 + 1 : v[k] = t[1 + k - 1]
  BY <1>1, <1>2, SubSeqProperties
<1>5. Len(u) \in Nat /\ Len(u) = Len(v)
  BY <1>3, <1>4, LenProperties
<1>6. Len(u) = n
  <2> DEFINE L == Len(u)
  <2>1. L = IF 1 <= n THEN n - 1 + 1 ELSE 0
    BY <1>3, Zenon
  <2> HIDE DEF L, n
  <2>2. L = n
    BY <1>1, <2>1
  <2> QED
    BY <2>2 DEF L
<1> HIDE DEF u, v, n
<1>7. \A k \in 1 .. n : u[k] = v[k]
  <2> SUFFICES ASSUME NEW k \in 1 .. n PROVE u[k] = v[k]
    OBVIOUS
  <2>1. k \in 1 .. n - 1 + 1 /\ 1 + k - 1 = k
    BY <1>1
  <2>2. t[k] = s[k]
    BY DEF n
  <2> QED
    BY <1>3, <1>4, <2>1, <2>2
<1>8. u = v
  BY <1>3, <1>4, <1>5, <1>6, <1>7, SeqEqual
<1> QED
  BY <1>8 DEF IsPrefix, u, v, n

(* A conversation is a prefix of itself with one or two messages more.     *)
LEMMA PrefixGrows ==
  ASSUME NEW m \in Seq(Message), NEW x \in Message, NEW y \in Message
  PROVE  /\ IsPrefix(m, m) /\ IsPrefix(m, Append(m, x))
         /\ IsPrefix(m, Append(Append(m, x), y))
<1> DEFINE a == Append(m, x)
           b == Append(a, y)
<1>1. /\ a \in Seq(Message) /\ Len(a) = Len(m) + 1 /\ Len(m) \in Nat
      /\ \A k \in 1 .. Len(m) : a[k] = m[k]
  BY AppendEnds
<1> HIDE DEF a
<1>2. /\ b \in Seq(Message) /\ Len(b) = Len(a) + 1
      /\ \A k \in 1 .. Len(a) : b[k] = a[k]
  BY <1>1, AppendEnds
<1> HIDE DEF b
<1>3. /\ Len(m) <= Len(m) /\ Len(m) <= Len(a) /\ Len(m) <= Len(b)
      /\ \A k \in 1 .. Len(m) : b[k] = m[k]
  BY <1>1, <1>2
<1>4. IsPrefix(m, m) /\ IsPrefix(m, a) /\ IsPrefix(m, b)
  BY <1>1, <1>2, <1>3, PrefixOf
<1> QED
  BY <1>4 DEF a, b

(* Every step keeps what the user has seen.                                *)
LEMMA NextPrefix ==
  ASSUME ChatInv, [Next]_vars, open, open'
  PROVE  IsPrefix(messages, messages')
<1>0. messages \in Seq(Message) /\ pending \in Texts \cup {NoQuestion}
  BY DEF ChatInv, TypeOK
<1>1. CASE messages' = messages
  <2>1. PICK x \in Message : TRUE
    BY TextsAssumption, MessagesTyped DEF Texts
  <2> QED
    BY <1>0, <1>1, <2>1, PrefixGrows
<1>2. CASE \E c \in ChatIds \cup {NoChat} : OpenChat(c)
  BY <1>2, Zenon DEF OpenChat
<1>3. CASE Leaves
  BY <1>3, LeavesGone
<1>4. CASE Quiet
  BY <1>1, <1>4, QuietSteps
<1>5. CASE Around
  BY <1>1, <1>5, AroundSteps
<1>6. CASE Asks
  <2>1. AskStep
    BY <1>6, AsksSteps DEF ChatInv
  <2>2. CASE Commanded
    <3>1. PICK t \in LocalCommands :
            messages' = Append(Append(messages, Question(t, FALSE)), Answer(t))
      BY <2>2, Zenon DEF Commanded
    <3>2. Question(t, FALSE) \in Message /\ Answer(t) \in Message
      BY MessagesTyped DEF Texts, Commands
    <3> QED
      BY <1>0, <3>1, <3>2, PrefixGrows
  <2>3. CASE AskedNew
    <3>1. PICK t \in Texts \ LocalCommands, i \in BOOLEAN :
            messages' = Append(messages, Question(t, i))
      BY <2>3, Zenon DEF AskedNew
    <3> QED
      BY <1>0, <3>1, MessagesTyped, PrefixGrows
  <2> QED
    BY <1>1, <2>1, <2>2, <2>3, Zenon DEF AskStep, AskedAgain
<1>7. CASE AnswerArrives
  <2>1. messages' = Append(messages, Answer(pending)) /\ pending \in Texts
    BY <1>7 DEF AnswerArrives, ChatInv, Conversation, OneActivity, TypeOK
  <2> QED
    BY <1>0, <2>1, MessagesTyped, PrefixGrows
<1>8. CASE AnswerFails \/ FinishTyping
  BY <1>1, <1>8, Zenon DEF AnswerFails, FinishTyping
<1> QED
  BY <1>2, <1>3, <1>4, <1>5, <1>6, <1>7, <1>8, NextSteps

(* Nothing the user has seen disappears while the screen stays, although   *)
(* Try Again and the paywall replay take the last question back.           *)
THEOREM ConversationKept == Spec => KeepsConversation
<1>1. ChatInv /\ [Next]_vars => [open /\ open' => IsPrefix(messages, messages')]_vars
  BY NextPrefix
<1> QED
  BY <1>1, ChatInvariance, PTL DEF Spec, KeepsConversation

(* A question, without an image, that goes out is in flight: it is not     *)
(* left out of what is sent.                                               *)
LEMMA QuestionGoesOut ==
  ASSUME NEW m \in Seq(Message), NEW t \in Questions, Post(m, t, FALSE)
  PROVE  isLoading' = TRUE
<1> DEFINE conversation == Append(m, Question(t, FALSE))
           n == Len(m) + 1
<1>1. t \in Texts /\ t \notin Commands
  BY TextsAssumption DEF Texts
<1>2. Question(t, FALSE) \in Message
  BY <1>1, MessagesTyped
<1>3. /\ conversation \in Seq(Message) /\ Len(conversation) = n /\ Len(m) \in Nat
      /\ conversation[n] = Question(t, FALSE)
  BY <1>2, AppendEnds DEF Last
<1>4. n \in Sent(conversation)
  BY <1>1, <1>3 DEF Sent, Question
<1>5. Sent(conversation) # {}
  BY <1>4
<1> HIDE DEF n
<1> QED
  BY <1>5, Zenon DEF Post

(* What the limit stopped is asked after the paywall.                      *)
LEMMA ReplayAsks ==
  ASSUME ChatInv, PaywallDone, access = "unlimited",
         \/ wasTryAgainAction /\ Last(messages).text \in Questions /\ ~Last(messages).image
         \/ wasSendAction /\ text \in Questions /\ ~image
  PROVE  isLoading' = TRUE
<1>0. /\ messages \in Seq(Message) /\ image \in BOOLEAN
      /\ Questions \cap LocalCommands = {} /\ Blank \notin Questions
  BY TextsAssumption DEF ChatInv, TypeOK, Commands, Texts
<1>1. \A n : ~IsSendMessageLocked(n)
  BY DEF IsSendMessageLocked
<1>2. CASE wasTryAgainAction /\ Last(messages).text \in Questions /\ ~Last(messages).image
  <2>1. PICK n \in CountsRead : OnTryAgainAction(n)
    BY <1>2, Zenon DEF PaywallDone
  <2>2. isAnswerError
    BY <1>2, Zenon DEF ChatInv, ScreenInv, ReplayValid
  <2>3. EndsInQuestion(messages) /\ ~isTyping /\ ~isLoading
    BY <2>2, Zenon DEF ChatInv, Conversation, OneActivity
  <2>4. messages # <<>> /\ Last(messages).isMy
    BY <2>3 DEF EndsInQuestion
  <2>5. OnSendAction(Front(messages), Last(messages).text, Last(messages).image, FALSE, n)
    BY <1>1, <2>1, <2>4, Zenon DEF OnTryAgainAction
  <2>6. Front(messages) \in Seq(Message) /\ Last(messages).image = FALSE
    BY <1>0, <1>2, <2>4, FrontLast, PartsTyped
  <2>7. Last(messages).text \notin LocalCommands /\ Last(messages).text # Blank
    BY <1>0, <1>2
  <2>8. Post(Front(messages), Last(messages).text, Last(messages).image)
    BY <1>1, <2>3, <2>5, <2>7, Zenon DEF OnSendAction
  <2>9. Post(Front(messages), Last(messages).text, FALSE)
    BY <2>6, <2>8
  <2> QED
    BY <1>2, <2>6, <2>9, QuestionGoesOut
<1>3. CASE wasSendAction /\ text \in Questions /\ ~image
  <2>1. ~wasTryAgainAction /\ ~isAnswerError /\ ~isTyping /\ ~isLoading
    BY <1>3, Zenon DEF ChatInv, ScreenInv, ReplayValid
  <2>2. PICK n \in CountsRead : OnSendAction(messages, text, image, isAnswerError, n)
    BY <1>3, <2>1, Zenon DEF PaywallDone
  <2>3. text \notin LocalCommands /\ text # Blank /\ image = FALSE
    BY <1>0, <1>3
  <2>4. Post(messages, text, image)
    BY <1>1, <2>1, <2>2, <2>3, Zenon DEF OnSendAction
  <2>5. Post(messages, text, FALSE)
    BY <2>3, <2>4
  <2> QED
    BY <1>0, <1>3, <2>5, QuestionGoesOut
<1> QED
  BY <1>2, <1>3

(* Only onPaywallDoneAction closes the paywall of a screen that stays.     *)
LEMMA PaywallCloses ==
  ASSUME ChatInv, [Next]_vars, showBuyPro, ~showBuyPro', open'
  PROVE  PaywallDone
<1>0. open
  BY Zenon DEF ChatInv, ScreenInv, ClosedIsGone, Gone
<1>1. CASE \E c \in ChatIds \cup {NoChat} : OpenChat(c)
  BY <1>0, <1>1, Zenon DEF OpenChat
<1>2. CASE Leaves
  BY <1>2, LeavesGone
<1>3. CASE Quiet
  BY <1>3, QuietSteps
<1>4. CASE Around
  BY <1>4, Zenon DEF Around, ToggleSound, SetSound, NarrationEnds, ShowAlert, DismissAlert
<1>5. CASE SendTapped \/ NoConnectionTryAgain \/ TryAgainTapped
  BY <1>5, Zenon DEF SendTapped, NoConnectionTryAgain, TryAgainTapped, Send, Interactive,
                     ChatInv, ScreenInv, OneCover
<1>6. CASE AnswerArrives \/ AnswerFails \/ FinishTyping
  BY <1>6, Zenon DEF AnswerArrives, AnswerFails, FinishTyping
<1> QED
  BY <1>1, <1>2, <1>3, <1>4, <1>5, <1>6, NextSteps DEF Asks

(* A question the limit has stopped is not lost: it goes out in the very   *)
(* step in which a user with an unlimited plan comes back.                 *)
THEOREM ReplayKept == Spec => ReplayNotLost
<1> DEFINE stopped == \/ wasTryAgainAction /\ Last(messages).text \in Questions
                                           /\ ~Last(messages).image
                      \/ wasSendAction /\ text \in Questions /\ ~image
<1>1. ChatInv /\ [Next]_vars =>
        (showBuyPro /\ ~showBuyPro' /\ open' /\ access = "unlimited" /\ stopped => isLoading')
  BY PaywallCloses, ReplayAsks
<1>2. ChatInv /\ [Next]_vars =>
        [showBuyPro /\ ~showBuyPro' /\ open' /\ access = "unlimited" /\ stopped => isLoading']_vars
  BY <1>1
<1> QED
  BY <1>2, ChatInvariance, PTL DEF Spec, ReplayNotLost
=============================================================================
