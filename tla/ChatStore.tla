------------------------------ MODULE ChatStore ------------------------------
(***************************************************************************)
(* The chat history in Core Data.  saveChat writes the conversation of the *)
(* chat screen as new Message rows of its Chat; opening a chat reads the   *)
(* rows, which have no order, and sorts them by the time each message was  *)
(* made.  That time is the device's clock, which can be set back.          *)
(***************************************************************************)
EXTENDS Integers, Sequences, SequencesExt

CONSTANTS
  ChatIds,       \* bound: the chats that can be stored
  NoChat,        \* nil
  MaxSaid,       \* bound: messages ever made
  MaxClock,      \* bound: the device's clock
  MaxSetBacks    \* bound: how often the clock is set back

ASSUME ChatStoreAssumption ==
  /\ NoChat \notin ChatIds
  /\ MaxSaid \in Nat /\ MaxClock \in Nat /\ MaxSetBacks \in Nat

Message == [id : 1 .. MaxSaid, isMy : BOOLEAN, created : 1 .. MaxClock]

VARIABLES
  clock, setBacks,   \* the device's clock; how often it was set back
  said,              \* messages made so far
  open, chat,        \* the chat screen and the chat it shows, or NoChat
  messages,          \* its conversation
  showDeleteChatButton,
  isLoading,         \* a question is in flight
  isAnswerError,     \* the last question failed
  deleted,           \* chat is an object that has been deleted
  rows,              \* chat -> its Message rows, in no order that matters;
                     \* <<>> when there is no such chat
  scrambled          \* history: chats saved with times out of order

time == <<clock, setBacks>>
request == <<isLoading, isAnswerError>>
screen == <<open, chat, showDeleteChatButton>>
vars == <<time, said, screen, messages, request, deleted, rows, scrambled>>

TypeOK ==
  /\ clock \in 0 .. MaxClock
  /\ setBacks \in 0 .. MaxSetBacks
  /\ said \in 0 .. MaxSaid
  /\ open \in BOOLEAN
  /\ chat \in ChatIds \cup {NoChat}
  /\ messages \in Seq(Message)
  /\ showDeleteChatButton \in BOOLEAN
  /\ isLoading \in BOOLEAN
  /\ isAnswerError \in BOOLEAN
  /\ deleted \in BOOLEAN
  /\ rows \in [ChatIds -> Seq(Message)]
  /\ scrambled \subseteq ChatIds

Init ==
  /\ clock = 0 /\ setBacks = 0 /\ said = 0
  /\ open = FALSE /\ chat = NoChat /\ messages = <<>>
  /\ showDeleteChatButton = FALSE
  /\ isLoading = FALSE /\ isAnswerError = FALSE
  /\ deleted = FALSE
  /\ rows = [c \in ChatIds |-> <<>>]
  /\ scrambled = {}

-----------------------------------------------------------------------------
(* The rows in every order that the sort by creation time can give.        *)
Sorted(s) ==
  {t \in {[i \in DOMAIN s |-> s[p[i]]] : p \in Bijection(DOMAIN s, DOMAIN s)} :
     \A i, j \in DOMAIN t : i < j => t[i].created <= t[j].created}

(* A new conversation, or one from the history.                            *)
OpenChat(c) ==
  /\ ~open
  /\ c # NoChat => rows[c] # <<>>
  /\ open' = TRUE /\ chat' = c
  /\ showDeleteChatButton' = (c # NoChat)
  /\ messages' \in IF c = NoChat THEN {<<>>} ELSE Sorted(rows[c])
  /\ isLoading' = FALSE /\ isAnswerError' = FALSE
  /\ UNCHANGED <<time, said, deleted, rows, scrambled>>

(* Mutant: a message takes the id of the one before it.                    *)
SaysSameId(m, isMy) ==
  /\ said < MaxSaid /\ clock < MaxClock
  /\ clock' = clock + 1
  /\ said' = said + 1
  /\ messages' = Append(m, [id |-> said, isMy |-> isMy, created |-> clock'])

(* A message made now.                                                     *)
Says(m, isMy) ==
  /\ said < MaxSaid /\ clock < MaxClock
  /\ clock' = clock + 1
  /\ said' = said + 1
  /\ messages' = Append(m, [id |-> said', isMy |-> isMy, created |-> clock'])

Ask ==
  /\ open /\ ~isLoading /\ ~isAnswerError
  /\ Says(messages, TRUE)
  /\ isLoading' = TRUE
  /\ UNCHANGED <<setBacks, screen, isAnswerError, deleted, rows, scrambled>>

AnswerArrives ==
  /\ open /\ isLoading
  /\ Says(messages, FALSE)
  /\ isLoading' = FALSE
  /\ UNCHANGED <<setBacks, screen, isAnswerError, deleted, rows, scrambled>>

AnswerFails ==
  /\ open /\ isLoading
  /\ isLoading' = FALSE /\ isAnswerError' = TRUE
  /\ UNCHANGED <<time, said, screen, messages, deleted, rows, scrambled>>

(* onTryAgainAction takes the question back and asks it again.             *)
TryAgain ==
  /\ open /\ isAnswerError
  /\ Says(Front(messages), TRUE)
  /\ isLoading' = TRUE /\ isAnswerError' = FALSE
  /\ UNCHANGED <<setBacks, screen, deleted, rows, scrambled>>

(* The last question is dropped when it has no answer.                     *)
Kept == IF messages # <<>> /\ Last(messages).isMy THEN Front(messages) ELSE messages

Ascending(s) == \A i, j \in DOMAIN s : i < j => s[i].created < s[j].created

(* Mutant: the new rows are added to the rows of the last save.            *)
SaveChatAdds(c) ==
  IF \E i \in DOMAIN Kept : Kept[i].isMy
  THEN /\ c \in ChatIds
       /\ c = chat \/ (chat = NoChat /\ rows[c] = <<>>)
       /\ rows' = [rows EXCEPT ![c] = @ \o Kept]
       /\ scrambled' = IF Ascending(Kept) THEN scrambled ELSE scrambled \cup {c}
  ELSE /\ c = chat
       /\ rows' = [d \in ChatIds |-> IF d = chat THEN <<>> ELSE rows[d]]
       /\ UNCHANGED scrambled

(* Mutant: without an answer to the last question nothing is kept.         *)
SaveChatAnswered(c) ==
  IF Kept = messages /\ messages # <<>>
  THEN /\ c \in ChatIds
       /\ c = chat \/ (chat = NoChat /\ rows[c] = <<>>)
       /\ rows' = [rows EXCEPT ![c] = Kept]
       /\ scrambled' = IF Ascending(Kept) THEN scrambled ELSE scrambled \cup {c}
  ELSE /\ c = chat
       /\ rows' = [d \in ChatIds |-> IF d = chat THEN <<>> ELSE rows[d]]
       /\ UNCHANGED scrambled

(* saveChat, under the id c: the rows replace the chat's; a chat with no   *)
(* question left is deleted; a deleted chat may come back.                 *)
SaveChat(c) ==
  IF \E i \in DOMAIN Kept : Kept[i].isMy
  THEN /\ c \in ChatIds
       /\ c = chat \/ (chat = NoChat /\ rows[c] = <<>>)
       /\ \/ rows' = [rows EXCEPT ![c] = Kept]
          \/ deleted /\ UNCHANGED rows
       /\ scrambled' = IF Ascending(Kept) THEN scrambled ELSE scrambled \cup {c}
  ELSE /\ c = chat
       /\ rows' = [d \in ChatIds |-> IF d = chat THEN <<>> ELSE rows[d]]
       /\ UNCHANGED scrambled

Discard ==
  /\ open' = FALSE /\ chat' = NoChat /\ messages' = <<>>
  /\ showDeleteChatButton' = FALSE
  /\ isLoading' = FALSE /\ isAnswerError' = FALSE
  /\ deleted' = FALSE

(* onDisappear.                                                            *)
Leave ==
  /\ open
  /\ \E c \in ChatIds \cup {NoChat} : SaveChat(c)
  /\ Discard
  /\ UNCHANGED <<time, said>>

(* didEnterBackground: the screen goes on, also when its chat was deleted. *)
EnterBackground ==
  /\ open
  /\ \E c \in ChatIds \cup {NoChat} : SaveChat(c) /\ chat' = c
  /\ deleted' = (chat' # NoChat /\ rows'[chat'] = <<>>)
  /\ UNCHANGED <<time, said, open, showDeleteChatButton, messages, request>>

(* onDeleteChatAction deletes the chat; onDisappear saves it once more.    *)
DeleteChat ==
  /\ open /\ showDeleteChatButton
  /\ \/ rows' = [rows EXCEPT ![chat] = <<>>]
     \/ /\ \E i \in DOMAIN Kept : Kept[i].isMy
        /\ rows' = [rows EXCEPT ![chat] = Kept]
  /\ scrambled' = IF Ascending(Kept) THEN scrambled ELSE scrambled \cup {chat}
  /\ Discard
  /\ UNCHANGED <<time, said>>

(* The process dies; what was saved is on disk.                            *)
Kill ==
  /\ open
  /\ Discard
  /\ UNCHANGED <<time, said, rows, scrambled>>

(* The clock is set back, by the user or by the network's time.            *)
SetClock ==
  /\ setBacks < MaxSetBacks
  /\ setBacks' = setBacks + 1
  /\ clock' \in 0 .. clock - 1
  /\ UNCHANGED <<said, screen, messages, request, deleted, rows, scrambled>>

Next ==
  \/ \E c \in ChatIds \cup {NoChat} : OpenChat(c)
  \/ Ask
  \/ AnswerArrives
  \/ AnswerFails
  \/ TryAgain
  \/ Leave
  \/ EnterBackground
  \/ DeleteChat
  \/ Kill
  \/ SetClock

Spec == Init /\ [][Next]_vars

-----------------------------------------------------------------------------
(* A chat goes only when the user deletes it, or when the clock went back  *)
(* inside it: then the sort can end it in a question, and saveChat drops   *)
(* that and deletes a chat without a question.                             *)
LossNeedsSetBack ==
  [][\A c \in ChatIds \ scrambled :
       rows[c] # <<>> /\ rows'[c] = <<>> => DeleteChat /\ chat = c]_vars

-----------------------------------------------------------------------------
(* With a clock that only goes forward, rows sorted by time are the kept   *)
(* conversations.                                                          *)
Archive == INSTANCE ChatArchive WITH
  Messages <- Message,
  archive <- [c \in ChatIds |-> CHOOSE s \in Sorted(rows[c]) : TRUE]

(* The history implements ChatArchive as long as the clock has not been    *)
(* set back: rows that are rewritten on every save and sorted on every     *)
(* opening are the conversations as they were left, also over kills.       *)
ArchiveUntilSetBack ==
  [][setBacks = 0 => Archive!Next \/ UNCHANGED Archive!vars]_vars
=============================================================================
