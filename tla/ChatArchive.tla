----------------------------- MODULE ChatArchive -----------------------------
(***************************************************************************)
(* What the chat history promises: a chat is kept as a finished            *)
(* conversation, comes back as it was left, and goes only when the user    *)
(* deletes it.                                                             *)
(***************************************************************************)
EXTENDS Integers, Sequences, SequencesExt

CONSTANTS ChatIds, NoChat, Messages

VARIABLES
  open,       \* a conversation is on screen
  chat,       \* the chat it is kept as, or NoChat
  messages,   \* the conversation
  archive     \* chat -> the conversation that is kept, <<>> when there is none

vars == <<open, chat, messages, archive>>

Init ==
  /\ open = FALSE /\ chat = NoChat /\ messages = <<>>
  /\ archive = [c \in ChatIds |-> <<>>]

Open(c) ==
  /\ ~open /\ open' = TRUE
  /\ chat' = c
  /\ messages' = IF c = NoChat THEN <<>> ELSE archive[c]
  /\ UNCHANGED archive

(* One more message; a question that failed may be taken back for it.      *)
Say(m) ==
  /\ open
  /\ \/ messages' = Append(messages, m)
     \/ /\ messages # <<>> /\ Last(messages).isMy /\ m.isMy
        /\ messages' = Append(Front(messages), m)
  /\ UNCHANGED <<open, chat, archive>>

(* A conversation without its last unanswered question.                    *)
Finished == IF messages # <<>> /\ Last(messages).isMy THEN Front(messages) ELSE messages

(* An empty conversation is not kept.                                      *)
Keep(c) ==
  IF Finished = <<>>
  THEN chat = NoChat /\ c = NoChat /\ UNCHANGED archive
  ELSE /\ c \in ChatIds
       /\ c = chat \/ (chat = NoChat /\ archive[c] = <<>>)
       /\ archive' = [archive EXCEPT ![c] = Finished]

Closed == open /\ open' = FALSE /\ chat' = NoChat /\ messages' = <<>>

Save == open /\ (\E c \in ChatIds \cup {NoChat} : Keep(c) /\ chat' = c) /\ UNCHANGED <<open, messages>>
Leave == Closed /\ \E c \in ChatIds \cup {NoChat} : Keep(c)
Lose == Closed /\ UNCHANGED archive

(* Deleting an open chat may be undone by the save of the screen that      *)
(* closes.                                                                 *)
Delete ==
  /\ Closed /\ chat # NoChat
  /\ archive' \in {[archive EXCEPT ![chat] = <<>>], [archive EXCEPT ![chat] = Finished]}

Next ==
  \/ \E c \in ChatIds \cup {NoChat} : Open(c)
  \/ \E m \in Messages : Say(m)
  \/ Save
  \/ Leave
  \/ Lose
  \/ Delete

Spec == Init /\ [][Next]_vars
=============================================================================
