----------------------------- MODULE TokenWindow -----------------------------
(***************************************************************************)
(* How _sendTurbo cuts a conversation down to the model's context: it      *)
(* walks back from the newest message, adding up usageTokens, and asks for *)
(* at most as many tokens as are left.                                     *)
(*                                                                         *)
(* usageTokens is not a message's size.  A new question has 0; an answered *)
(* one has the size of the whole prompt it was asked with; an answer has   *)
(* its own size; a question about an image, and its answer, keep 0.  size  *)
(* is the real one, which the code never sees.                             *)
(*                                                                         *)
(* _sendText keeps from _sendTurbo every message whose text contains one   *)
(* of the three texts of the temperature command: the command and its      *)
(* reply, but also a malformed command, which is asked like any question.  *)
(***************************************************************************)
EXTENDS Integers, Sequences

CONSTANTS
  ModelMaxTokens,    \* modelMaxTokens (4097)
  AddTokens,         \* addTokens (50)
  MaxTokenSettings,  \* what maxTokens can be: freeTokens, liteTokens, proTokens
  ContextTokens,     \* the prompts the service accepts
  Sizes,             \* sizes a message can have
  MaxMessages        \* bound: messages of the conversation

(* A window that leaves no room for half an answer would be empty.         *)
ASSUME SettingsAssumption ==
  /\ ModelMaxTokens \in Nat /\ AddTokens \in Nat /\ ContextTokens \in Nat
  /\ MaxTokenSettings # {}
  /\ \A t \in MaxTokenSettings :
       t \in Nat /\ t \div 2 + AddTokens <= ModelMaxTokens
ASSUME SizesAssumption == Sizes \subseteq Nat \ {0} /\ Sizes # {}
ASSUME MaxMessagesAssumption == MaxMessages \in Nat

VARIABLES
  chat,             \* the messages that pass the filter: size and usageTokens of each
  kept,             \* the question in flight passes the filter
  pc,               \* "idle", "walking" or "waiting" for the response
  maxTokens,        \* of the running request
  first,            \* the messages from first on are in the request
  sumTokens,        \* the usageTokens of those
  resultMaxTokens   \* max_tokens of the request

vars == <<chat, kept, pc, maxTokens, first, sumTokens, resultMaxTokens>>

Item(s, u) == [size |-> s, usageTokens |-> u]

(* What the filter of _sendText leaves of one message.                     *)
Filtered(item, passes) == IF passes THEN <<item>> ELSE <<>>

(* The sum of a sequence of numbers from k on.                             *)
SumFrom(f, k) ==
  LET sum[j \in 1 .. Len(f) + 1] == IF j > Len(f) THEN 0 ELSE f[j] + sum[j + 1]
  IN  sum[k]

(* The sum of a field over the messages from k on.                         *)
SizesOf(c) == [j \in 1 .. Len(c) |-> c[j].size]
UsagesOf(c) == [j \in 1 .. Len(c) |-> c[j].usageTokens]
SizeFrom(c, k) == SumFrom(SizesOf(c), k)
UsageFrom(c, k) == SumFrom(UsagesOf(c), k)

(* The sizes of the messages that carry no usage; 0 for the others.        *)
UncountedOf(c) ==
  [j \in 1 .. Len(c) |-> IF c[j].usageTokens = 0 THEN c[j].size ELSE 0]

AvailableTokens(t) == ModelMaxTokens - t \div 2 - AddTokens

TypeOK ==
  /\ chat \in Seq([size : Nat, usageTokens : Nat])
  /\ kept \in BOOLEAN
  /\ pc \in {"idle", "walking", "waiting"}
  /\ maxTokens \in MaxTokenSettings
  /\ first \in Nat
  /\ sumTokens \in Nat
  /\ resultMaxTokens \in Int

Init ==
  /\ chat = <<>>
  /\ kept = TRUE
  /\ pc = "idle"
  /\ maxTokens \in MaxTokenSettings
  /\ first = 1
  /\ sumTokens = 0
  /\ resultMaxTokens = 0

-----------------------------------------------------------------------------
(* onSendAction appends the question, _sendText filters the conversation   *)
(* and calls _sendTurbo, which answers nil at once when nothing is left.   *)
Ask(s, passes, t) ==
  /\ pc = "idle"
  /\ Len(chat) + 2 <= MaxMessages
  /\ chat' = chat \o Filtered(Item(s, 0), passes)
  /\ chat' # <<>>
  /\ kept' = passes
  /\ maxTokens' = t
  /\ first' = Len(chat') + 1
  /\ sumTokens' = 0
  /\ pc' = "walking"
  /\ UNCHANGED resultMaxTokens

(* A question about an image goes to the other service; neither it nor its *)
(* answer gets a usage.                                                    *)
AskAboutImage(s, passes, answer, answerPasses) ==
  /\ pc = "idle"
  /\ Len(chat) + 2 <= MaxMessages
  /\ chat' = chat \o Filtered(Item(s, 0), passes) \o Filtered(Item(answer, 0), answerPasses)
  /\ UNCHANGED <<kept, pc, maxTokens, first, sumTokens, resultMaxTokens>>

(* A temperature command in another letter case is obeyed and not sent,    *)
(* but the filter, which minds the case, lets it pass from then on; its    *)
(* reply never does.                                                       *)
Command(s) ==
  /\ pc = "idle"
  /\ Len(chat) + 2 <= MaxMessages
  /\ chat' = Append(chat, Item(s, 0))
  /\ UNCHANGED <<kept, pc, maxTokens, first, sumTokens, resultMaxTokens>>

(* Mutant: the message is taken before its usage is looked at.             *)
FitsLate(k) == k >= 1 /\ sumTokens <= AvailableTokens(maxTokens)

(* There is a message k and it still fits.                                 *)
Fits(k) == k >= 1 /\ sumTokens + chat[k].usageTokens <= AvailableTokens(maxTokens)

(* One turn of the loop: the message goes into the request.                *)
Take ==
  /\ pc = "walking"
  /\ Fits(first - 1)
  /\ first' = first - 1
  /\ sumTokens' = sumTokens + chat[first - 1].usageTokens
  /\ UNCHANGED <<chat, kept, pc, maxTokens, resultMaxTokens>>

(* Mutants of the loop's end: the answer may be as long as maxTokens; the  *)
(* walk may stop before its end.                                           *)
StopUncapped ==
  /\ pc = "walking"
  /\ ~Fits(first - 1)
  /\ resultMaxTokens' = maxTokens
  /\ pc' = "waiting"
  /\ UNCHANGED <<chat, kept, maxTokens, first, sumTokens>>

StopEarly ==
  /\ pc = "walking"
  /\ resultMaxTokens' = maxTokens
  /\ pc' = "waiting"
  /\ UNCHANGED <<chat, kept, maxTokens, first, sumTokens>>

(* The loop ends: the request goes out.                                    *)
Stop ==
  /\ pc = "walking"
  /\ ~Fits(first - 1)
  /\ resultMaxTokens' = LET left == ModelMaxTokens - AddTokens - sumTokens
                        IN  IF maxTokens < left THEN maxTokens ELSE left
  /\ pc' = "waiting"
  /\ UNCHANGED <<chat, kept, maxTokens, first, sumTokens>>

(* The request failed: _sendTurbo starts over, with a refreshed key or     *)
(* with Try Again, which replaces the question by an equal one.            *)
Restart(t) ==
  /\ pc = "waiting"
  /\ maxTokens' = t
  /\ first' = Len(chat) + 1
  /\ sumTokens' = 0
  /\ pc' = "walking"
  /\ UNCHANGED <<chat, kept, resultMaxTokens>>

(* handleSendTextResponse looks the question up by its id and sets its     *)
(* usageTokens; a filtered one is no part of chat.                         *)
WithUsage(u) == IF kept THEN [chat EXCEPT ![Len(chat)].usageTokens = u] ELSE chat

(* Mutant: both get the tokens of the answer.                              *)
RespondCompletionTokens(prompt, answer, passes) ==
  /\ pc = "waiting"
  /\ prompt = SizeFrom(chat, first)
  /\ answer <= resultMaxTokens
  /\ chat' = WithUsage(answer) \o Filtered(Item(answer, answer), passes)
  /\ pc' = "idle"
  /\ UNCHANGED <<kept, maxTokens, first, sumTokens, resultMaxTokens>>

(* handleSendTextResponse: the question gets the tokens of the prompt, the *)
(* answer its own; the answer may contain a text that is filtered, too.    *)
Respond(prompt, answer, passes) ==
  /\ pc = "waiting"
  /\ prompt = SizeFrom(chat, first)
  /\ answer <= resultMaxTokens
  /\ chat' = WithUsage(prompt) \o Filtered(Item(answer, answer), passes)
  /\ pc' = "idle"
  /\ UNCHANGED <<kept, maxTokens, first, sumTokens, resultMaxTokens>>

(* The chat is left, answered or not, and a new one is started.            *)
NewChat ==
  /\ pc # "walking"
  /\ chat' = <<>>
  /\ pc' = "idle"
  /\ UNCHANGED <<kept, maxTokens, first, sumTokens, resultMaxTokens>>

Next ==
  \/ \E s \in Sizes, b \in BOOLEAN, t \in MaxTokenSettings : Ask(s, b, t)
  \/ \E s, a \in Sizes, b, d \in BOOLEAN : AskAboutImage(s, b, a, d)
  \/ \E s \in Sizes : Command(s)
  \/ Take
  \/ Stop
  \/ \E t \in MaxTokenSettings : Restart(t)
  \/ \E p \in 0 .. ContextTokens, a \in Sizes, b \in BOOLEAN : Respond(p, a, b)
  \/ NewChat

Spec == Init /\ [][Next]_vars

-----------------------------------------------------------------------------
(* What a request reserves adds up: the counted prompt, the reserve and    *)
(* the longest answer fit the model, and the answer may be at least half   *)
(* of what the plan allows.  Int(maxTokens * 0.5) and min(...) are what    *)
(* this hangs on.                                                          *)
Budget ==
  pc = "waiting" =>
    /\ sumTokens + AddTokens + resultMaxTokens <= ModelMaxTokens
    /\ resultMaxTokens >= maxTokens \div 2

(* The loop never cuts off the question it was started for, however long   *)
(* the conversation: a new question has usage 0.  A question the filter of *)
(* _sendText removed (a malformed temperature command, or one that quotes  *)
(* its reply) is not sent, and when the last answer exceeds the budget the *)
(* request then goes out empty.                                            *)
QuestionSent == pc = "waiting" /\ kept => first <= Len(chat)

(* The loop finds the longest run of newest messages whose usage fits, and *)
(* sumTokens is that run's usage.                                          *)
LongestWindow ==
  pc = "waiting" =>
    /\ sumTokens = UsageFrom(chat, first)
    /\ \A k \in 1 .. Len(chat) :
         k >= first <=> UsageFrom(chat, k) <= AvailableTokens(maxTokens)

(* The prompt the service really gets is no larger than the budget, but    *)
(* for the messages that carry no usage: the newest question, those about  *)
(* images and temperature commands that pass the filter.                   *)
PromptFits ==
  pc = "waiting" =>
    SizeFrom(chat, first)
      <= AvailableTokens(maxTokens) + SumFrom(UncountedOf(chat), first)

(* "AI remembers chat history": a conversation that would fit is sent      *)
(* whole.  The code counts earlier messages once more with every answered  *)
(* question and forgets them too early.                                    *)
RemembersWhatFits ==
  pc = "waiting" /\ SizeFrom(chat, 1) <= AvailableTokens(maxTokens) => first = 1
=============================================================================
