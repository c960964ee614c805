--------------------------- MODULE ChatStoreProofs ---------------------------
(***************************************************************************)
(* The chat history for any number of chats, messages and steps of the     *)
(* clock.                                                                  *)
(***************************************************************************)
EXTENDS ChatStore, SequenceTheorems, WellFoundedInduction, NaturalsInduction, TLAPS

(* A conversation starts with a question; it ends in one exactly while     *)
(* that is in flight or has failed, and there is an answer before it.      *)
Turns(m, busy) ==
  /\ m # <<>> => m[1].isMy
  /\ busy => m # <<>>
  /\ m # <<>> => (m[Len(m)].isMy <=> busy)
  /\ busy /\ Len(m) > 1 => ~m[Len(m) - 1].isMy

Busy == isLoading \/ isAnswerError

(* The rows of a chat that was saved with its times in order.              *)
RowsInv ==
  \A c \in ChatIds \ scrambled :
    /\ Ascending(rows[c])
    /\ rows[c] # <<>> => rows[c][1].isMy /\ ~rows[c][Len(rows[c])].isMy

(* The screen: what is stored of such a chat is in the conversation.       *)
ScreenInv ==
  /\ ~open => chat = NoChat /\ messages = <<>>
  /\ showDeleteChatButton \/ deleted => open /\ chat # NoChat
  /\ ~(isLoading /\ isAnswerError)
  /\ Busy => messages # <<>>
  /\ open /\ chat \notin scrambled => Turns(messages, Busy)
  /\ open /\ chat \in ChatIds \ scrambled =>
       rows[chat] # <<>> /\ ~deleted /\ Len(messages) >= 2

(* As long as the clock has not been set back, times are in order.         *)
Before(s, t) == \A i \in 1 .. Len(s) : s[i].created <= t
TimesInv ==
  setBacks = 0 =>
    /\ scrambled = {}
    /\ Ascending(messages) /\ Before(messages, clock)
    /\ \A c \in ChatIds : Before(rows[c], clock)

Inv == TypeOK /\ RowsInv /\ ScreenInv /\ TimesInv

-----------------------------------------------------------------------------
(* A set of natural numbers that is not empty has a least element.         *)
LEMMA FirstOf ==
  ASSUME NEW S, S \subseteq Nat, S # {}
  PROVE  \E i \in S : \A j \in S : i <= j
<1> DEFINE less == OpToRel(<, Nat)
<1>1. \A i \in Nat, j \in Nat : j < i => <<j, i>> \in less
  BY Zenon DEF OpToRel
<1>2. IsWellFoundedOn(less, Nat)
  BY NatLessThanWellFounded, Zenon
<1> HIDE DEF less
<1>3. PICK i \in S : \A j \in S : ~(<<j, i>> \in less)
  BY <1>2, WFMin
<1>4. ASSUME NEW j \in S PROVE i <= j
  <2>1. i \in Nat /\ j \in Nat
    OBVIOUS
  <2>2. ~(j < i)
    BY <1>1, <1>3, <2>1, Zenon
  <2> QED
    BY <2>1, <2>2
<1> QED
  BY <1>4

(* Induction over the natural numbers up to n: the set of those for which  *)
(* a statement holds contains 0 and, with each of them, the next.          *)
LEMMA UpTo ==
  ASSUME NEW n \in Nat, NEW S, 0 \in S, \A m \in 0 .. n - 1 : m \in S => m + 1 \in S
  PROVE  0 .. n \subseteq S
<1> DEFINE bad == {m \in 0 .. n : m \notin S}
<1> SUFFICES ASSUME bad # {} PROVE FALSE
  OBVIOUS
<1>1. bad \subseteq Nat
  OBVIOUS
<1>2. PICK m \in bad : \A j \in bad : m <= j
  <2> HIDE DEF bad
  <2> QED
    BY <1>1, FirstOf
<1>3. m \in 1 .. n /\ m \notin S
  OBVIOUS
<1>4. m - 1 \in 0 .. n - 1 /\ m - 1 \notin bad
  BY <1>2, <1>3
<1>5. m - 1 \in S
  BY <1>4
<1> QED
  BY <1>3, <1>4, <1>5

(* A map of 1 .. n into itself that keeps the order is the identity.       *)
LEMMA IncreasingIsIdentity ==
  ASSUME NEW n \in Nat, NEW p \in [1 .. n -> 1 .. n],
         \A i, j \in 1 .. n : i < j => p[i] < p[j]
  PROVE  \A i \in 1 .. n : p[i] = i
<1> DEFINE S == {m \in 0 .. n : \A i \in 1 .. m : p[i] >= i}
           T == {m \in 0 .. n : \A i \in n + 1 - m .. n : p[i] <= i}
<1>1. 0 \in S /\ 0 \in T
  OBVIOUS
<1>2. ASSUME NEW m \in 0 .. n - 1, m \in S PROVE m + 1 \in S
  <2>1. m + 1 \in 0 .. n /\ m + 1 \in 1 .. n /\ p[m + 1] \in 1 .. n
    OBVIOUS
  <2>2. p[m + 1] >= m + 1
    <3>1. CASE m = 0
      BY <2>1, <3>1
    <3>2. CASE m # 0
      <4>1. m \in 1 .. n /\ m \in 1 .. m /\ p[m] \in 1 .. n /\ m < m + 1
        BY <3>2
      <4>2. p[m] < p[m + 1] /\ p[m] >= m
        BY <1>2, <2>1, <4>1
      <4> QED
        BY <2>1, <4>1, <4>2
    <3> QED
      BY <3>1, <3>2
  <2>3. ASSUME NEW i \in 1 .. m + 1 PROVE p[i] >= i
    <3>1. i \in 1 .. m \/ i = m + 1
      OBVIOUS
    <3> QED
      BY <1>2, <2>2, <3>1
  <2> QED
    BY <2>1, <2>3
<1>3. ASSUME NEW m \in 0 .. n - 1, m \in T PROVE m + 1 \in T
  <2>1. m + 1 \in 0 .. n /\ n - m \in 1 .. n /\ p[n - m] \in 1 .. n /\ n + 1 - (m + 1) = n - m
    OBVIOUS
  <2>2. p[n - m] <= n - m
    <3>1. CASE m = 0
      BY <2>1, <3>1
    <3>2. CASE m # 0
      <4>1. /\ n + 1 - m \in 1 .. n /\ n + 1 - m \in n + 1 - m .. n
            /\ p[n + 1 - m] \in 1 .. n /\ n - m < n + 1 - m
        BY <3>2
      <4>2. p[n - m] < p[n + 1 - m] /\ p[n + 1 - m] <= n + 1 - m
        BY <1>3, <2>1, <4>1
      <4> QED
        BY <2>1, <4>1, <4>2
    <3> QED
      BY <3>1, <3>2
  <2>3. ASSUME NEW i \in n - m .. n PROVE p[i] <= i
    <3>1. i \in n + 1 - m .. n \/ i = n - m
      BY <2>1
    <3> QED
      BY <1>3, <2>2, <3>1
  <2> QED
    BY <2>1, <2>3
<1>4. 0 .. n \subseteq S /\ 0 .. n \subseteq T
  <2> HIDE DEF S, T
  <2> QED
    BY <1>1, <1>2, <1>3, UpTo
<1>5. n \in S /\ n \in T
  <2>1. n \in 0 .. n
    OBVIOUS
  <2> QED
    BY <1>4, <2>1
<1>6. ASSUME NEW i \in 1 .. n PROVE p[i] = i
  <2>1. p[i] >= i /\ p[i] <= i /\ p[i] \in 1 .. n
    BY <1>5
  <2> QED
    BY <2>1
<1> QED
  BY <1>6

LEMMA MessagesTyped ==
  ASSUME NEW s \in Seq(Message)
  PROVE  /\ Len(s) \in Nat /\ DOMAIN s = 1 .. Len(s)
         /\ \A i \in 1 .. Len(s) :
              s[i] \in Message /\ s[i].created \in Nat /\ s[i].isMy \in BOOLEAN
<1>1. Len(s) \in Nat /\ DOMAIN s = 1 .. Len(s)
  OBVIOUS
<1>2. ASSUME NEW i \in 1 .. Len(s) PROVE s[i] \in Message
  BY ElementOfSeq
<1>3. \A m \in Message : m.created \in Nat /\ m.isMy \in BOOLEAN
  BY ChatStoreAssumption DEF Message
<1> QED
  BY <1>1, <1>2, <1>3

(* Sorting gives a conversation of the same length.                        *)
LEMMA SortedTyped ==
  ASSUME NEW s \in Seq(Message), NEW t \in Sorted(s)
  PROVE  t \in Seq(Message) /\ Len(t) = Len(s)
<1>1. PICK p \in Bijection(DOMAIN s, DOMAIN s) : t = [i \in DOMAIN s |-> s[p[i]]]
  BY DEF Sorted
<1>2. p \in [DOMAIN s -> DOMAIN s]
  BY DEF Bijection, Injection, Surjection
<1>3. Len(s) \in Nat /\ DOMAIN s = 1 .. Len(s) /\ \A i \in 1 .. Len(s) : s[i] \in Message
  BY MessagesTyped
<1>4. t \in [1 .. Len(s) -> Message]
  BY <1>1, <1>2, <1>3
<1> QED
  BY <1>3, <1>4

(* Rows whose times are in order have one order by time, their own.        *)
LEMMA SortedAscending ==
  ASSUME NEW s \in Seq(Message), Ascending(s)
  PROVE  Sorted(s) = {s}
<1> DEFINE n == Len(s)
<1>0. n \in Nat /\ DOMAIN s = 1 .. n /\ \A i \in 1 .. n : s[i].created \in Nat
  BY MessagesTyped
<1>1. \A i, j \in 1 .. n : i < j => s[i].created < s[j].created
  BY <1>0 DEF Ascending
<1>2. s = [i \in 1 .. n |-> s[i]]
  BY <1>0
<1> HIDE DEF n
<1>3. ASSUME NEW t \in Sorted(s) PROVE t = s
  <2>1. PICK p \in Bijection(1 .. n, 1 .. n) : t = [i \in 1 .. n |-> s[p[i]]]
    BY <1>0 DEF Sorted
  <2>2. /\ p \in [1 .. n -> 1 .. n]
        /\ \A i, j \in 1 .. n : p[i] = p[j] => i = j
    BY DEF Bijection, Injection, Surjection, IsInjective
  <2>3. \A i, j \in 1 .. n : i < j => t[i].created <= t[j].created
    <3>1. DOMAIN t = 1 .. n
      BY <2>1
    <3> QED
      BY <3>1 DEF Sorted
  <2>4. ASSUME NEW i \in 1 .. n, NEW j \in 1 .. n, i < j PROVE p[i] < p[j]
    <3>1. p[i] \in 1 .. n /\ p[j] \in 1 .. n /\ i # j
      BY <2>2, <2>4
    <3>2. p[i] # p[j]
      BY <2>2, <3>1
    <3>3. s[p[i]].created <= s[p[j]].created
      BY <2>1, <2>3, <2>4
    <3>4. ~(p[j] < p[i])
      BY <1>0, <1>1, <3>1, <3>3
    <3> QED
      BY <3>1, <3>2, <3>4
  <2>5. \A i \in 1 .. n : p[i] = i
    BY <1>0, <2>2, <2>4, IncreasingIsIdentity
  <2> QED
    BY <1>2, <2>1, <2>5
<1>4. s \in Sorted(s)
  <2> DEFINE p == [i \in 1 .. n |-> i]
  <2>1. p \in Bijection(1 .. n, 1 .. n)
    BY DEF Bijection, Injection, Surjection, IsInjective
  <2>2. s = [i \in 1 .. n |-> s[p[i]]]
    BY <1>2
  <2>3. \A i, j \in 1 .. n : i < j => s[i].created <= s[j].created
    BY <1>0, <1>1
  <2> HIDE DEF p
  <2> QED
    BY <1>0, <2>1, <2>2, <2>3 DEF Sorted
<1> QED
  BY <1>3, <1>4

-----------------------------------------------------------------------------
LEMMA FrontPrefix ==
  ASSUME NEW s \in Seq(Message), s # <<>>
  PROVE  /\ Len(s) \in 1 .. Len(s) /\ Last(s) = s[Len(s)]
         /\ Front(s) \in Seq(Message) /\ Len(Front(s)) = Len(s) - 1
         /\ \A i \in 1 .. Len(s) - 1 : Front(s)[i] = s[i]
<1>0. Len(s) \in Nat /\ Len(s) \in 1 .. Len(s) /\ \A k \in 1 .. Len(s) : s[k] \in Message
  BY ElementOfSeq, EmptySeq, LenProperties
<1>1. 1 \in Int /\ Len(s) - 1 \in Int /\ \A j \in 1 .. Len(s) - 1 : s[j] \in Message
  BY <1>0
<1> DEFINE n == Len(s)
           f == SubSeq(s, 1, n - 1)
<1>2. /\ f \in Seq(Message) /\ Len(f) = IF 1 <= n - 1 THEN (n - 1) - 1 + 1 ELSE 0
      /\ \A i \in 1 .. (n - 1) - 1 + 1 : f[i] = s[1 + i - 1]
  BY <1>1, SubSeqProperties
<1>3. f = Front(s) /\ n \in Nat /\ n \in 1 .. n
  BY <1>0 DEF Front
<1> HIDE DEF f, n
<1>4. Len(f) = n - 1
  BY <1>2, <1>3
<1>5. ASSUME NEW i \in 1 .. n - 1 PROVE f[i] = s[i]
  <2>1. i \in 1 .. (n - 1) - 1 + 1 /\ 1 + i - 1 = i
    BY <1>3
  <2> QED
    BY <1>2, <2>1
<1> QED
  BY <1>0, <1>2, <1>3, <1>4, <1>5 DEF n, Last

(* What is kept is the conversation or all of it but its last question.    *)
LEMMA KeptPrefix ==
  ASSUME messages \in Seq(Message)
  PROVE  /\ Kept \in Seq(Message) /\ Len(Kept) \in Nat /\ Len(Kept) <= Len(messages)
         /\ \A i \in 1 .. Len(Kept) : Kept[i] = messages[i]
<1>0. Len(messages) \in Nat
  OBVIOUS
<1>1. CASE messages # <<>> /\ Last(messages).isMy
  <2>1. Kept = Front(messages)
    BY <1>1 DEF Kept
  <2>2. /\ Front(messages) \in Seq(Message) /\ Len(Front(messages)) = Len(messages) - 1
        /\ \A i \in 1 .. Len(messages) - 1 : Front(messages)[i] = messages[i]
        /\ Len(messages) \in 1 .. Len(messages)
    BY <1>1, FrontPrefix
  <2> HIDE DEF Kept
  <2> QED
    BY <1>0, <2>1, <2>2
<1>2. CASE ~(messages # <<>> /\ Last(messages).isMy)
  <2>1. Kept = messages
    BY <1>2 DEF Kept
  <2> QED
    BY <1>0, <2>1
<1> QED
  BY <1>1, <1>2

LEMMA KeptTimes ==
  ASSUME messages \in Seq(Message)
  PROVE  /\ Ascending(messages) => Ascending(Kept)
         /\ Before(messages, clock) => Before(Kept, clock)
<1>1. /\ Kept \in Seq(Message) /\ Len(Kept) \in Nat /\ Len(Kept) <= Len(messages)
      /\ \A i \in 1 .. Len(Kept) : Kept[i] = messages[i]
  BY KeptPrefix
<1>2. DOMAIN Kept = 1 .. Len(Kept) /\ DOMAIN messages = 1 .. Len(messages)
      /\ Len(messages) \in Nat
  BY <1>1
<1>3. \A i \in 1 .. Len(Kept) : i \in 1 .. Len(messages)
  BY <1>1, <1>2
<1> HIDE DEF Kept
<1> QED
  BY <1>1, <1>2, <1>3 DEF Ascending, Before

(* In a conversation in turns, what is kept has a question unless it is    *)
(* empty, and ends in an answer.                                           *)
LEMMA KeptTurns ==
  ASSUME messages \in Seq(Message), Turns(messages, Busy)
  PROVE  /\ Kept # <<>> => /\ Kept[1].isMy /\ ~Kept[Len(Kept)].isMy
                           /\ Len(messages) >= 2
                           /\ \E i \in DOMAIN Kept : Kept[i].isMy
         /\ Len(messages) >= 2 => Kept # <<>>
<1> DEFINE n == Len(messages)
<1>0. n \in Nat /\ DOMAIN messages = 1 .. n /\ (messages # <<>> => n \in 1 .. n)
      /\ Len(<<>>) = 0
  BY EmptySeq, LenProperties
<1>1. CASE messages = <<>>
  <2>1. Kept = <<>>
    BY <1>1 DEF Kept
  <2> QED
    BY <1>0, <1>1, <2>1
<1>2. CASE messages # <<>> /\ messages[n].isMy
  <2>1. Kept = Front(messages)
    BY <1>2 DEF Kept, Last
  <2>2. /\ Kept \in Seq(Message) /\ Len(Kept) = n - 1
        /\ \A i \in 1 .. n - 1 : Kept[i] = messages[i]
    BY <1>2, <2>1, FrontPrefix
  <2>3. Busy
    BY <1>2 DEF Turns
  <2> HIDE DEF Kept
  <2>4. ASSUME Kept # <<>>
        PROVE  Kept[1].isMy /\ ~Kept[Len(Kept)].isMy /\ n >= 2 /\ \E i \in DOMAIN Kept : Kept[i].isMy
    <3>1. Len(Kept) \in Nat /\ Len(Kept) # 0 /\ DOMAIN Kept = 1 .. Len(Kept)
      BY <2>2, <2>4, EmptySeq, LenProperties
    <3> HIDE DEF n
    <3>2. n >= 2 /\ n > 1 /\ 1 \in 1 .. n - 1 /\ n - 1 \in 1 .. n - 1 /\ 1 \in DOMAIN Kept
      BY <1>0, <2>2, <3>1
    <3>3. messages[1].isMy /\ ~messages[n - 1].isMy
      BY <1>2, <2>3, <3>2 DEF Turns, n
    <3>4. Kept[1] = messages[1] /\ Kept[Len(Kept)] = messages[n - 1]
      BY <2>2, <3>2
    <3> QED
      BY <3>2, <3>3, <3>4
  <2>5. ASSUME n >= 2 PROVE Kept # <<>>
    <3>1. Len(Kept) # 0
      BY <1>0, <2>2, <2>5
    <3> QED
      BY <1>0, <3>1
  <2> QED
    BY <2>4, <2>5
<1>3. CASE messages # <<>> /\ ~messages[n].isMy
  <2>1. Kept = messages
    BY <1>3 DEF Kept, Last
  <2>2. messages[1].isMy
    BY <1>3 DEF Turns
  <2>3. n # 1 /\ n \in 1 .. n
    BY <1>0, <1>3, <2>2
  <2>4. n >= 2 /\ 1 \in 1 .. n
    BY <1>0, <2>3
  <2> QED
    BY <1>0, <1>3, <2>1, <2>2, <2>4
<1> QED
  BY <1>1, <1>2, <1>3

-----------------------------------------------------------------------------
(* With its times in order, an open conversation is saved as it is kept,   *)
(* and not at all only while nothing of it was ever stored.                *)
LEMMA SaveArchives ==
  ASSUME Inv, open, chat \notin scrambled, NEW c \in ChatIds \cup {NoChat}, SaveChat(c)
  PROVE  \/ Kept = <<>> /\ chat = NoChat /\ c = NoChat /\ rows' = rows
         \/ /\ Kept # <<>> /\ c \in ChatIds /\ Len(messages) >= 2
            /\ c = chat \/ (chat = NoChat /\ rows[c] = <<>>)
            /\ rows' = [rows EXCEPT ![c] = Kept]
<1> DEFINE question == \E i \in DOMAIN Kept : Kept[i].isMy
<1>0. /\ rows \in [ChatIds -> Seq(Message)] /\ messages \in Seq(Message)
      /\ chat \in ChatIds \cup {NoChat} /\ NoChat \notin ChatIds
  BY ChatStoreAssumption DEF Inv, TypeOK
<1>1. /\ Kept # <<>> => Len(messages) >= 2 /\ question
      /\ Len(messages) >= 2 => Kept # <<>>
  BY <1>0, KeptTurns DEF Inv, ScreenInv
<1>2. /\ chat \in ChatIds => ~deleted /\ Len(messages) >= 2
      /\ deleted => chat # NoChat
  BY DEF Inv, ScreenInv
<1>3. CASE question
  <2>1. /\ c \in ChatIds /\ (c = chat \/ (chat = NoChat /\ rows[c] = <<>>))
        /\ rows' = [rows EXCEPT ![c] = Kept] \/ deleted
    BY <1>3 DEF SaveChat
  <2>2. Kept # <<>>
    BY <1>3
  <2> HIDE DEF Kept, question
  <2> QED
    BY <1>0, <1>1, <1>2, <2>1, <2>2
<1>4. CASE ~question
  <2>1. c = chat /\ rows' = [d \in ChatIds |-> IF d = chat THEN <<>> ELSE rows[d]]
    BY <1>4 DEF SaveChat
  <2> HIDE DEF Kept, question
  <2>2. Kept = <<>> /\ chat = NoChat
    BY <1>0, <1>1, <1>2, <1>4
  <2>3. \A d \in ChatIds : rows'[d] = rows[d]
    BY <1>0, <2>1, <2>2
  <2>4. rows' = [d \in ChatIds |-> rows'[d]] /\ rows = [d \in ChatIds |-> rows[d]]
    BY <1>0, <2>1
  <2>5. rows' = rows
    BY <2>3, <2>4
  <2> QED
    BY <2>1, <2>2, <2>5
<1> QED
  BY <1>3, <1>4

(* saveChat, with any outcome: rows stay well formed, no chat whose times  *)
(* were in order is lost, and the conversation goes on with what it kept.  *)
LEMMA SaveKeeps ==
  ASSUME Inv, open, NEW c \in ChatIds \cup {NoChat}, SaveChat(c)
  PROVE  /\ rows' \in [ChatIds -> Seq(Message)]
         /\ scrambled' \subseteq ChatIds /\ scrambled \subseteq scrambled'
         /\ RowsInv'
         /\ setBacks = 0 => scrambled' = {} /\ \A d \in ChatIds : Before(rows'[d], clock)
         /\ c \notin scrambled' => chat \notin scrambled
         /\ c \in ChatIds \ scrambled' => rows'[c] # <<>> /\ Len(messages) >= 2
         /\ \A d \in ChatIds \ scrambled : rows[d] # <<>> => rows'[d] # <<>>
<1> DEFINE question == \E i \in DOMAIN Kept : Kept[i].isMy
<1>0. /\ rows \in [ChatIds -> Seq(Message)] /\ scrambled \subseteq ChatIds
      /\ messages \in Seq(Message) /\ chat \in ChatIds \cup {NoChat}
      /\ NoChat \notin ChatIds
  BY ChatStoreAssumption DEF Inv, TypeOK
<1>1. Kept \in Seq(Message) /\ (Ascending(messages) => Ascending(Kept))
      /\ (Before(messages, clock) => Before(Kept, clock))
  BY <1>0, KeptPrefix, KeptTimes
<1>2. chat \notin scrambled =>
        /\ Kept # <<>> => /\ Kept[1].isMy /\ ~Kept[Len(Kept)].isMy
                          /\ Len(messages) >= 2 /\ question
        /\ Len(messages) >= 2 => Kept # <<>>
  BY <1>0, KeptTurns DEF Inv, ScreenInv
<1>3. /\ \A d \in ChatIds \ scrambled :
           /\ Ascending(rows[d])
           /\ rows[d] # <<>> => rows[d][1].isMy /\ ~rows[d][Len(rows[d])].isMy
      /\ chat \in ChatIds \ scrambled => Len(messages) >= 2
      /\ setBacks = 0 => /\ scrambled = {} /\ Ascending(Kept) /\ Before(Kept, clock)
                         /\ \A d \in ChatIds : Before(rows[d], clock)
  BY <1>1 DEF Inv, RowsInv, ScreenInv, TimesInv
<1>4. CASE question
  <2>1. /\ c \in ChatIds /\ (c = chat \/ (chat = NoChat /\ rows[c] = <<>>))
        /\ rows' = [rows EXCEPT ![c] = Kept] \/ rows' = rows
        /\ scrambled' = IF Ascending(Kept) THEN scrambled ELSE scrambled \cup {c}
    BY <1>4 DEF SaveChat
  <2>2. Kept # <<>>
    BY <1>4
  <2> HIDE DEF Kept, question
  <2>3. c \notin scrambled' => chat \notin scrambled /\ Ascending(Kept)
    BY <1>0, <2>1
  <2>4. \A d \in ChatIds : rows'[d] = rows[d] \/ (d = c /\ rows'[d] = Kept)
    BY <1>0, <2>1
  <2>5. rows' \in [ChatIds -> Seq(Message)]
    BY <1>0, <1>1, <2>1
  <2>6. scrambled' \subseteq ChatIds /\ scrambled \subseteq scrambled'
    BY <1>0, <2>1
  <2>7. RowsInv'
    <3>1. ASSUME NEW d \in ChatIds \ scrambled'
          PROVE  /\ Ascending(rows'[d])
                 /\ rows'[d] # <<>> => rows'[d][1].isMy /\ ~rows'[d][Len(rows'[d])].isMy
      <4>1. CASE rows'[d] = rows[d]
        BY <1>3, <2>6, <4>1
      <4>2. CASE d = c /\ rows'[d] = Kept
        BY <1>2, <2>2, <2>3, <4>2
      <4> QED
        BY <2>4, <4>1, <4>2
    <3> QED
      BY <3>1 DEF RowsInv, Ascending
  <2>8. setBacks = 0 => scrambled' = {} /\ \A d \in ChatIds : Before(rows'[d], clock)
    BY <1>3, <2>1, <2>4
  <2>9. ASSUME c \in ChatIds \ scrambled' PROVE rows'[c] # <<>> /\ Len(messages) >= 2
    <3>1. rows' = [rows EXCEPT ![c] = Kept] /\ Len(messages) >= 2
      BY <2>2, <2>3, <2>9, SaveArchives
    <3> QED
      BY <1>0, <2>2, <2>9, <3>1
  <2>10. \A d \in ChatIds \ scrambled : rows[d] # <<>> => rows'[d] # <<>>
    BY <2>2, <2>4
  <2> QED
    BY <2>3, <2>5, <2>6, <2>7, <2>8, <2>9, <2>10
<1>5. CASE ~question
  <2>1. /\ c = chat /\ scrambled' = scrambled
        /\ rows' = [d \in ChatIds |-> IF d = chat THEN <<>> ELSE rows[d]]
    BY <1>5 DEF SaveChat
  <2> HIDE DEF Kept, question
  <2>2. <<>> \in Seq(Message) /\ Ascending(<<>>) /\ Before(<<>>, clock)
    BY DEF Ascending, Before
  <2>3. \A d \in ChatIds : rows'[d] = IF d = chat THEN <<>> ELSE rows[d]
    BY <2>1
  <2>4. rows' \in [ChatIds -> Seq(Message)]
    BY <1>0, <2>1, <2>2
  <2>5. RowsInv'
    <3>1. ASSUME NEW d \in ChatIds \ scrambled'
          PROVE  /\ Ascending(rows'[d])
                 /\ rows'[d] # <<>> => rows'[d][1].isMy /\ ~rows'[d][Len(rows'[d])].isMy
      BY <1>3, <2>1, <2>2, <2>3
    <3> QED
      BY <3>1 DEF RowsInv, Ascending
  <2>6. setBacks = 0 => scrambled' = {} /\ \A d \in ChatIds : Before(rows'[d], clock)
    BY <1>3, <2>1, <2>2, <2>3
  <2>7. c \notin ChatIds \ scrambled'
    BY <1>2, <1>3, <1>5, <2>1
  <2>8. ASSUME NEW d \in ChatIds \ scrambled, rows[d] # <<>> PROVE rows'[d] # <<>>
    <3>1. d # chat
      BY <1>2, <1>3, <1>5, <2>8
    <3> QED
      BY <2>3, <2>8, <3>1
  <2> QED
    BY <1>0, <2>1, <2>4, <2>5, <2>6, <2>7, <2>8
<1> QED
  BY <1>4, <1>5

(* A message made now comes after the ones before it.                      *)
LEMMA SaysKeeps ==
  ASSUME TypeOK, NEW m \in Seq(Message), NEW isMy \in BOOLEAN, Says(m, isMy)
  PROVE  /\ clock' \in 0 .. MaxClock /\ clock <= clock' /\ said' \in 0 .. MaxSaid
         /\ messages' \in Seq(Message) /\ messages' # <<>>
         /\ Len(messages') = Len(m) + 1 /\ messages'[Len(m) + 1].isMy = isMy
         /\ \A i \in 1 .. Len(m) : messages'[i] = m[i]
         /\ \E x \in Message : x.isMy = isMy /\ messages' = Append(m, x)
         /\ Ascending(m) /\ Before(m, clock) => Ascending(messages') /\ Before(messages', clock')
<1> DEFINE x == [id |-> said', isMy |-> isMy, created |-> clock']
<1>0. /\ clock \in 0 .. MaxClock /\ clock < MaxClock /\ clock' = clock + 1
      /\ said \in 0 .. MaxSaid /\ said < MaxSaid /\ said' = said + 1
      /\ MaxClock \in Nat /\ MaxSaid \in Nat /\ messages' = Append(m, x)
  BY ChatStoreAssumption DEF TypeOK, Says
<1>1. clock' \in 0 .. MaxClock /\ clock' \in 1 .. MaxClock /\ clock < clock' /\ clock <= clock'
      /\ said' \in 0 .. MaxSaid /\ said' \in 1 .. MaxSaid
  BY <1>0
<1>2. x \in Message /\ x.isMy = isMy /\ x.created = clock'
  BY <1>1 DEF Message
<1> HIDE DEF x
<1>3. /\ messages' \in Seq(Message) /\ messages' # <<>> /\ Len(messages') = Len(m) + 1
      /\ \A i \in 1 .. Len(m) : messages'[i] = m[i]
      /\ messages'[Len(m) + 1] = x
  BY <1>0, <1>2, AppendProperties
<1>4. Len(m) \in Nat /\ DOMAIN m = 1 .. Len(m) /\ DOMAIN messages' = 1 .. Len(m) + 1
      /\ \A i \in 1 .. Len(m) : m[i].created \in Nat
  BY <1>3, MessagesTyped
<1>5. ASSUME Ascending(m), Before(m, clock) PROVE Ascending(messages') /\ Before(messages', clock')
  <2>1. ASSUME NEW i \in 1 .. Len(m) + 1
        PROVE  /\ messages'[i].created <= clock'
               /\ i \in 1 .. Len(m) => messages'[i].created < clock'
    <3>1. CASE i \in 1 .. Len(m)
      <4>1. messages'[i] = m[i] /\ m[i].created <= clock /\ m[i].created \in Nat
        BY <1>3, <1>4, <1>5, <3>1 DEF Before
      <4> QED
        BY <1>0, <1>1, <4>1
    <3>2. CASE i = Len(m) + 1
      BY <1>1, <1>2, <1>3, <1>4, <3>2
    <3> QED
      BY <1>4, <3>1, <3>2
  <2>2. Before(messages', clock')
    BY <1>3, <2>1 DEF Before
  <2>3. ASSUME NEW i \in 1 .. Len(m) + 1, NEW j \in 1 .. Len(m) + 1, i < j
        PROVE  messages'[i].created < messages'[j].created
    <3>1. i \in 1 .. Len(m)
      BY <1>4, <2>3
    <3>2. CASE j \in 1 .. Len(m)
      BY <1>3, <1>4, <1>5, <2>3, <3>1, <3>2 DEF Ascending
    <3>3. CASE j = Len(m) + 1
      BY <1>2, <1>3, <2>1, <3>1, <3>3
    <3> QED
      BY <1>4, <3>2, <3>3
  <2> QED
    BY <1>4, <2>2, <2>3 DEF Ascending
<1> QED
  BY <1>0, <1>1, <1>2, <1>3, <1>5

LEMMA BeforeGrows ==
  ASSUME TypeOK, rows' = rows, clock' \in Nat, clock <= clock',
         \A c \in ChatIds : Before(rows[c], clock)
  PROVE  \A c \in ChatIds : Before(rows'[c], clock')
<1>1. clock \in Nat
  BY ChatStoreAssumption DEF TypeOK
<1>2. ASSUME NEW c \in ChatIds, NEW i \in 1 .. Len(rows[c]) PROVE rows[c][i].created <= clock'
  <2>1. rows[c] \in Seq(Message)
    BY DEF TypeOK
  <2>2. rows[c][i].created \in Nat /\ rows[c][i].created <= clock
    BY <2>1, MessagesTyped DEF Before
  <2> QED
    BY <1>1, <2>2
<1> QED
  BY <1>2 DEF Before

(* A step of the conversation: one more message, after the whole of it or  *)
(* in the place of its last question.                                      *)
LEMMA SayStep ==
  ASSUME Inv, open, NEW m \in Seq(Message), NEW isMy \in BOOLEAN, Says(m, isMy),
         UNCHANGED <<setBacks, screen, deleted, rows, scrambled>>,
         Ascending(messages) => Ascending(m),
         Before(messages, clock) => Before(m, clock),
         isLoading' \in BOOLEAN, isAnswerError' \in BOOLEAN,
         ~(isLoading' /\ isAnswerError'),
         chat \notin scrambled => Turns(messages', Busy'),
         Len(messages) >= 2 => Len(messages') >= 2
  PROVE  Inv'
<1>0. TypeOK /\ UNCHANGED <<setBacks, open, chat, showDeleteChatButton, deleted, rows, scrambled>>
  BY DEF Inv, screen
<1>1. /\ clock' \in 0 .. MaxClock /\ clock <= clock' /\ said' \in 0 .. MaxSaid
      /\ messages' \in Seq(Message) /\ messages' # <<>>
      /\ Ascending(m) /\ Before(m, clock) => Ascending(messages') /\ Before(messages', clock')
  BY <1>0, SaysKeeps
<1>2. clock' \in Nat
  BY <1>1, ChatStoreAssumption
<1>3. TypeOK'
  BY <1>0, <1>1, Zenon DEF TypeOK
<1>4. RowsInv'
  BY <1>0 DEF Inv, RowsInv
<1>5. ScreenInv'
  <2>1. open /\ chat \in ChatIds \ scrambled => rows[chat] # <<>> /\ ~deleted /\ Len(messages) >= 2
    BY DEF Inv, ScreenInv
  <2>2. open' /\ chat' \notin scrambled' => Turns(messages', Busy')
    BY <1>0
  <2>3. open' /\ chat' \in ChatIds \ scrambled' => rows'[chat'] # <<>> /\ ~deleted' /\ Len(messages') >= 2
    BY <1>0, <2>1
  <2>4. /\ ~open' => chat' = NoChat /\ messages' = <<>>
        /\ showDeleteChatButton' \/ deleted' => open' /\ chat' # NoChat
    BY <1>0 DEF Inv, ScreenInv
  <2>5. Turns(messages', Busy') <=> Turns(messages, Busy)'
    BY DEF Turns, Busy
  <2> QED
    BY <1>1, <2>2, <2>3, <2>4, <2>5, Zenon DEF ScreenInv
<1>6. TimesInv'
  <2>1. SUFFICES ASSUME setBacks' = 0
                 PROVE  /\ scrambled' = {}
                        /\ Ascending(messages') /\ Before(messages', clock')
                        /\ \A c \in ChatIds : Before(rows'[c], clock')
    BY Zenon DEF TimesInv, Ascending, Before
  <2>2. scrambled = {} /\ Ascending(messages) /\ Before(messages, clock)
        /\ \A c \in ChatIds : Before(rows[c], clock)
    BY <1>0, <2>1 DEF Inv, TimesInv
  <2>3. \A c \in ChatIds : Before(rows'[c], clock')
    BY <1>0, <1>1, <1>2, <2>2, BeforeGrows
  <2> QED
    BY <1>0, <1>1, <2>2, <2>3
<1> QED
  BY <1>3, <1>4, <1>5, <1>6 DEF Inv

LEMMA AskKeeps ==
  ASSUME Inv, Ask
  PROVE  Inv'
<1>1. /\ open /\ ~isLoading /\ ~isAnswerError /\ Says(messages, TRUE)
      /\ isLoading' = TRUE /\ isAnswerError' = isAnswerError
      /\ UNCHANGED <<setBacks, screen, deleted, rows, scrambled>>
      /\ TypeOK /\ messages \in Seq(Message) /\ Len(messages) \in Nat
  <2>1. UNCHANGED <<setBacks, screen, deleted, rows, scrambled>> /\ isAnswerError' = isAnswerError
    BY Zenon DEF Ask
  <2>2. TypeOK /\ messages \in Seq(Message) /\ Len(messages) \in Nat
    BY DEF Inv, TypeOK
  <2> QED
    BY <2>1, <2>2, Zenon DEF Ask
<1>2. /\ messages' # <<>> /\ Len(messages') = Len(messages) + 1
      /\ messages'[Len(messages) + 1].isMy = TRUE
      /\ \A i \in 1 .. Len(messages) : messages'[i] = messages[i]
  BY <1>1, SaysKeeps
<1>3. isLoading' \in BOOLEAN /\ isAnswerError' \in BOOLEAN /\ ~(isLoading' /\ isAnswerError')
  BY <1>1, Zenon DEF TypeOK
<1>4. ASSUME chat \notin scrambled PROVE Turns(messages', Busy')
  <2>1. Turns(messages, Busy) /\ ~Busy
    BY <1>1, <1>4 DEF Inv, ScreenInv, Busy
  <2>2. CASE messages = <<>>
    <3>1. Len(messages) = 0
      BY <2>2
    <3> QED
      BY <1>1, <1>2, <3>1 DEF Turns, Busy
  <2>3. CASE messages # <<>>
    <3>1. Len(messages) \in 1 .. Len(messages) /\ 1 \in 1 .. Len(messages)
      BY <1>1, <2>3, EmptySeq
    <3>2. messages'[1] = messages[1] /\ messages'[Len(messages)] = messages[Len(messages)]
      BY <1>2, <3>1
    <3>3. messages[1].isMy /\ ~messages[Len(messages)].isMy
      BY <2>1, <2>3 DEF Turns
    <3>4. Len(messages') - 1 = Len(messages)
      BY <1>1, <1>2
    <3> QED
      BY <1>1, <1>2, <3>2, <3>3, <3>4 DEF Turns, Busy
  <2> QED
    BY <2>2, <2>3
<1>5. Len(messages) >= 2 => Len(messages') >= 2
  BY <1>1, <1>2
<1> QED
  BY <1>1, <1>3, <1>4, <1>5, SayStep

LEMMA AnswerKeeps ==
  ASSUME Inv, AnswerArrives
  PROVE  Inv'
<1>1. /\ open /\ isLoading /\ Says(messages, FALSE)
      /\ isLoading' = FALSE /\ isAnswerError' = isAnswerError
      /\ UNCHANGED <<setBacks, screen, deleted, rows, scrambled>>
      /\ TypeOK /\ messages \in Seq(Message) /\ Len(messages) \in Nat
  <2>1. UNCHANGED <<setBacks, screen, deleted, rows, scrambled>> /\ isAnswerError' = isAnswerError
    BY Zenon DEF AnswerArrives
  <2>2. TypeOK /\ messages \in Seq(Message) /\ Len(messages) \in Nat
    BY DEF Inv, TypeOK
  <2> QED
    BY <2>1, <2>2, Zenon DEF AnswerArrives
<1>2. /\ messages' # <<>> /\ Len(messages') = Len(messages) + 1
      /\ messages'[Len(messages) + 1].isMy = FALSE
      /\ \A i \in 1 .. Len(messages) : messages'[i] = messages[i]
  BY <1>1, SaysKeeps
<1>3. isLoading' \in BOOLEAN /\ isAnswerError' \in BOOLEAN /\ ~(isLoading' /\ isAnswerError')
  BY <1>1, Zenon DEF TypeOK
<1>4. ASSUME chat \notin scrambled PROVE Turns(messages', Busy')
  <2>1. Turns(messages, Busy) /\ Busy /\ ~isAnswerError
    BY <1>1, <1>4 DEF Inv, ScreenInv, Busy
  <2>2. messages # <<>> /\ messages[1].isMy
    BY <2>1 DEF Turns
  <2>3. 1 \in 1 .. Len(messages)
    BY <1>1, <2>2, EmptySeq
  <2>4. messages'[1].isMy /\ ~Busy'
    BY <1>1, <1>2, <2>1, <2>2, <2>3 DEF Busy
  <2> QED
    BY <1>2, <2>4 DEF Turns
<1>5. Len(messages) >= 2 => Len(messages') >= 2
  BY <1>1, <1>2
<1> QED
  BY <1>1, <1>3, <1>4, <1>5, SayStep

LEMMA TryAgainKeeps ==
  ASSUME Inv, TryAgain
  PROVE  Inv'
<1> DEFINE m == Front(messages)
           n == Len(messages)
<1>1. /\ open /\ isAnswerError /\ Says(m, TRUE)
      /\ isLoading' = TRUE /\ isAnswerError' = FALSE
      /\ UNCHANGED <<setBacks, screen, deleted, rows, scrambled>>
  BY Zenon DEF TryAgain
<1>2. TypeOK /\ messages \in Seq(Message) /\ messages # <<>>
  BY <1>1 DEF Inv, TypeOK, ScreenInv, Busy
<1>3. /\ n \in Nat /\ n \in 1 .. n /\ m \in Seq(Message) /\ Len(m) = n - 1
      /\ \A i \in 1 .. n - 1 : m[i] = messages[i]
  BY <1>2, FrontPrefix
<1>4. DOMAIN m = 1 .. n - 1 /\ DOMAIN messages = 1 .. n /\ \A i \in 1 .. n - 1 : i \in 1 .. n
  BY <1>2, <1>3
<1>5. /\ Ascending(messages) => Ascending(m)
      /\ Before(messages, clock) => Before(m, clock)
  <2> HIDE DEF m, n
  <2>1. Before(messages, clock) => Before(m, clock)
    BY <1>3, <1>4 DEF Before, n
  <2> QED
    BY <1>3, <1>4, <2>1 DEF Ascending
<1> HIDE DEF m
<1>6. /\ messages' # <<>> /\ Len(messages') = Len(m) + 1
      /\ messages'[Len(m) + 1].isMy = TRUE
      /\ \A i \in 1 .. Len(m) : messages'[i] = m[i]
  BY <1>1, <1>2, <1>3, SaysKeeps
<1> HIDE DEF n
<1>7. Len(messages') = n /\ messages'[n].isMy /\ \A i \in 1 .. n - 1 : messages'[i] = messages[i]
  BY <1>3, <1>6
<1>8. isLoading' \in BOOLEAN /\ isAnswerError' \in BOOLEAN /\ ~(isLoading' /\ isAnswerError')
  BY <1>1, Zenon
<1>9. ASSUME chat \notin scrambled PROVE Turns(messages', Busy')
  <2>1. Turns(messages, Busy) /\ Busy /\ Busy'
    BY <1>1, <1>9 DEF Inv, ScreenInv, Busy
  <2>2. CASE n = 1
    <3>1. Len(messages') = 1 /\ messages'[1].isMy /\ ~(1 > 1)
      BY <1>7, <2>2
    <3> QED
      BY <1>6, <2>1, <3>1, Zenon DEF Turns
  <2>3. CASE n # 1
    <3>1. 1 \in 1 .. n - 1 /\ n - 1 \in 1 .. n - 1 /\ n > 1
      BY <1>3, <2>3
    <3>2. messages[1].isMy /\ ~messages[n - 1].isMy
      BY <1>2, <2>1, <3>1 DEF Turns, n
    <3>3. messages'[1].isMy /\ ~messages'[n - 1].isMy
      BY <1>7, <3>1, <3>2
    <3> QED
      BY <1>6, <1>7, <2>1, <3>3 DEF Turns
  <2> QED
    BY <2>2, <2>3
<1>10. Len(messages) >= 2 => Len(messages') >= 2
  BY <1>7 DEF n
<1> QED
  BY <1>1, <1>3, <1>5, <1>8, <1>9, <1>10, SayStep

LEMMA FailKeeps ==
  ASSUME Inv, AnswerFails
  PROVE  Inv'
<1>1. /\ open /\ isLoading /\ isLoading' = FALSE /\ isAnswerError' = TRUE
      /\ UNCHANGED <<clock, setBacks, said, open, chat, showDeleteChatButton,
                     messages, deleted, rows, scrambled>>
  BY Zenon DEF AnswerFails, time, screen
<1>2. TypeOK'
  BY <1>1, Zenon DEF Inv, TypeOK
<1>3. RowsInv' /\ TimesInv'
  BY <1>1 DEF Inv, RowsInv, TimesInv, Before, Ascending
<1>4. ScreenInv'
  <2>1. Busy /\ Busy' = TRUE
    BY <1>1, Zenon DEF Busy
  <2>2. Turns(messages, Busy) => Turns(messages, Busy)'
    BY <1>1, <2>1 DEF Turns
  <2> QED
    BY <1>1, <2>1, <2>2, Zenon DEF Inv, ScreenInv
<1> QED
  BY <1>2, <1>3, <1>4 DEF Inv

(* A step that closes the screen, whatever it did to the rows.             *)
LEMMA DiscardKeeps ==
  ASSUME Inv, Discard, UNCHANGED <<time, said>>,
         rows' \in [ChatIds -> Seq(Message)], scrambled' \subseteq ChatIds, RowsInv',
         setBacks = 0 => scrambled' = {} /\ \A d \in ChatIds : Before(rows'[d], clock)
  PROVE  Inv'
<1> DEFINE none == <<>>
<1>1. /\ clock' = clock /\ setBacks' = setBacks /\ said' = said
      /\ open' = FALSE /\ chat' = NoChat /\ messages' = none
      /\ showDeleteChatButton' = FALSE /\ isLoading' = FALSE
      /\ isAnswerError' = FALSE /\ deleted' = FALSE
  BY Zenon DEF Discard, time
<1>2. none \in Seq(Message) /\ Ascending(none) /\ Before(none, clock)
  BY DEF Ascending, Before
<1> HIDE DEF none
<1>3. TypeOK'
  BY <1>1, <1>2, Zenon DEF Inv, TypeOK
<1>4. ScreenInv'
  BY <1>1, Zenon DEF ScreenInv, Busy, none
<1>5. TimesInv'
  <2>1. Ascending(messages') /\ Before(messages', clock')
    BY <1>1, <1>2
  <2> QED
    BY <1>1, <2>1 DEF TimesInv, Ascending, Before
<1> QED
  BY <1>3, <1>4, <1>5 DEF Inv

LEMMA LeaveKeeps ==
  ASSUME Inv, Leave
  PROVE  Inv'
<1>1. PICK c \in ChatIds \cup {NoChat} : open /\ SaveChat(c) /\ Discard /\ UNCHANGED <<time, said>>
  BY Zenon DEF Leave
<1>2. /\ rows' \in [ChatIds -> Seq(Message)] /\ scrambled' \subseteq ChatIds /\ RowsInv'
      /\ setBacks = 0 => scrambled' = {} /\ \A d \in ChatIds : Before(rows'[d], clock)
  BY <1>1, SaveKeeps
<1> QED
  BY <1>1, <1>2, DiscardKeeps

LEMMA KillKeeps ==
  ASSUME Inv, Kill
  PROVE  Inv'
<1>1. Discard /\ UNCHANGED <<time, said>> /\ rows' = rows /\ scrambled' = scrambled
  BY Zenon DEF Kill
<1>2. rows' \in [ChatIds -> Seq(Message)] /\ scrambled' \subseteq ChatIds
  BY <1>1 DEF Inv, TypeOK
<1>3. RowsInv'
  BY <1>1 DEF Inv, RowsInv
<1>4. setBacks = 0 => scrambled' = {} /\ \A d \in ChatIds : Before(rows'[d], clock)
  BY <1>1 DEF Inv, TimesInv
<1> QED
  BY <1>1, <1>2, <1>3, <1>4, DiscardKeeps

(* A chat that is opened shows its rows in an order by time; when their    *)
(* times are in order, as they were written.                               *)
LEMMA OpenKeeps ==
  ASSUME Inv, NEW c \in ChatIds \cup {NoChat}, OpenChat(c)
  PROVE  Inv'
<1> DEFINE none == <<>>
<1>1. /\ ~open /\ (c # NoChat => rows[c] # none) /\ open' = TRUE /\ chat' = c
      /\ showDeleteChatButton' = (c # NoChat) /\ isLoading' = FALSE /\ isAnswerError' = FALSE
      /\ clock' = clock /\ setBacks' = setBacks /\ said' = said /\ deleted' = deleted
      /\ rows' = rows /\ scrambled' = scrambled
  BY Zenon DEF OpenChat, time
<1>2. /\ c = NoChat => messages' = none
      /\ c # NoChat => messages' \in Sorted(rows[c])
  BY Zenon DEF OpenChat
<1>3. /\ rows \in [ChatIds -> Seq(Message)] /\ scrambled \subseteq ChatIds
      /\ NoChat \notin ChatIds /\ ~deleted
  BY <1>1, ChatStoreAssumption DEF Inv, TypeOK, ScreenInv
<1>4. /\ none \in Seq(Message) /\ Ascending(none) /\ Before(none, clock)
  BY DEF Ascending, Before
<1>5. ASSUME c \in ChatIds \ scrambled
      PROVE  /\ messages' = rows[c] /\ Ascending(rows[c])
             /\ rows[c][1].isMy /\ ~rows[c][Len(rows[c])].isMy
  <2>1. Ascending(rows[c]) /\ rows[c] \in Seq(Message)
    BY <1>3, <1>5 DEF Inv, RowsInv
  <2>2. rows[c][1].isMy /\ ~rows[c][Len(rows[c])].isMy
    BY <1>1, <1>3, <1>5 DEF Inv, RowsInv
  <2>3. messages' \in {rows[c]}
    BY <1>2, <1>3, <1>5, <2>1, SortedAscending
  <2> QED
    BY <2>1, <2>2, <2>3
<1>6. messages' \in Seq(Message)
  <2>1. CASE c = NoChat
    BY <1>2, <1>4, <2>1
  <2>2. CASE c # NoChat
    <3>1. rows[c] \in Seq(Message) /\ messages' \in Sorted(rows[c])
      BY <1>2, <1>3, <2>2
    <3> QED
      BY <3>1, SortedTyped
  <2> QED
    BY <2>1, <2>2
<1>7. TypeOK'
  <2>1. (c # NoChat) \in BOOLEAN
    BY Zenon
  <2> HIDE DEF none
  <2> QED
    BY <1>1, <1>6, <2>1, Zenon DEF Inv, TypeOK
<1>8. RowsInv'
  BY <1>1 DEF Inv, RowsInv
<1>9. ScreenInv'
  <2>1. ~Busy'
    BY <1>1, Zenon DEF Busy
  <2>2. ASSUME c \notin scrambled PROVE Turns(messages', Busy')
    <3>1. CASE c = NoChat
      BY <1>2, <2>1, <3>1 DEF Turns
    <3>2. CASE c # NoChat
      <4>1. messages' = rows[c] /\ rows[c][1].isMy /\ ~rows[c][Len(rows[c])].isMy
        BY <1>5, <2>2, <3>2
      <4> QED
        BY <2>1, <4>1, Zenon DEF Turns
    <3> QED
      BY <3>1, <3>2
  <2>3. ASSUME c \in ChatIds \ scrambled PROVE rows[c] # none /\ Len(messages') >= 2
    <3> DEFINE n == Len(rows[c])
    <3>1. rows[c] # none /\ rows[c] \in Seq(Message)
      BY <1>1, <1>3, <2>3
    <3>2. n \in Nat /\ n # 0
      BY <3>1, EmptySeq, LenProperties
    <3>3. messages' = rows[c] /\ rows[c][1].isMy /\ ~rows[c][n].isMy
      BY <1>5, <2>3
    <3>4. n # 1
      BY <3>3
    <3> HIDE DEF n
    <3>5. n >= 2
      BY <3>2, <3>4
    <3> QED
      BY <3>1, <3>3, <3>5 DEF n
  <2>4. Turns(messages, Busy)' <=> Turns(messages', Busy')
    BY DEF Turns, Busy
  <2> HIDE DEF none
  <2> QED
    BY <1>1, <1>3, <2>1, <2>2, <2>3, <2>4, Zenon DEF ScreenInv, Busy, none
<1>10. TimesInv'
  <2>1. ASSUME setBacks = 0 PROVE Ascending(messages') /\ Before(messages', clock)
    <3>1. scrambled = {} /\ \A d \in ChatIds : Before(rows[d], clock)
      BY <2>1 DEF Inv, TimesInv
    <3>2. CASE c = NoChat
      BY <1>2, <1>4, <3>2
    <3>3. CASE c # NoChat
      BY <1>5, <3>1, <3>3
    <3> QED
      BY <3>2, <3>3
  <2>2. setBacks = 0 => scrambled = {} /\ \A d \in ChatIds : Before(rows[d], clock)
    BY DEF Inv, TimesInv
  <2> QED
    BY <1>1, <2>1, <2>2 DEF TimesInv, Ascending, Before
<1> QED
  BY <1>7, <1>8, <1>9, <1>10 DEF Inv

LEMMA BackgroundKeeps ==
  ASSUME Inv, EnterBackground
  PROVE  Inv'
<1>1. PICK c \in ChatIds \cup {NoChat} : SaveChat(c) /\ chat' = c
  BY Zenon DEF EnterBackground
<1>2. /\ open /\ deleted' = (chat' # NoChat /\ rows'[chat'] = <<>>)
      /\ UNCHANGED <<clock, setBacks, said, open, showDeleteChatButton, messages,
                     isLoading, isAnswerError>>
  BY Zenon DEF EnterBackground, time, request
<1>3. /\ rows' \in [ChatIds -> Seq(Message)]
      /\ scrambled' \subseteq ChatIds
      /\ RowsInv'
      /\ setBacks = 0 => scrambled' = {} /\ \A d \in ChatIds : Before(rows'[d], clock)
      /\ c \notin scrambled' => chat \notin scrambled
      /\ c \in ChatIds \ scrambled' => rows'[c] # <<>> /\ Len(messages) >= 2
  BY <1>1, <1>2, SaveKeeps
<1>4. deleted' \in BOOLEAN
  BY <1>2, Zenon
<1>5. TypeOK'
  BY <1>1, <1>2, <1>3, <1>4, Zenon DEF Inv, TypeOK
<1>6. showDeleteChatButton => c # NoChat
  <2>1. showDeleteChatButton => chat # NoChat
    BY DEF Inv, ScreenInv
  <2>2. chat # NoChat => c = chat
    BY <1>1 DEF SaveChat
  <2> QED
    BY <2>1, <2>2
<1>7. ScreenInv'
  <2>1. Busy' <=> Busy
    BY <1>2, Zenon DEF Busy
  <2>2. c \notin scrambled' => Turns(messages, Busy)'
    <3>1. c \notin scrambled' => Turns(messages, Busy)
      BY <1>2, <1>3 DEF Inv, ScreenInv
    <3> QED
      BY <1>2, <2>1, <3>1 DEF Turns
  <2>3. c \in ChatIds \ scrambled' => ~deleted'
    BY <1>1, <1>2, <1>3, Zenon
  <2>4. (isLoading /\ isAnswerError) = FALSE /\ (Busy => messages # <<>>)
    BY Zenon DEF Inv, ScreenInv
  <2>5. deleted' => c # NoChat
    BY <1>1, <1>2, Zenon
  <2>6. /\ ~(isLoading /\ isAnswerError)' /\ (Busy => messages # <<>>)'
        /\ (~open => chat = NoChat /\ messages = <<>>)'
    BY <1>2, <2>1, <2>4, Zenon
  <2>7. (showDeleteChatButton \/ deleted => open /\ chat # NoChat)'
    BY <1>1, <1>2, <1>6, <2>5, Zenon
  <2>8. (open /\ chat \notin scrambled => Turns(messages, Busy))'
    BY <1>1, <2>2, Zenon
  <2>9. (open /\ chat \in ChatIds \ scrambled => rows[chat] # <<>> /\ ~deleted /\ Len(messages) >= 2)'
    BY <1>1, <1>2, <1>3, <2>3, Zenon
  <2> QED
    BY <2>6, <2>7, <2>8, <2>9, Zenon DEF ScreenInv
<1>8. TimesInv'
  <2>1. setBacks = 0 => Ascending(messages) /\ Before(messages, clock)
    BY DEF Inv, TimesInv
  <2> QED
    BY <1>2, <1>3, <2>1 DEF TimesInv, Ascending, Before
<1> QED
  BY <1>3, <1>5, <1>7, <1>8 DEF Inv

LEMMA DeleteKeeps ==
  ASSUME Inv, DeleteChat
  PROVE  Inv'
<1> DEFINE none == <<>>
           question == \E i \in DOMAIN Kept : Kept[i].isMy
<1>1. open /\ showDeleteChatButton /\ Discard /\ UNCHANGED <<time, said>>
  BY Zenon DEF DeleteChat
<1>2. /\ \/ rows' = [rows EXCEPT ![chat] = none]
         \/ question /\ rows' = [rows EXCEPT ![chat] = Kept]
      /\ scrambled' = IF Ascending(Kept) THEN scrambled ELSE scrambled \cup {chat}
  BY Zenon DEF DeleteChat
<1>3. /\ rows \in [ChatIds -> Seq(Message)] /\ scrambled \subseteq ChatIds
      /\ messages \in Seq(Message) /\ chat \in ChatIds
  BY <1>1 DEF Inv, TypeOK, ScreenInv
<1>4. /\ Kept \in Seq(Message) /\ (Ascending(messages) => Ascending(Kept))
      /\ Before(messages, clock) => Before(Kept, clock)
  BY <1>3, KeptPrefix, KeptTimes
<1>5. chat \notin scrambled /\ Kept # none => Kept[1].isMy /\ ~Kept[Len(Kept)].isMy
  BY <1>1, <1>3, KeptTurns DEF Inv, ScreenInv
<1>6. none \in Seq(Message) /\ Ascending(none) /\ Before(none, clock)
  BY DEF Ascending, Before
<1>7. /\ \A d \in ChatIds \ scrambled :
           /\ Ascending(rows[d])
           /\ rows[d] # none => rows[d][1].isMy /\ ~rows[d][Len(rows[d])].isMy
      /\ setBacks = 0 => /\ scrambled = {} /\ Ascending(Kept) /\ Before(Kept, clock)
                         /\ \A d \in ChatIds : Before(rows[d], clock)
  BY <1>4 DEF Inv, RowsInv, TimesInv
<1> HIDE DEF Kept, question
<1>8. PICK new \in {none, Kept} : rows' = [rows EXCEPT ![chat] = new]
  BY <1>2, Zenon
<1>9. \A d \in ChatIds : rows'[d] = IF d = chat THEN new ELSE rows[d]
  BY <1>3, <1>8
<1>10. new \in Seq(Message) /\ (setBacks = 0 => Before(new, clock))
  BY <1>4, <1>6, <1>7
<1>11. chat \notin scrambled' => /\ chat \notin scrambled /\ Ascending(new)
                                 /\ new # none => new[1].isMy /\ ~new[Len(new)].isMy
  BY <1>2, <1>5, <1>6
<1>12. rows' \in [ChatIds -> Seq(Message)] /\ scrambled' \subseteq ChatIds
  BY <1>2, <1>3, <1>8, <1>10
<1>13. RowsInv'
  <2>1. ASSUME NEW d \in ChatIds \ scrambled'
        PROVE  /\ Ascending(rows'[d])
               /\ rows'[d] # none => rows'[d][1].isMy /\ ~rows'[d][Len(rows'[d])].isMy
    <3>1. d \notin scrambled
      BY <1>2
    <3>2. CASE d = chat
      BY <1>9, <1>11, <3>2
    <3>3. CASE d # chat
      BY <1>7, <1>9, <3>1, <3>3
    <3> QED
      BY <3>2, <3>3
  <2> QED
    BY <2>1 DEF RowsInv, Ascending
<1>14. setBacks = 0 => scrambled' = {} /\ \A d \in ChatIds : Before(rows'[d], clock)
  BY <1>2, <1>7, <1>9, <1>10
<1> QED
  BY <1>1, <1>12, <1>13, <1>14, DiscardKeeps

LEMMA SetClockKeeps ==
  ASSUME Inv, SetClock
  PROVE  Inv'
<1>1. /\ UNCHANGED <<said, open, chat, showDeleteChatButton, messages, isLoading,
                     isAnswerError, deleted, rows, scrambled>>
      /\ setBacks < MaxSetBacks /\ setBacks' = setBacks + 1 /\ clock' \in 0 .. clock - 1
  BY Zenon DEF SetClock, screen, request
<1>2. /\ setBacks' \in 0 .. MaxSetBacks /\ setBacks' # 0 /\ clock' \in 0 .. MaxClock
  BY <1>1, ChatStoreAssumption DEF Inv, TypeOK
<1>3. TypeOK'
  BY <1>1, <1>2, Zenon DEF Inv, TypeOK
<1>4. RowsInv'
  BY <1>1 DEF Inv, RowsInv
<1>5. ScreenInv'
  <2>1. (Busy' <=> Busy) /\ (Turns(messages, Busy)' <=> Turns(messages, Busy))
    BY <1>1 DEF Busy, Turns
  <2> QED
    BY <1>1, <2>1, Zenon DEF Inv, ScreenInv
<1> QED
  BY <1>2, <1>3, <1>4, <1>5 DEF Inv, TimesInv

LEMMA StutterKeeps ==
  ASSUME Inv, UNCHANGED vars
  PROVE  Inv'
<1>1. UNCHANGED <<clock, setBacks, said, open, chat, showDeleteChatButton, messages,
                  isLoading, isAnswerError, deleted, rows, scrambled>>
  BY Zenon DEF vars, time, screen, request
<1>2. TypeOK'
  BY <1>1, Zenon DEF Inv, TypeOK
<1>3. RowsInv'
  BY <1>1 DEF Inv, RowsInv
<1>4. ScreenInv'
  <2>1. (Busy' <=> Busy) /\ (Turns(messages, Busy)' <=> Turns(messages, Busy))
    BY <1>1 DEF Busy, Turns
  <2> QED
    BY <1>1, <2>1, Zenon DEF Inv, ScreenInv
<1>5. TimesInv'
  BY <1>1 DEF Inv, TimesInv, Ascending, Before
<1> QED
  BY <1>2, <1>3, <1>4, <1>5 DEF Inv

LEMMA InitKeeps ==
  ASSUME Init
  PROVE  Inv
<1> DEFINE none == <<>>
<1>1. /\ clock = 0 /\ setBacks = 0 /\ said = 0 /\ open = FALSE /\ chat = NoChat
      /\ messages = none /\ showDeleteChatButton = FALSE /\ isLoading = FALSE
      /\ isAnswerError = FALSE /\ deleted = FALSE
      /\ rows = [c \in ChatIds |-> none] /\ scrambled = {}
  BY Zenon DEF Init
<1>2. none \in Seq(Message) /\ Ascending(none) /\ Before(none, clock)
  BY DEF Ascending, Before
<1>3. /\ 0 \in 0 .. MaxClock /\ 0 \in 0 .. MaxSetBacks /\ 0 \in 0 .. MaxSaid
      /\ {} \subseteq ChatIds
  BY ChatStoreAssumption
<1> HIDE DEF none
<1>4. rows \in [ChatIds -> Seq(Message)] /\ \A c \in ChatIds : rows[c] = none
  BY <1>1, <1>2
<1>5. TypeOK
  BY <1>1, <1>2, <1>3, <1>4, Zenon DEF TypeOK
<1>6. RowsInv
  BY <1>2, <1>4 DEF RowsInv, none
<1>7. ScreenInv
  BY <1>1, Zenon DEF ScreenInv, Busy, none
<1>8. TimesInv
  BY <1>1, <1>2, <1>4 DEF TimesInv
<1> QED
  BY <1>5, <1>6, <1>7, <1>8 DEF Inv

(* In every state rows and conversation are well formed: a chat that was   *)
(* always saved with its times in order starts with a question, ends with  *)
(* an answer and is part of what its screen shows.                         *)
THEOREM Invariance == Spec => []Inv
<1>1. Inv /\ [Next]_vars => Inv'
  <2> SUFFICES ASSUME Inv, [Next]_vars PROVE Inv'
    OBVIOUS
  <2>1. ASSUME NEW c \in ChatIds \cup {NoChat}, OpenChat(c) PROVE Inv'
    BY <2>1, OpenKeeps
  <2>2. CASE Ask
    BY <2>2, AskKeeps
  <2>3. CASE AnswerArrives
    BY <2>3, AnswerKeeps
  <2>4. CASE AnswerFails
    BY <2>4, FailKeeps
  <2>5. CASE TryAgain
    BY <2>5, TryAgainKeeps
  <2>6. CASE Leave
    BY <2>6, LeaveKeeps
  <2>7. CASE EnterBackground
    BY <2>7, BackgroundKeeps
  <2>8. CASE DeleteChat
    BY <2>8, DeleteKeeps
  <2>9. CASE Kill
    BY <2>9, KillKeeps
  <2>10. CASE SetClock
    BY <2>10, SetClockKeeps
  <2>11. CASE UNCHANGED vars
    BY <2>11, StutterKeeps
  <2> QED
    BY <2>1, <2>2, <2>3, <2>4, <2>5, <2>6, <2>7, <2>8, <2>9, <2>10, <2>11, Zenon DEF Next
<1> QED
  BY <1>1, InitKeeps, PTL DEF Spec

(* The variables of the chat screen and the history stay in their ranges:  *)
(* sorted and rewritten rows are conversations.                            *)
THEOREM TypeCorrect == Spec => []TypeOK
<1>1. Inv => TypeOK
  BY DEF Inv
<1> QED
  BY <1>1, Invariance, PTL

(* saveChat never deletes a chat whose messages were always saved in the   *)
(* order of their times; only onDeleteChatAction on that chat does.        *)
THEOREM LossOnlyByUser == Spec => LossNeedsSetBack
<1> DEFINE Held == \A c \in ChatIds \ scrambled :
                     rows[c] # <<>> /\ rows'[c] = <<>> => DeleteChat /\ chat = c
<1>1. Inv /\ [Next]_vars => [Held]_vars
  <2> SUFFICES ASSUME Inv, Next, NEW c \in ChatIds \ scrambled, rows[c] # <<>>, rows'[c] = <<>>
               PROVE  DeleteChat /\ chat = c
    BY Zenon
  <2>1. rows' # rows
    OBVIOUS
  <2>2. ASSUME NEW d \in ChatIds \cup {NoChat}, open, SaveChat(d) PROVE FALSE
    BY <2>2, SaveKeeps
  <2>3. ~Leave /\ ~EnterBackground
    BY <2>2, Zenon DEF Leave, EnterBackground
  <2>4. DeleteChat
    BY <2>1, <2>3, Zenon DEF Next, OpenChat, Ask, AnswerArrives, AnswerFails, TryAgain,
                            Kill, SetClock
  <2>5. chat = c
    <3>1. \/ rows' = [rows EXCEPT ![chat] = <<>>]
          \/ rows' = [rows EXCEPT ![chat] = Kept]
      BY <2>4, Zenon DEF DeleteChat
    <3>2. rows \in [ChatIds -> Seq(Message)]
      BY DEF Inv, TypeOK
    <3> HIDE DEF Kept
    <3> QED
      BY <3>1, <3>2
  <2> QED
    BY <2>4, <2>5
<1> QED
  BY <1>1, Invariance, PTL DEF Spec, LossNeedsSetBack

-----------------------------------------------------------------------------
(* Rows whose times are in order, sorted, are the rows.                    *)
LEMMA RowsAreArchive ==
  ASSUME NEW r \in [ChatIds -> Seq(Message)], \A c \in ChatIds : Ascending(r[c])
  PROVE  [c \in ChatIds |-> CHOOSE s \in Sorted(r[c]) : TRUE] = r
<1>1. ASSUME NEW c \in ChatIds PROVE (CHOOSE s \in Sorted(r[c]) : TRUE) = r[c]
  <2>1. Sorted(r[c]) = {r[c]}
    BY <1>1, SortedAscending
  <2>2. (CHOOSE s \in Sorted(r[c]) : TRUE) \in Sorted(r[c])
    BY <2>1
  <2> QED
    BY <2>1, <2>2
<1>2. r = [c \in ChatIds |-> r[c]]
  OBVIOUS
<1> QED
  BY <1>1, <1>2

Stored == [c \in ChatIds |-> CHOOSE s \in Sorted(rows[c]) : TRUE]

LEMMA StoredIsRows ==
  ASSUME Inv, setBacks = 0
  PROVE  Stored = rows
<1>1. rows \in [ChatIds -> Seq(Message)] /\ \A c \in ChatIds : Ascending(rows[c])
  BY DEF Inv, TypeOK, RowsInv, TimesInv
<1> QED
  BY <1>1, RowsAreArchive DEF Stored

LEMMA StoredIsRowsNext ==
  ASSUME Inv', setBacks' = 0
  PROVE  Stored' = rows'
<1>1. rows' \in [ChatIds -> Seq(Message)] /\ \A c \in ChatIds : Ascending(rows'[c])
  BY DEF Inv, TypeOK, RowsInv, TimesInv, Ascending
<1>2. [c \in ChatIds |-> CHOOSE s \in Sorted(rows'[c]) : TRUE] = rows'
  BY <1>1, RowsAreArchive
<1> QED
  BY <1>2 DEF Stored, Sorted

(* The steps of the history, with the stored rows for the archive.         *)
LEMMA OpenArchives ==
  ASSUME Inv, setBacks = 0, Stored = rows, Stored' = rows',
         NEW c \in ChatIds \cup {NoChat}, OpenChat(c)
  PROVE  Archive!Next
<1>1. /\ ~open /\ open' = TRUE /\ chat' = c /\ rows' = rows
  BY Zenon DEF OpenChat
<1>2. messages' = IF c = NoChat THEN <<>> ELSE rows[c]
  <2>1. CASE c = NoChat
    BY <2>1, Zenon DEF OpenChat
  <2>2. CASE c # NoChat
    <3>1. c \in ChatIds /\ rows[c] \in Seq(Message) /\ Ascending(rows[c])
      BY <2>2 DEF Inv, TypeOK, RowsInv, TimesInv
    <3>2. messages' \in Sorted(rows[c]) /\ Sorted(rows[c]) = {rows[c]}
      BY <2>2, <3>1, SortedAscending DEF OpenChat
    <3> QED
      BY <2>2, <3>2
  <2> QED
    BY <2>1, <2>2
<1>3. Archive!Open(c)
  BY <1>1, <1>2, Zenon DEF Archive!Open, Stored
<1> QED
  BY <1>3, Zenon DEF Archive!Next

LEMMA SayArchives ==
  ASSUME Inv, setBacks = 0, Stored = rows, Stored' = rows', Ask \/ AnswerArrives \/ TryAgain
  PROVE  Archive!Next
<1>1. TypeOK /\ messages \in Seq(Message)
  BY DEF Inv, TypeOK
<1>2. open /\ UNCHANGED <<open, chat, rows>>
  BY Zenon DEF Ask, AnswerArrives, TryAgain, screen
<1>3. ASSUME NEW x \in Message,
             \/ messages' = Append(messages, x)
             \/ /\ messages # <<>> /\ Last(messages).isMy /\ x.isMy
                /\ messages' = Append(Front(messages), x)
      PROVE  Archive!Next
  <2>1. Archive!Front(messages) = Front(messages) /\ Archive!Last(messages) = Last(messages)
    BY Zenon DEF Front, Last, Archive!Front, Archive!Last
  <2>2. Stored' = Stored
    BY <1>2
  <2>3. Archive!Say(x)
    BY <1>2, <1>3, <2>1, <2>2, Zenon DEF Archive!Say, Stored
  <2> QED
    BY <2>3, Zenon DEF Archive!Next
<1>4. CASE Ask \/ AnswerArrives
  <2>1. PICK isMy \in BOOLEAN : Says(messages, isMy)
    BY <1>4, Zenon DEF Ask, AnswerArrives
  <2>2. \E x \in Message : messages' = Append(messages, x)
    BY <1>1, <2>1, SaysKeeps
  <2> QED
    BY <1>3, <2>2
<1>5. CASE TryAgain
  <2>1. isAnswerError /\ Says(Front(messages), TRUE)
    BY <1>5, Zenon DEF TryAgain
  <2>2. scrambled = {} /\ Busy
    BY <2>1 DEF Inv, TimesInv, Busy
  <2>3. messages # <<>> /\ messages[Len(messages)].isMy
    BY <1>2, <2>2 DEF Inv, ScreenInv, Turns
  <2>4. Last(messages).isMy /\ Front(messages) \in Seq(Message)
    BY <1>1, <2>3, FrontPrefix
  <2>5. \E x \in Message : x.isMy = TRUE /\ messages' = Append(Front(messages), x)
    BY <1>1, <2>1, <2>4, SaysKeeps
  <2> QED
    BY <1>3, <2>3, <2>4, <2>5
<1> QED
  BY <1>4, <1>5

LEMMA SaveIsKeep ==
  ASSUME Inv, setBacks = 0, Stored = rows, Stored' = rows', open,
         NEW c \in ChatIds \cup {NoChat}, SaveChat(c)
  PROVE  Archive!Keep(c)
<1>1. chat \notin scrambled
  BY DEF Inv, TimesInv
<1>2. \/ Kept = <<>> /\ chat = NoChat /\ c = NoChat /\ rows' = rows
      \/ /\ Kept # <<>> /\ c \in ChatIds
         /\ c = chat \/ (chat = NoChat /\ rows[c] = <<>>)
         /\ rows' = [rows EXCEPT ![c] = Kept]
  BY <1>1, SaveArchives
<1>3. Archive!Finished = Kept
  BY Zenon DEF Archive!Finished, Kept, Front, Last, Archive!Front, Archive!Last
<1> HIDE DEF Kept
<1>4. Archive!Keep(c) <=>
        IF Kept = <<>>
        THEN chat = NoChat /\ c = NoChat /\ Stored' = Stored
        ELSE /\ c \in ChatIds
             /\ c = chat \/ (chat = NoChat /\ Stored[c] = <<>>)
             /\ Stored' = [Stored EXCEPT ![c] = Kept]
  BY <1>3, Zenon DEF Archive!Keep, Stored
<1> QED
  BY <1>2, <1>4

LEMMA LeaveArchives ==
  ASSUME Inv, setBacks = 0, Stored = rows, Stored' = rows', Leave
  PROVE  Archive!Next
<1>1. PICK c \in ChatIds \cup {NoChat} : open /\ SaveChat(c) /\ Discard
  BY Zenon DEF Leave
<1>2. Archive!Keep(c)
  BY <1>1, SaveIsKeep
<1>3. Archive!Closed
  BY <1>1, Zenon DEF Discard, Archive!Closed
<1> QED
  BY <1>2, <1>3, Zenon DEF Archive!Leave, Archive!Next

LEMMA BackgroundArchives ==
  ASSUME Inv, setBacks = 0, Stored = rows, Stored' = rows', EnterBackground
  PROVE  Archive!Next
<1>1. PICK c \in ChatIds \cup {NoChat} : open /\ SaveChat(c) /\ chat' = c
  BY Zenon DEF EnterBackground
<1>2. Archive!Keep(c)
  BY <1>1, SaveIsKeep
<1>3. UNCHANGED <<open, messages>>
  BY Zenon DEF EnterBackground
<1> QED
  BY <1>1, <1>2, <1>3, Zenon DEF Archive!Save, Archive!Next

LEMMA DeleteArchives ==
  ASSUME Inv, setBacks = 0, Stored = rows, Stored' = rows', DeleteChat
  PROVE  Archive!Next
<1>1. /\ open /\ showDeleteChatButton /\ Discard
      /\ rows' = [rows EXCEPT ![chat] = <<>>] \/ rows' = [rows EXCEPT ![chat] = Kept]
  BY Zenon DEF DeleteChat
<1>2. chat # NoChat
  BY <1>1 DEF Inv, ScreenInv
<1>3. Archive!Closed
  BY <1>1, Zenon DEF Discard, Archive!Closed
<1>4. Archive!Finished = Kept
  BY Zenon DEF Archive!Finished, Kept, Front, Last, Archive!Front, Archive!Last
<1> HIDE DEF Kept
<1>5. Stored' \in {[Stored EXCEPT ![chat] = <<>>], [Stored EXCEPT ![chat] = Kept]}
  BY <1>1, Zenon
<1>6. Archive!Delete
  BY <1>2, <1>3, <1>4, <1>5, Zenon DEF Archive!Delete, Stored
<1> QED
  BY <1>6, Zenon DEF Archive!Next

(* A step that leaves screen and rows alone is a stutter of the archive,   *)
(* a kill the loss of what was not saved.                                  *)
LEMMA OtherArchives ==
  ASSUME AnswerFails \/ Kill \/ SetClock \/ UNCHANGED vars
  PROVE  Archive!Next \/ UNCHANGED Archive!vars
<1>1. Stored' = Stored
  <2>1. rows' = rows
    BY Zenon DEF AnswerFails, Kill, SetClock, vars
  <2> QED
    BY <2>1 DEF Stored, Sorted
<1>2. CASE Kill
  <2>1. Archive!Closed
    BY <1>2, Zenon DEF Kill, Discard, Archive!Closed
  <2> QED
    BY <1>1, <2>1, Zenon DEF Archive!Lose, Archive!Next, Stored
<1>3. CASE ~Kill
  <2>1. UNCHANGED <<open, chat, messages>>
    BY <1>3, Zenon DEF AnswerFails, SetClock, vars, screen
  <2> QED
    BY <1>1, <2>1, Zenon DEF Archive!vars, Stored
<1> QED
  BY <1>2, <1>3

(* The history implements ChatArchive until the clock is first set back:   *)
(* each step of the screen is a step of the archive of conversations, or   *)
(* leaves it alone.                                                        *)
THEOREM HistoryIsArchive == Spec => ArchiveUntilSetBack
<1>1. ASSUME Inv, Inv', Next, setBacks = 0 PROVE Archive!Next \/ UNCHANGED Archive!vars
  <2>1. CASE AnswerFails \/ Kill \/ SetClock
    BY <2>1, OtherArchives
  <2>2. CASE ~(AnswerFails \/ Kill \/ SetClock)
    <3>1. setBacks' = setBacks
      BY <1>1, <2>2, Zenon DEF Next, OpenChat, Ask, AnswerArrives, TryAgain, Leave,
                              EnterBackground, DeleteChat, time
    <3>2. Stored = rows /\ Stored' = rows'
      BY <1>1, <3>1, StoredIsRows, StoredIsRowsNext
    <3>3. ASSUME NEW c \in ChatIds \cup {NoChat}, OpenChat(c) PROVE Archive!Next
      BY <1>1, <3>2, <3>3, OpenArchives
    <3>4. CASE Ask \/ AnswerArrives \/ TryAgain
      BY <1>1, <3>2, <3>4, SayArchives
    <3>5. CASE Leave
      BY <1>1, <3>2, <3>5, LeaveArchives
    <3>6. CASE EnterBackground
      BY <1>1, <3>2, <3>6, BackgroundArchives
    <3>7. CASE DeleteChat
      BY <1>1, <3>2, <3>7, DeleteArchives
    <3> QED
      BY <1>1, <2>2, <3>3, <3>4, <3>5, <3>6, <3>7, Zenon DEF Next
  <2> QED
    BY <2>1, <2>2
<1>2. Inv /\ Inv' /\ [Next]_vars =>
        [setBacks = 0 => Archive!Next \/ UNCHANGED Archive!vars]_vars
  BY <1>1, Zenon
<1> QED
  BY <1>2, Invariance, PTL DEF Spec, ArchiveUntilSetBack
=============================================================================
