-------------------------- MODULE TokenWindowProofs --------------------------
(***************************************************************************)
(* What _sendTurbo reserves adds up, and the loop never cuts off the       *)
(* question, for every context size, every plan and conversations of any   *)
(* length.                                                                 *)
(***************************************************************************)
EXTENDS TokenWindow, SequenceTheorems, WellFoundedInduction, NaturalsInduction, TLAPS

(* A question being sent that passed the filter is the newest message and  *)
(* has no usage yet, so that it always fits; what has been taken never     *)
(* exceeds the budget.                                                     *)
Window ==
  pc # "idle" =>
    /\ Len(chat) >= 1
    /\ kept => chat[Len(chat)].usageTokens = 0
    /\ first \in 1 .. Len(chat) + 1
    /\ sumTokens <= AvailableTokens(maxTokens)
    /\ first = Len(chat) + 1 => sumTokens = 0

(* What the request asks for once the walk is over.                        *)
Reserved ==
  pc = "waiting" =>
    /\ kept => first <= Len(chat)
    /\ resultMaxTokens = LET left == ModelMaxTokens - AddTokens - sumTokens
                         IN  IF maxTokens < left THEN maxTokens ELSE left

Inv == TypeOK /\ Window /\ Reserved

(* What the walk has added up is the usage of the messages it took.        *)
Walked ==
  pc # "idle" => sumTokens = UsageFrom(chat, first)

(* The walk ends at the start or before a message that does not fit.       *)
Cut ==
  pc = "waiting" =>
    first = 1 \/ sumTokens + chat[first - 1].usageTokens > AvailableTokens(maxTokens)

(* A message that carries a usage counts for no less than its size.        *)
ItemCounted(item) == item.usageTokens = 0 \/ item.size <= item.usageTokens
Counted == \A j \in 1 .. Len(chat) : ItemCounted(chat[j])

WalkInv == Walked /\ Cut /\ Counted

(* A set of natural numbers that is not empty has a least element.         *)
LEMMA FirstOf ==
  ASSUME NEW S, S \subseteq Nat, S # {}
  PROVE  \E i \in S : \A j \in S : i <= j
<1> DEFINE less == OpToRel(<, Nat)
<1>1. \A i \in Nat, j \in Nat : j < i => <<j, i>> \in less
  BY Zenon DEF OpToRel
<1>2. IsWellFoundedOn(less, Nat)
  BY NatLessThanWellFounded, Zenon
<1> HIDE DEF less
<1>3. PICK i \in S : \A j \in S : ~(<<j, i>> \in less)
  BY <1>2, WFMin
<1>4. ASSUME NEW j \in S PROVE i <= j
  <2>1. i \in Nat /\ j \in Nat
    OBVIOUS
  <2>2. ~(j < i)
    BY <1>1, <1>3, <2>1, Zenon
  <2> QED
    BY <2>1, <2>2
<1> QED
  BY <1>4

(* Induction over the natural numbers up to n: the set of those for which  *)
(* a statement holds contains 0 and, with each of them, the next.          *)
LEMMA UpTo ==
  ASSUME NEW n \in Nat, NEW S, 0 \in S, \A m \in 0 .. n - 1 : m \in S => m + 1 \in S
  PROVE  0 .. n \subseteq S
<1> DEFINE bad == {m \in 0 .. n : m \notin S}
<1> SUFFICES ASSUME bad # {} PROVE FALSE
  OBVIOUS
<1>1. bad \subseteq Nat
  OBVIOUS
<1>2. PICK m \in bad : \A j \in bad : m <= j
  <2> HIDE DEF bad
  <2> QED
    BY <1>1, FirstOf
<1>3. m \in 1 .. n /\ m \notin S
  OBVIOUS
<1>4. m - 1 \in 0 .. n - 1 /\ m - 1 \notin bad
  BY <1>2, <1>3
<1>5. m - 1 \in S
  BY <1>4
<1> QED
  BY <1>3, <1>4, <1>5

(* The recursion of SumFrom has a solution, found by adding one message    *)
(* after the other in front.                                               *)
LEMMA SumExists ==
  ASSUME NEW f \in Seq(Nat)
  PROVE  \E g \in [1 .. Len(f) + 1 -> Nat] :
            g[Len(f) + 1] = 0 /\ \A j \in 1 .. Len(f) : g[j] = f[j] + g[j + 1]
<1> DEFINE n == Len(f)
<1>0. n \in Nat /\ \A j \in 1 .. n : f[j] \in Nat
  OBVIOUS
<1> HIDE DEF n
<1> DEFINE Part(m, g) ==
             /\ g \in [n + 1 - m .. n + 1 -> Nat]
             /\ g[n + 1] = 0
             /\ \A j \in n + 1 - m .. n : g[j] = f[j] + g[j + 1]
           S == {m \in 0 .. n : \E g : Part(m, g)}
<1>1. 0 \in S
  <2>1. Part(0, [j \in n + 1 - 0 .. n + 1 |-> 0])
    BY <1>0
  <2> HIDE DEF Part
  <2> QED
    BY <1>0, <2>1
<1>2. ASSUME NEW m \in 0 .. n - 1, m \in S PROVE m + 1 \in S
  <2>1. PICK g : Part(m, g)
    BY <1>2
  <2> DEFINE h == [j \in n + 1 - (m + 1) .. n + 1 |->
                     IF j = n - m THEN f[j] + g[j + 1] ELSE g[j]]
  <2>2. Part(m + 1, h)
    BY <1>0, <2>1
  <2>3. m + 1 \in 0 .. n
    BY <1>0
  <2> HIDE DEF Part, h
  <2> QED
    BY <2>2, <2>3
<1>3. 0 .. n \subseteq S
  <2> HIDE DEF S
  <2> QED
    BY <1>0, <1>1, <1>2, UpTo
<1>4. PICK g : Part(n, g)
  <2>1. n \in 0 .. n
    BY <1>0
  <2> HIDE DEF Part
  <2> QED
    BY <1>3, <2>1
<1> QED
  BY <1>0, <1>4 DEF n

(* What SumFrom computes: the loop of _sendTurbo adds one message at a     *)
(* time.                                                                   *)
LEMMA SumUnfold ==
  ASSUME NEW f \in Seq(Nat)
  PROVE  /\ SumFrom(f, Len(f) + 1) = 0
         /\ \A k \in 1 .. Len(f) : SumFrom(f, k) = f[k] + SumFrom(f, k + 1)
         /\ \A k \in 1 .. Len(f) + 1 : SumFrom(f, k) \in Nat
<1> DEFINE n == Len(f)
           Def(g) == g = [j \in 1 .. n + 1 |-> IF j > n THEN 0 ELSE f[j] + g[j + 1]]
           sum == CHOOSE g : Def(g)
<1>0. n \in Nat /\ \A j \in 1 .. n : f[j] \in Nat
  OBVIOUS
<1>1. \A k : SumFrom(f, k) = sum[k]
  BY DEF SumFrom
<1>2. \E g : Def(g)
  <2>1. PICK g \in [1 .. n + 1 -> Nat] :
          g[n + 1] = 0 /\ \A j \in 1 .. n : g[j] = f[j] + g[j + 1]
    BY SumExists
  <2> HIDE DEF n
  <2>2. Def(g)
    BY <1>0, <2>1
  <2> QED
    BY <2>2
<1>3. Def(sum)
  <2> HIDE DEF Def
  <2> QED
    BY <1>2
<1> HIDE DEF sum, n
<1>4. sum[n + 1] = 0 /\ \A k \in 1 .. n : sum[k] = f[k] + sum[k + 1]
  BY <1>0, <1>3
<1> HIDE DEF Def
<1> DEFINE S == {m \in 0 .. n : sum[n + 1 - m] \in Nat}
<1>5. 0 \in S
  BY <1>0, <1>4
<1>6. ASSUME NEW m \in 0 .. n - 1, m \in S PROVE m + 1 \in S
  <2>1. n - m \in 1 .. n /\ n - m + 1 = n + 1 - m /\ n + 1 - (m + 1) = n - m
    BY <1>0
  <2>2. sum[n - m] = f[n - m] + sum[n + 1 - m]
    BY <1>4, <2>1
  <2>3. sum[n + 1 - m] \in Nat /\ f[n - m] \in Nat
    BY <1>0, <1>6, <2>1
  <2> QED
    BY <1>0, <2>1, <2>2, <2>3
<1>7. 0 .. n \subseteq S
  <2> HIDE DEF S
  <2> QED
    BY <1>0, <1>5, <1>6, UpTo
<1>8. ASSUME NEW k \in 1 .. n + 1 PROVE sum[k] \in Nat
  <2>1. n + 1 - k \in 0 .. n /\ n + 1 - (n + 1 - k) = k
    BY <1>0
  <2> QED
    BY <1>7, <2>1
<1> QED
  BY <1>1, <1>4, <1>8 DEF n

(* A longer run of messages never has a smaller sum.                       *)
LEMMA SumGrows ==
  ASSUME NEW f \in Seq(Nat), NEW k \in 1 .. Len(f) + 1, NEW l \in k .. Len(f) + 1
  PROVE  SumFrom(f, l) <= SumFrom(f, k)
<1> DEFINE S == {m \in 0 .. l - k : SumFrom(f, l) <= SumFrom(f, l - m)}
<1>0. Len(f) \in Nat /\ l \in Nat /\ k \in Nat /\ l - k \in Nat
      /\ \A j \in 1 .. Len(f) : f[j] \in Nat
  OBVIOUS
<1>1. 0 \in S
  <2>1. SumFrom(f, l) \in Nat /\ l - 0 = l
    BY <1>0, SumUnfold
  <2> QED
    BY <1>0, <2>1
<1>2. ASSUME NEW m \in 0 .. (l - k) - 1, m \in S PROVE m + 1 \in S
  <2>1. l - (m + 1) \in 1 .. Len(f) /\ l - (m + 1) + 1 = l - m /\ l - m \in 1 .. Len(f) + 1
    BY <1>0
  <2>2. /\ SumFrom(f, l - (m + 1)) = f[l - (m + 1)] + SumFrom(f, l - m)
        /\ SumFrom(f, l - m) \in Nat /\ f[l - (m + 1)] \in Nat
        /\ SumFrom(f, l) \in Nat
    BY <1>0, <2>1, SumUnfold
  <2>3. SumFrom(f, l) <= SumFrom(f, l - m)
    BY <1>2
  <2>4. SumFrom(f, l) <= SumFrom(f, l - (m + 1))
    BY <2>2, <2>3
  <2> QED
    BY <1>0, <2>4
<1>3. 0 .. l - k \subseteq S
  <2> HIDE DEF S
  <2> QED
    BY <1>0, <1>1, <1>2, UpTo
<1>4. l - k \in 0 .. l - k /\ l - (l - k) = k
  BY <1>0
<1> QED
  BY <1>3, <1>4

LEMMA AddBounds ==
  ASSUME NEW a \in Nat, NEW b \in Nat, NEW c \in Nat, a <= b + c,
         NEW x \in Nat, NEW y \in Nat, NEW z \in Nat, x <= y + z
  PROVE  a + x <= (b + y) + (c + z)
OBVIOUS

(* A sum of numbers each of which is bounded by two others is bounded by   *)
(* the sums of those.                                                      *)
LEMMA SumBounded ==
  ASSUME NEW f \in Seq(Nat), NEW g \in Seq(Nat), NEW h \in Seq(Nat),
         Len(g) = Len(f), Len(h) = Len(f),
         \A j \in 1 .. Len(f) : f[j] <= g[j] + h[j],
         NEW k \in 1 .. Len(f) + 1
  PROVE  SumFrom(f, k) <= SumFrom(g, k) + SumFrom(h, k)
<1> DEFINE n == Len(f)
           S == {m \in 0 .. n : SumFrom(f, n + 1 - m)
                                  <= SumFrom(g, n + 1 - m) + SumFrom(h, n + 1 - m)}
<1>0. n \in Nat /\ \A j \in 1 .. n : f[j] \in Nat /\ g[j] \in Nat /\ h[j] \in Nat
  OBVIOUS
<1>1. /\ SumFrom(f, n + 1) = 0 /\ SumFrom(g, n + 1) = 0 /\ SumFrom(h, n + 1) = 0
      /\ \A j \in 1 .. n : /\ SumFrom(f, j) = f[j] + SumFrom(f, j + 1)
                           /\ SumFrom(g, j) = g[j] + SumFrom(g, j + 1)
                           /\ SumFrom(h, j) = h[j] + SumFrom(h, j + 1)
      /\ \A j \in 1 .. n + 1 :
           SumFrom(f, j) \in Nat /\ SumFrom(g, j) \in Nat /\ SumFrom(h, j) \in Nat
  BY SumUnfold
<1>2. \A j \in 1 .. n : f[j] <= g[j] + h[j]
  OBVIOUS
<1>3. k \in 1 .. n + 1
  OBVIOUS
<1> HIDE DEF n
<1>4. 0 \in S
  BY <1>0, <1>1
<1>5. ASSUME NEW m \in 0 .. n - 1, m \in S PROVE m + 1 \in S
  <2>1. n - m \in 1 .. n /\ n - m + 1 = n + 1 - m /\ n + 1 - (m + 1) = n - m
        /\ n + 1 - m \in 1 .. n + 1 /\ m + 1 \in 0 .. n
    BY <1>0
  <2>2. SumFrom(f, n + 1 - m) <= SumFrom(g, n + 1 - m) + SumFrom(h, n + 1 - m)
    BY <1>5
  <2>3. /\ SumFrom(f, n - m) = f[n - m] + SumFrom(f, n + 1 - m)
        /\ SumFrom(g, n - m) = g[n - m] + SumFrom(g, n + 1 - m)
        /\ SumFrom(h, n - m) = h[n - m] + SumFrom(h, n + 1 - m)
    BY <1>1, <2>1
  <2>4. /\ f[n - m] \in Nat /\ g[n - m] \in Nat /\ h[n - m] \in Nat
        /\ SumFrom(f, n + 1 - m) \in Nat /\ SumFrom(g, n + 1 - m) \in Nat
        /\ SumFrom(h, n + 1 - m) \in Nat
        /\ f[n - m] <= g[n - m] + h[n - m]
    BY <1>0, <1>1, <1>2, <2>1
  <2>5. SumFrom(f, n - m) <= SumFrom(g, n - m) + SumFrom(h, n - m)
    <3>1. f[n - m] + SumFrom(f, n + 1 - m)
            <= (g[n - m] + SumFrom(g, n + 1 - m)) + (h[n - m] + SumFrom(h, n + 1 - m))
      BY <2>2, <2>4, AddBounds
    <3> QED
      BY <2>3, <3>1, Zenon
  <2> QED
    BY <2>1, <2>5
<1>6. 0 .. n \subseteq S
  <2> HIDE DEF S
  <2> QED
    BY <1>0, <1>4, <1>5, UpTo
<1>7. n + 1 - k \in 0 .. n /\ n + 1 - (n + 1 - k) = k
  BY <1>0, <1>3
<1> QED
  BY <1>6, <1>7

(* Half of a plan's limit is a number between 0 and the limit, and a plan  *)
(* leaves a budget that is not negative (Int(Double(maxTokens) * 0.5)).    *)
LEMMA PlanLeavesRoom ==
  ASSUME NEW t \in MaxTokenSettings
  PROVE  /\ t \in Nat /\ t \div 2 \in Nat /\ t \div 2 <= t
         /\ AvailableTokens(t) \in Nat
         /\ AvailableTokens(t) = ModelMaxTokens - t \div 2 - AddTokens
<1>1. t \in Nat /\ t \div 2 + AddTokens <= ModelMaxTokens
  BY SettingsAssumption
<1>2. t \div 2 \in Nat /\ t \div 2 <= t
  BY <1>1
<1> QED
  BY <1>1, <1>2, SettingsAssumption DEF AvailableTokens

(* What the filter leaves of a message goes to the end of a conversation.  *)
LEMMA FilteredTyped ==
  ASSUME NEW c \in Seq([size : Nat, usageTokens : Nat]),
         NEW s \in Nat, NEW u \in Nat, NEW b \in BOOLEAN
  PROVE  /\ c \o Filtered(Item(s, u), b) \in Seq([size : Nat, usageTokens : Nat])
         /\ Len(c \o Filtered(Item(s, u), b)) = Len(c) + (IF b THEN 1 ELSE 0)
         /\ \A j \in 1 .. Len(c) : (c \o Filtered(Item(s, u), b))[j] = c[j]
         /\ b => (c \o Filtered(Item(s, u), b))[Len(c) + 1] = Item(s, u)
<1> DEFINE i == Item(s, u)
<1>1. i \in [size : Nat, usageTokens : Nat]
  BY DEF Item
<1> HIDE DEF i
<1>2. CASE b
  <2>1. Filtered(i, b) = <<i>>
    BY <1>2 DEF Filtered
  <2>2. /\ c \o <<i>> \in Seq([size : Nat, usageTokens : Nat])
        /\ Len(c \o <<i>>) = Len(c) + 1
        /\ \A j \in 1 .. Len(c) : (c \o <<i>>)[j] = c[j]
        /\ (c \o <<i>>)[Len(c) + 1] = i
    BY <1>1
  <2> QED
    BY <1>2, <2>1, <2>2 DEF i
<1>3. CASE ~b
  <2>1. Filtered(i, b) = <<>>
    BY <1>3 DEF Filtered
  <2>2. c \o <<>> = c /\ Len(c) + 0 = Len(c)
    OBVIOUS
  <2> QED
    BY <1>3, <2>1, <2>2 DEF i
<1> QED
  BY <1>2, <1>3

(* A counted message, filtered or not, leaves a conversation counted.      *)
LEMMA FilteredCounted ==
  ASSUME NEW c \in Seq([size : Nat, usageTokens : Nat]),
         NEW s \in Nat, NEW u \in Nat, NEW b \in BOOLEAN, u = 0 \/ s <= u,
         \A j \in 1 .. Len(c) : ItemCounted(c[j])
  PROVE  \A j \in 1 .. Len(c \o Filtered(Item(s, u), b)) :
            ItemCounted((c \o Filtered(Item(s, u), b))[j])
<1> DEFINE d == c \o Filtered(Item(s, u), b)
<1>0. Len(c) \in Nat
  OBVIOUS
<1>1. /\ Len(d) = Len(c) + (IF b THEN 1 ELSE 0)
      /\ \A j \in 1 .. Len(c) : d[j] = c[j]
      /\ b => d[Len(c) + 1] = Item(s, u)
  BY FilteredTyped, Zenon
<1>2. ItemCounted(Item(s, u))
  BY DEF ItemCounted, Item
<1> HIDE DEF d
<1>3. ASSUME NEW j \in 1 .. Len(d) PROVE ItemCounted(d[j])
  <2>1. j \in 1 .. Len(c) \/ (b /\ j = Len(c) + 1)
    BY <1>0, <1>1
  <2> QED
    BY <1>1, <1>2, <2>1
<1> QED
  BY <1>3 DEF d

(* Setting the usage of the newest message changes nothing else.           *)
LEMMA UsageSet ==
  ASSUME NEW c \in Seq([size : Nat, usageTokens : Nat]), Len(c) >= 1, NEW u \in Nat
  PROVE  LET d == [c EXCEPT ![Len(c)].usageTokens = u]
         IN  /\ d \in Seq([size : Nat, usageTokens : Nat]) /\ Len(d) = Len(c)
             /\ \A j \in 1 .. Len(c) : j # Len(c) => d[j] = c[j]
             /\ d[Len(c)].size = c[Len(c)].size /\ d[Len(c)].usageTokens = u
<1> DEFINE n == Len(c)
           i == [c[n] EXCEPT !.usageTokens = u]
           d == [c EXCEPT ![n].usageTokens = u]
<1>0. n \in Nat /\ n \in 1 .. n
  OBVIOUS
<1>1. n \in Nat /\ n \in 1 .. n /\ c[n] \in [size : Nat, usageTokens : Nat]
  BY <1>0, ElementOfSeq
<1>2. i \in [size : Nat, usageTokens : Nat] /\ i.size = c[n].size /\ i.usageTokens = u
  BY <1>1
<1>3. d = [c EXCEPT ![n] = i]
  OBVIOUS
<1> HIDE DEF d, i
<1>4. /\ [c EXCEPT ![n] = i] \in Seq([size : Nat, usageTokens : Nat])
      /\ Len([c EXCEPT ![n] = i]) = n
      /\ \A j \in 1 .. n : [c EXCEPT ![n] = i][j] = IF j = n THEN i ELSE c[j]
  BY <1>1, <1>2
<1> QED
  BY <1>1, <1>2, <1>3, <1>4 DEF d

LEMMA InitInv == Init => Inv
BY SettingsAssumption DEF Init, Inv, TypeOK, Window, Reserved

(* Ask starts the walk at the end of the conversation.                     *)
LEMMA AskInv ==
  ASSUME Inv, NEW s \in Sizes, NEW b \in BOOLEAN, NEW t \in MaxTokenSettings, Ask(s, b, t)
  PROVE  Inv'
<1>1. s \in Nat
  BY SizesAssumption
<1>2. chat \in Seq([size : Nat, usageTokens : Nat])
  BY DEF Inv, TypeOK
<1>3. /\ chat' \in Seq([size : Nat, usageTokens : Nat])
      /\ Len(chat') = Len(chat) + (IF b THEN 1 ELSE 0)
      /\ b => chat'[Len(chat) + 1] = Item(s, 0)
  <2>1. chat' = chat \o Filtered(Item(s, 0), b) /\ 0 \in Nat
    BY DEF Ask
  <2> QED
    BY <1>1, <1>2, <2>1, FilteredTyped, Zenon
<1>4. Len(chat') \in Nat /\ Len(chat') >= 1
  BY <1>3 DEF Ask
<1>5. b => chat'[Len(chat')].usageTokens = 0
  BY <1>2, <1>3 DEF Item
<1>6. AvailableTokens(t) \in Nat
  BY PlanLeavesRoom
<1>7. /\ pc' = "walking" /\ first' = Len(chat') + 1 /\ sumTokens' = 0
      /\ kept' = b /\ maxTokens' = t /\ resultMaxTokens' = resultMaxTokens
  BY DEF Ask
<1>8. TypeOK'
  BY <1>3, <1>4, <1>7 DEF Inv, TypeOK
<1>9. Window'
  BY <1>4, <1>5, <1>6, <1>7 DEF Window
<1> QED
  BY <1>7, <1>8, <1>9 DEF Inv, Reserved

LEMMA AskAboutImageInv ==
  ASSUME Inv, NEW s \in Sizes, NEW b \in BOOLEAN, NEW a \in Sizes, NEW d \in BOOLEAN,
         AskAboutImage(s, b, a, d)
  PROVE  Inv'
<1>1. s \in Nat /\ a \in Nat /\ chat \in Seq([size : Nat, usageTokens : Nat])
  BY SizesAssumption DEF Inv, TypeOK
<1>2. chat \o Filtered(Item(s, 0), b) \in Seq([size : Nat, usageTokens : Nat])
  BY <1>1, FilteredTyped
<1>3. chat' \in Seq([size : Nat, usageTokens : Nat])
  BY <1>1, <1>2, FilteredTyped DEF AskAboutImage
<1> QED
  BY <1>3 DEF Inv, TypeOK, Window, Reserved, AskAboutImage

LEMMA CommandInv ==
  ASSUME Inv, NEW s \in Sizes, Command(s)
  PROVE  Inv'
<1>1. s \in Nat
  BY SizesAssumption
<1>2. chat' \in Seq([size : Nat, usageTokens : Nat])
  BY <1>1 DEF Command, Inv, TypeOK, Item
<1> QED
  BY <1>2 DEF Inv, TypeOK, Window, Reserved, Command

(* Take goes one message back as long as the budget holds it.              *)
LEMMA TakeInv ==
  ASSUME Inv, Take
  PROVE  Inv'
<1>1. /\ pc = "walking" /\ first \in Nat /\ first - 1 >= 1
      /\ first \in 1 .. Len(chat) + 1
      /\ chat \in Seq([size : Nat, usageTokens : Nat])
      /\ Len(chat) \in Nat
  BY DEF Inv, TypeOK, Window, Take, Fits
<1>2. first - 1 \in 1 .. Len(chat)
  BY <1>1
<1> DEFINE u == chat[first - 1].usageTokens
<1>3. chat[first - 1] \in [size : Nat, usageTokens : Nat]
  BY <1>1, <1>2, ElementOfSeq
<1>4. u \in Nat
  BY <1>3
<1>5. /\ sumTokens + u <= AvailableTokens(maxTokens)
      /\ first' = first - 1 /\ sumTokens' = sumTokens + u
      /\ UNCHANGED <<chat, kept, pc, maxTokens, resultMaxTokens>>
  BY DEF Take, Fits
<1> HIDE DEF u
<1>6. TypeOK'
  BY <1>1, <1>2, <1>4, <1>5 DEF Inv, TypeOK
<1>7. Window'
  BY <1>1, <1>2, <1>4, <1>5 DEF Inv, TypeOK, Window, AvailableTokens
<1>8. Reserved'
  BY <1>1, <1>5 DEF Reserved
<1> QED
  BY <1>6, <1>7, <1>8 DEF Inv

(* Stop cannot come before a question that passed the filter was taken:    *)
(* its usage is 0.                                                         *)
LEMMA StopInv ==
  ASSUME Inv, Stop
  PROVE  Inv'
<1>1. maxTokens \in Nat /\ AvailableTokens(maxTokens) \in Nat
  BY PlanLeavesRoom DEF Inv, TypeOK
<1>2. kept => first # Len(chat) + 1
  <2>1. SUFFICES ASSUME kept, first = Len(chat) + 1 PROVE Fits(first - 1)
    BY DEF Stop
  <2>2. Len(chat) \in Nat /\ Len(chat) >= 1 /\ first - 1 = Len(chat)
    BY <2>1 DEF Inv, TypeOK, Window, Stop
  <2>3. sumTokens = 0 /\ chat[first - 1].usageTokens = 0
    BY <2>1, <2>2 DEF Inv, Window, Stop
  <2> QED
    BY <1>1, <2>2, <2>3 DEF Fits
<1>3. first \in 1 .. Len(chat) + 1 /\ Len(chat) \in Nat
  BY DEF Inv, TypeOK, Window, Stop
<1>4. kept => first <= Len(chat)
  BY <1>2, <1>3
<1>5. resultMaxTokens' \in Int
  BY <1>1, SettingsAssumption DEF Stop, Inv, TypeOK
<1> QED
  BY <1>4, <1>5 DEF Inv, TypeOK, Window, Reserved, Stop

LEMMA RestartInv ==
  ASSUME Inv, NEW t \in MaxTokenSettings, Restart(t)
  PROVE  Inv'
<1>1. AvailableTokens(t) \in Nat
  BY PlanLeavesRoom
<1>2. Len(chat) \in Nat /\ Len(chat) >= 1
  BY DEF Inv, TypeOK, Window, Restart
<1> QED
  BY <1>1, <1>2 DEF Inv, TypeOK, Window, Reserved, Restart

LEMMA RespondInv ==
  ASSUME Inv, NEW p \in 0 .. ContextTokens, NEW a \in Sizes, NEW b \in BOOLEAN,
         Respond(p, a, b)
  PROVE  Inv'
<1>1. a \in Nat /\ p \in Nat
  BY SizesAssumption, SettingsAssumption
<1>2. chat \in Seq([size : Nat, usageTokens : Nat]) /\ Len(chat) >= 1
  BY DEF Inv, TypeOK, Window, Respond
<1>3. WithUsage(p) \in Seq([size : Nat, usageTokens : Nat])
  BY <1>1, <1>2, UsageSet DEF WithUsage
<1>4. chat' \in Seq([size : Nat, usageTokens : Nat])
  BY <1>1, <1>3, FilteredTyped DEF Respond
<1> QED
  BY <1>4 DEF Inv, TypeOK, Window, Reserved, Respond

LEMMA NextInv ==
  ASSUME Inv, [Next]_vars
  PROVE  Inv'
<1>1. CASE \E s \in Sizes, b \in BOOLEAN, t \in MaxTokenSettings : Ask(s, b, t)
  BY <1>1, AskInv
<1>2. CASE \E s, a \in Sizes, b, d \in BOOLEAN : AskAboutImage(s, b, a, d)
  BY <1>2, AskAboutImageInv
<1>3. CASE Take
  BY <1>3, TakeInv
<1>4. CASE Stop
  BY <1>4, StopInv
<1>5. CASE \E t \in MaxTokenSettings : Restart(t)
  BY <1>5, RestartInv
<1>6. CASE \E p \in 0 .. ContextTokens, a \in Sizes, b \in BOOLEAN : Respond(p, a, b)
  BY <1>6, RespondInv
<1>7. CASE NewChat
  BY <1>7 DEF Inv, TypeOK, Window, Reserved, NewChat
<1>8. CASE \E s \in Sizes : Command(s)
  BY <1>8, CommandInv
<1>9. CASE UNCHANGED vars
  BY <1>9 DEF Inv, TypeOK, Window, Reserved, vars
<1> QED
  BY <1>1, <1>2, <1>3, <1>4, <1>5, <1>6, <1>7, <1>8, <1>9 DEF Next

LEMMA InvBudget == Inv => Budget /\ QuestionSent
<1> SUFFICES ASSUME Inv, pc = "waiting"
             PROVE  /\ sumTokens + AddTokens + resultMaxTokens <= ModelMaxTokens
                    /\ resultMaxTokens >= maxTokens \div 2
                    /\ kept => first <= Len(chat)
  BY DEF Budget, QuestionSent
<1>1. /\ maxTokens \in Nat /\ maxTokens \div 2 \in Nat /\ maxTokens \div 2 <= maxTokens
      /\ AvailableTokens(maxTokens) = ModelMaxTokens - maxTokens \div 2 - AddTokens
  BY PlanLeavesRoom DEF Inv, TypeOK
<1>2. /\ sumTokens \in Nat /\ sumTokens <= AvailableTokens(maxTokens)
      /\ kept => first <= Len(chat)
      /\ resultMaxTokens = IF maxTokens < ModelMaxTokens - AddTokens - sumTokens
                           THEN maxTokens ELSE ModelMaxTokens - AddTokens - sumTokens
  BY DEF Inv, TypeOK, Window, Reserved
<1>3. ModelMaxTokens \in Nat /\ AddTokens \in Nat
  BY SettingsAssumption
<1> DEFINE half == maxTokens \div 2
<1> HIDE DEF half
<1>4. half \in Nat /\ half <= maxTokens /\ sumTokens <= ModelMaxTokens - half - AddTokens
  BY <1>1, <1>2 DEF half
<1>5. resultMaxTokens >= half /\ sumTokens + AddTokens + resultMaxTokens <= ModelMaxTokens
  BY <1>1, <1>2, <1>3, <1>4
<1> QED
  BY <1>2, <1>5 DEF half

(* The fields of a conversation, as sequences of numbers.                  *)
LEMMA FieldsTyped ==
  ASSUME NEW c \in Seq([size : Nat, usageTokens : Nat])
  PROVE  /\ SizesOf(c) \in Seq(Nat) /\ Len(SizesOf(c)) = Len(c)
         /\ UsagesOf(c) \in Seq(Nat) /\ Len(UsagesOf(c)) = Len(c)
         /\ UncountedOf(c) \in Seq(Nat) /\ Len(UncountedOf(c)) = Len(c)
         /\ \A j \in 1 .. Len(c) :
              /\ SizesOf(c)[j] = c[j].size /\ UsagesOf(c)[j] = c[j].usageTokens
              /\ UncountedOf(c)[j] = IF c[j].usageTokens = 0 THEN c[j].size ELSE 0
              /\ c[j].size \in Nat /\ c[j].usageTokens \in Nat
<1>1. \A j \in 1 .. Len(c) : c[j].size \in Nat /\ c[j].usageTokens \in Nat
  <2>1. ASSUME NEW j \in 1 .. Len(c) PROVE c[j] \in [size : Nat, usageTokens : Nat]
    BY ElementOfSeq
  <2> QED
    BY <2>1
<1>2. Len(c) \in Nat
  OBVIOUS
<1>3. SizesOf(c) \in Seq(Nat) /\ Len(SizesOf(c)) = Len(c)
  BY <1>1, <1>2 DEF SizesOf
<1>4. UsagesOf(c) \in Seq(Nat) /\ Len(UsagesOf(c)) = Len(c)
  BY <1>1, <1>2 DEF UsagesOf
<1>5. UncountedOf(c) \in Seq(Nat) /\ Len(UncountedOf(c)) = Len(c)
  BY <1>1, <1>2 DEF UncountedOf
<1> QED
  BY <1>1, <1>3, <1>4, <1>5 DEF SizesOf, UsagesOf, UncountedOf

(* The sums of an empty run are 0, and the usage of a run is that of its   *)
(* oldest message and of the rest.                                         *)
LEMMA UsageUnfold ==
  ASSUME NEW c \in Seq([size : Nat, usageTokens : Nat])
  PROVE  /\ UsageFrom(c, Len(c) + 1) = 0
         /\ \A k \in 1 .. Len(c) : UsageFrom(c, k) = c[k].usageTokens + UsageFrom(c, k + 1)
         /\ \A k \in 1 .. Len(c) + 1 : UsageFrom(c, k) \in Nat
<1>1. UsagesOf(c) \in Seq(Nat) /\ Len(UsagesOf(c)) = Len(c)
      /\ \A k \in 1 .. Len(c) : UsagesOf(c)[k] = c[k].usageTokens
  BY FieldsTyped
<1> QED
  BY <1>1, SumUnfold DEF UsageFrom

(* The newest message is part of every run's size.                         *)
LEMMA NewestInSize ==
  ASSUME NEW c \in Seq([size : Nat, usageTokens : Nat]), NEW k \in 1 .. Len(c)
  PROVE  c[Len(c)].size <= SizeFrom(c, k)
<1> DEFINE f == SizesOf(c)
<1>1. f \in Seq(Nat) /\ Len(f) = Len(c) /\ Len(c) \in 1 .. Len(c)
      /\ f[Len(c)] = c[Len(c)].size /\ c[Len(c)].size \in Nat
  BY FieldsTyped
<1> HIDE DEF f
<1>2. SumFrom(f, Len(c)) = f[Len(c)] + SumFrom(f, Len(c) + 1) /\ SumFrom(f, Len(c) + 1) = 0
  BY <1>1, SumUnfold
<1>3. SumFrom(f, Len(c)) <= SumFrom(f, k)
  <2>1. k \in 1 .. Len(f) + 1 /\ Len(c) \in k .. Len(f) + 1
    BY <1>1
  <2> QED
    BY <1>1, <2>1, SumGrows
<1> QED
  BY <1>1, <1>2, <1>3 DEF f, SizeFrom

LEMMA InitWalk == Init => WalkInv
BY DEF Init, WalkInv, Walked, Cut, Counted

LEMMA AskWalk ==
  ASSUME Inv, WalkInv, Inv', NEW s \in Sizes, NEW b \in BOOLEAN,
         NEW t \in MaxTokenSettings, Ask(s, b, t)
  PROVE  WalkInv'
<1>0. s \in Nat /\ chat \in Seq([size : Nat, usageTokens : Nat])
      /\ chat' \in Seq([size : Nat, usageTokens : Nat])
  BY SizesAssumption DEF Inv, TypeOK
<1>1. Walked'
  <2>1. first' = Len(chat') + 1 /\ sumTokens' = 0
    BY DEF Ask
  <2> QED
    BY <1>0, <2>1, UsageUnfold DEF Walked
<1>2. Cut'
  BY DEF Cut, Ask
<1>3. Counted'
  BY <1>0, FilteredCounted DEF Ask, WalkInv, Counted
<1> QED
  BY <1>1, <1>2, <1>3 DEF WalkInv

LEMMA AskAboutImageWalk ==
  ASSUME Inv, WalkInv, Inv', NEW s \in Sizes, NEW b \in BOOLEAN, NEW a \in Sizes,
         NEW d \in BOOLEAN, AskAboutImage(s, b, a, d)
  PROVE  WalkInv'
<1>0. s \in Nat /\ a \in Nat /\ chat \in Seq([size : Nat, usageTokens : Nat])
  BY SizesAssumption DEF Inv, TypeOK
<1> DEFINE c == chat \o Filtered(Item(s, 0), b)
<1>1. c \in Seq([size : Nat, usageTokens : Nat])
  BY <1>0, FilteredTyped
<1>2. \A j \in 1 .. Len(c) : ItemCounted(c[j])
  BY <1>0, FilteredCounted DEF WalkInv, Counted
<1>3. chat' = c \o Filtered(Item(a, 0), d)
  BY DEF AskAboutImage
<1> HIDE DEF c
<1>4. Counted'
  BY <1>0, <1>1, <1>2, <1>3, FilteredCounted DEF Counted
<1>5. Walked' /\ Cut'
  BY DEF Walked, Cut, AskAboutImage
<1> QED
  BY <1>4, <1>5 DEF WalkInv

LEMMA CommandWalk ==
  ASSUME Inv, WalkInv, Inv', NEW s \in Sizes, Command(s)
  PROVE  WalkInv'
<1>0. s \in Nat /\ chat \in Seq([size : Nat, usageTokens : Nat])
  BY SizesAssumption DEF Inv, TypeOK
<1>1. chat' = chat \o Filtered(Item(s, 0), TRUE)
  BY <1>0 DEF Command, Filtered, Item
<1>2. Counted'
  BY <1>0, <1>1, FilteredCounted DEF WalkInv, Counted
<1>3. Walked' /\ Cut'
  BY DEF Walked, Cut, Command
<1> QED
  BY <1>2, <1>3 DEF WalkInv

(* Take adds the usage of the message it takes.                            *)
LEMMA TakeWalk ==
  ASSUME Inv, WalkInv, Inv', Take
  PROVE  WalkInv'
<1>0. /\ pc = "walking" /\ first' = first - 1 /\ UNCHANGED <<chat, pc>>
      /\ sumTokens' = sumTokens + chat[first - 1].usageTokens
      /\ first - 1 >= 1 /\ first \in 1 .. Len(chat) + 1
      /\ chat \in Seq([size : Nat, usageTokens : Nat]) /\ Len(chat) \in Nat
      /\ sumTokens = UsageFrom(chat, first)
  BY DEF Inv, TypeOK, Window, Take, Fits, WalkInv, Walked
<1>1. first - 1 \in 1 .. Len(chat) /\ (first - 1) + 1 = first
  BY <1>0
<1>2. /\ UsageFrom(chat, first - 1) = chat[first - 1].usageTokens + UsageFrom(chat, first)
      /\ UsageFrom(chat, first) \in Nat /\ chat[first - 1].usageTokens \in Nat
  BY <1>0, <1>1, UsageUnfold, FieldsTyped
<1>3. Walked'
  <2>1. sumTokens' = UsageFrom(chat, first - 1)
    BY <1>0, <1>2
  <2>2. chat' = chat /\ first' = first - 1
    BY <1>0
  <2> QED
    BY <2>1, <2>2, Zenon DEF Walked
<1>4. Cut' /\ Counted'
  BY <1>0 DEF WalkInv, Cut, Counted
<1> QED
  BY <1>3, <1>4 DEF WalkInv

(* Stop comes at the start of the conversation or where the next message   *)
(* would not fit.                                                          *)
LEMMA StopWalk ==
  ASSUME Inv, WalkInv, Inv', Stop
  PROVE  WalkInv'
<1>0. /\ pc = "walking" /\ ~Fits(first - 1)
      /\ UNCHANGED <<chat, first, sumTokens, maxTokens>>
      /\ first \in 1 .. Len(chat) + 1
      /\ chat \in Seq([size : Nat, usageTokens : Nat]) /\ Len(chat) \in Nat
      /\ sumTokens \in Nat /\ maxTokens \in MaxTokenSettings
  BY DEF Inv, TypeOK, Window, Stop
<1>1. Walked' /\ Counted'
  BY <1>0 DEF WalkInv, Walked, Counted
<1>2. Cut'
  <2>1. first = 1 \/ sumTokens + chat[first - 1].usageTokens > AvailableTokens(maxTokens)
    <3>1. SUFFICES ASSUME first # 1
                   PROVE  sumTokens + chat[first - 1].usageTokens > AvailableTokens(maxTokens)
      OBVIOUS
    <3>2. first - 1 \in 1 .. Len(chat) /\ first - 1 >= 1
      BY <1>0, <3>1
    <3>3. chat[first - 1].usageTokens \in Nat /\ AvailableTokens(maxTokens) \in Nat
      BY <1>0, <3>2, FieldsTyped, PlanLeavesRoom
    <3>4. ~(sumTokens + chat[first - 1].usageTokens <= AvailableTokens(maxTokens))
      BY <1>0, <3>2 DEF Fits
    <3> QED
      BY <1>0, <3>3, <3>4
  <2> QED
    BY <1>0, <2>1 DEF Cut
<1> QED
  BY <1>1, <1>2 DEF WalkInv

LEMMA RestartWalk ==
  ASSUME Inv, WalkInv, Inv', NEW t \in MaxTokenSettings, Restart(t)
  PROVE  WalkInv'
<1>1. /\ chat' = chat /\ first' = Len(chat) + 1 /\ sumTokens' = 0 /\ pc' = "walking"
      /\ chat \in Seq([size : Nat, usageTokens : Nat])
  BY DEF Inv, TypeOK, Restart
<1>2. UsageFrom(chat, Len(chat) + 1) = 0
  BY <1>1, UsageUnfold
<1> QED
  BY <1>1, <1>2 DEF WalkInv, Walked, Cut, Counted

(* The prompt's tokens, which a question that passed the filter gets, are  *)
(* no fewer than its own: the question was part of the prompt.             *)
LEMMA RespondWalk ==
  ASSUME Inv, WalkInv, Inv', NEW p \in 0 .. ContextTokens, NEW a \in Sizes,
         NEW b \in BOOLEAN, Respond(p, a, b)
  PROVE  WalkInv'
<1> DEFINE n == Len(chat)
           c == WithUsage(p)
<1>0. /\ a \in Nat /\ p \in Nat
      /\ chat \in Seq([size : Nat, usageTokens : Nat]) /\ n \in Nat /\ n >= 1
      /\ first \in 1 .. n + 1 /\ (kept => first <= n) /\ pc' = "idle"
      /\ p = SizeFrom(chat, first)
      /\ chat' = c \o Filtered(Item(a, a), b)
  BY SizesAssumption, SettingsAssumption DEF Inv, TypeOK, Window, Reserved, Respond
<1>1. c \in Seq([size : Nat, usageTokens : Nat])
  BY <1>0, UsageSet DEF WithUsage
<1>2. \A j \in 1 .. Len(c) : ItemCounted(c[j])
  <2>1. CASE ~kept
    BY <2>1 DEF WithUsage, WalkInv, Counted
  <2>2. CASE kept
    <3>1. c = [chat EXCEPT ![n].usageTokens = p]
      BY <2>2 DEF WithUsage
    <3>2. /\ Len(c) = n /\ \A j \in 1 .. n : j # n => c[j] = chat[j]
          /\ c[n].size = chat[n].size /\ c[n].usageTokens = p
      BY <1>0, <3>1, UsageSet
    <3>3. chat[n].size <= p
      <4>1. first \in 1 .. n
        BY <1>0, <2>2
      <4> QED
        BY <1>0, <4>1, NewestInSize
    <3> HIDE DEF c
    <3>4. ASSUME NEW j \in 1 .. n PROVE ItemCounted(c[j])
      <4>1. CASE j = n
        BY <3>2, <3>3, <4>1 DEF ItemCounted
      <4>2. CASE j # n
        BY <3>2, <4>2 DEF WalkInv, Counted
      <4> QED
        BY <4>1, <4>2
    <3> QED
      BY <3>2, <3>4
  <2> QED
    BY <2>1, <2>2
<1> HIDE DEF c
<1>3. Counted'
  <2>1. a = 0 \/ a <= a
    BY <1>0
  <2>2. chat' = c \o Filtered(Item(a, a), b) /\ a \in Nat
    BY <1>0
  <2> QED
    BY <1>1, <1>2, <2>1, <2>2, FilteredCounted, Zenon DEF Counted
<1>4. Walked' /\ Cut'
  BY <1>0 DEF Walked, Cut
<1> QED
  BY <1>3, <1>4 DEF WalkInv

LEMMA NextWalk ==
  ASSUME Inv, WalkInv, Inv', [Next]_vars
  PROVE  WalkInv'
<1>1. CASE \E s \in Sizes, b \in BOOLEAN, t \in MaxTokenSettings : Ask(s, b, t)
  BY <1>1, AskWalk
<1>2. CASE \E s, a \in Sizes, b, d \in BOOLEAN : AskAboutImage(s, b, a, d)
  BY <1>2, AskAboutImageWalk
<1>3. CASE Take
  BY <1>3, TakeWalk
<1>4. CASE Stop
  BY <1>4, StopWalk
<1>5. CASE \E t \in MaxTokenSettings : Restart(t)
  BY <1>5, RestartWalk
<1>6. CASE \E p \in 0 .. ContextTokens, a \in Sizes, b \in BOOLEAN : Respond(p, a, b)
  BY <1>6, RespondWalk
<1>7. CASE NewChat
  BY <1>7 DEF WalkInv, Walked, Cut, Counted, NewChat
<1>8. CASE \E s \in Sizes : Command(s)
  BY <1>8, CommandWalk
<1>9. CASE UNCHANGED vars
  BY <1>9 DEF WalkInv, Walked, Cut, Counted, vars
<1> QED
  BY <1>1, <1>2, <1>3, <1>4, <1>5, <1>6, <1>7, <1>8, <1>9 DEF Next

(* Runs that start before the cut have the usage of the message that did   *)
(* not fit; those that start after it are part of what was taken.          *)
LEMMA WalkLongest == Inv /\ WalkInv => LongestWindow
<1> SUFFICES ASSUME Inv, WalkInv, pc = "waiting"
             PROVE  /\ sumTokens = UsageFrom(chat, first)
                    /\ \A k \in 1 .. Len(chat) :
                         k >= first <=> UsageFrom(chat, k) <= AvailableTokens(maxTokens)
  BY DEF LongestWindow
<1> DEFINE f == UsagesOf(chat)
           room == AvailableTokens(maxTokens)
<1>0. /\ chat \in Seq([size : Nat, usageTokens : Nat]) /\ Len(chat) \in Nat
      /\ first \in 1 .. Len(chat) + 1 /\ sumTokens \in Nat
      /\ sumTokens = UsageFrom(chat, first) /\ sumTokens <= room
      /\ first = 1 \/ sumTokens + chat[first - 1].usageTokens > room
  BY DEF Inv, TypeOK, Window, Reserved, WalkInv, Walked, Cut
<1>1. room \in Nat
  BY PlanLeavesRoom DEF Inv, TypeOK
<1>2. f \in Seq(Nat) /\ Len(f) = Len(chat) /\ \A k : UsageFrom(chat, k) = SumFrom(f, k)
  BY <1>0, FieldsTyped DEF UsageFrom
<1> HIDE DEF f, room
<1>3. ASSUME NEW k \in 1 .. Len(chat), k >= first PROVE UsageFrom(chat, k) <= room
  <2>1. first \in 1 .. Len(f) + 1 /\ k \in first .. Len(f) + 1
    BY <1>0, <1>2, <1>3
  <2>2. SumFrom(f, k) <= SumFrom(f, first)
    BY <1>2, <2>1, SumGrows
  <2>3. UsageFrom(chat, k) \in Nat
    BY <1>0, UsageUnfold
  <2> QED
    BY <1>0, <1>1, <1>2, <2>2, <2>3
<1>4. ASSUME NEW k \in 1 .. Len(chat), ~(k >= first) PROVE ~(UsageFrom(chat, k) <= room)
  <2>1. /\ first - 1 \in 1 .. Len(chat) /\ (first - 1) + 1 = first /\ first # 1
        /\ k \in 1 .. Len(f) + 1 /\ first - 1 \in k .. Len(f) + 1
    <3> DEFINE n == Len(chat)
    <3>1. n \in Nat /\ first \in 1 .. n + 1 /\ k \in 1 .. n /\ ~(k >= first) /\ Len(f) = n
      BY <1>0, <1>2, <1>4
    <3> HIDE DEF n
    <3>2. /\ first - 1 \in 1 .. n /\ (first - 1) + 1 = first /\ first # 1
          /\ k \in 1 .. n + 1 /\ first - 1 \in k .. n + 1
      BY <3>1
    <3> QED
      BY <3>1, <3>2 DEF n
  <2>2. SumFrom(f, first - 1) <= SumFrom(f, k)
    BY <1>2, <2>1, SumGrows
  <2>3. UsageFrom(chat, first - 1) = chat[first - 1].usageTokens + UsageFrom(chat, first)
    BY <1>0, <2>1, UsageUnfold
  <2>4. UsageFrom(chat, k) \in Nat /\ chat[first - 1].usageTokens \in Nat
    <3>1. k \in 1 .. Len(chat) + 1
      BY <1>2, <2>1
    <3>2. UsageFrom(chat, k) \in Nat
      BY <1>0, <3>1, UsageUnfold
    <3> QED
      BY <1>0, <2>1, <3>2, FieldsTyped
  <2>5. UsageFrom(chat, first - 1) <= UsageFrom(chat, k)
    BY <1>2, <2>2
  <2> DEFINE u == chat[first - 1].usageTokens
             w == UsageFrom(chat, k)
  <2>6. u \in Nat /\ w \in Nat /\ u + sumTokens <= w /\ sumTokens + u > room
    BY <1>0, <2>1, <2>3, <2>4, <2>5
  <2> HIDE DEF u, w
  <2>7. ~(w <= room)
    BY <1>0, <1>1, <2>6
  <2> QED
    BY <2>7 DEF w
<1> QED
  BY <1>0, <1>3, <1>4 DEF room

(* Every message of the prompt is counted, by its usage or among the       *)
(* uncounted ones.                                                         *)
LEMMA WalkPromptFits == Inv /\ WalkInv => PromptFits
<1> SUFFICES ASSUME Inv, WalkInv, pc = "waiting"
             PROVE  SizeFrom(chat, first)
                      <= AvailableTokens(maxTokens) + SumFrom(UncountedOf(chat), first)
  BY DEF PromptFits
<1> DEFINE f == SizesOf(chat)
           g == UsagesOf(chat)
           h == UncountedOf(chat)
<1>0. /\ chat \in Seq([size : Nat, usageTokens : Nat]) /\ Len(chat) \in Nat
      /\ first \in 1 .. Len(chat) + 1 /\ sumTokens \in Nat
      /\ sumTokens = UsageFrom(chat, first) /\ sumTokens <= AvailableTokens(maxTokens)
  BY DEF Inv, TypeOK, Window, Reserved, WalkInv, Walked
<1>1. AvailableTokens(maxTokens) \in Nat
  BY PlanLeavesRoom DEF Inv, TypeOK
<1>2. /\ f \in Seq(Nat) /\ g \in Seq(Nat) /\ h \in Seq(Nat)
      /\ Len(f) = Len(chat) /\ Len(g) = Len(f) /\ Len(h) = Len(f)
  BY <1>0, FieldsTyped
<1>3. \A j \in 1 .. Len(chat) : f[j] <= g[j] + h[j]
  <2>1. ASSUME NEW j \in 1 .. Len(chat) PROVE f[j] <= g[j] + h[j]
    <3>1. /\ f[j] = chat[j].size /\ g[j] = chat[j].usageTokens
          /\ h[j] = IF chat[j].usageTokens = 0 THEN chat[j].size ELSE 0
          /\ chat[j].size \in Nat /\ chat[j].usageTokens \in Nat
      BY <1>0, FieldsTyped
    <3>2. chat[j].usageTokens = 0 \/ chat[j].size <= chat[j].usageTokens
      BY DEF WalkInv, Counted, ItemCounted
    <3> HIDE DEF f, g, h
    <3> QED
      BY <3>1, <3>2
  <2> QED
    BY <2>1
<1>4. SizeFrom(chat, first) = SumFrom(f, first) /\ UsageFrom(chat, first) = SumFrom(g, first)
  BY DEF SizeFrom, UsageFrom
<1> HIDE DEF f, g, h
<1>5. first \in 1 .. Len(f) + 1
  BY <1>0, <1>2
<1>6. SumFrom(f, first) <= SumFrom(g, first) + SumFrom(h, first)
  BY <1>2, <1>3, <1>5, SumBounded
<1>7. SumFrom(f, first) \in Nat /\ SumFrom(g, first) \in Nat /\ SumFrom(h, first) \in Nat
  BY <1>2, <1>5, SumUnfold
<1>8. SumFrom(f, first) <= AvailableTokens(maxTokens) + SumFrom(h, first)
  BY <1>0, <1>1, <1>4, <1>6, <1>7
<1> QED
  BY <1>4, <1>8 DEF h

(* The inductive invariant holds in every state.                           *)
THEOREM Invariance == Spec => []Inv
<1> QED
  BY InitInv, NextInv, PTL DEF Spec

(* The state of the loop is well typed; its sum never becomes negative.    *)
THEOREM TypeCorrect == Spec => []TypeOK
<1>1. Inv => TypeOK
  BY DEF Inv
<1> QED
  BY <1>1, Invariance, PTL

(* What _sendTurbo puts in a request (the counted prompt, the reserve and  *)
(* max_tokens) fits the model, and max_tokens is at least half of what the *)
(* plan allows.                                                            *)
THEOREM RequestsFit == Spec => []Budget
<1>1. Inv => Budget
  BY InvBudget
<1> QED
  BY <1>1, Invariance, PTL

(* The loop of _sendTurbo never cuts off the question being asked, unless  *)
(* the filter of _sendText has removed it before.                          *)
THEOREM NewestQuestionSent == Spec => []QuestionSent
<1>1. Inv => QuestionSent
  BY InvBudget
<1> QED
  BY <1>1, Invariance, PTL

(* What the walk of _sendTurbo has counted, in every state.                *)
THEOREM WalkInvariance == Spec => []WalkInv
<1>1. Inv /\ WalkInv /\ Inv' /\ [Next]_vars => WalkInv'
  BY NextWalk
<1> QED
  BY <1>1, InitWalk, Invariance, PTL DEF Spec

(* The loop of _sendTurbo sends the longest run of newest messages whose   *)
(* usage fits: one more message would not, and none of the run is left     *)
(* out.                                                                    *)
THEOREM WindowIsLongest == Spec => []LongestWindow
<1> QED
  BY WalkLongest, Invariance, WalkInvariance, PTL

(* The real prompt exceeds the budget by no more than the messages to      *)
(* which handleSendTextResponse has given no usage.                        *)
THEOREM PromptWithinBudget == Spec => []PromptFits
<1> QED
  BY WalkPromptFits, Invariance, WalkInvariance, PTL
=============================================================================
