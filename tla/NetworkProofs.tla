---------------------------- MODULE NetworkProofs ----------------------------
(***************************************************************************)
(* The three components that talk to the network, each on its own: the     *)
(* text service's requests for any set of requests, the server time for    *)
(* any clock offsets, number of quick retries and activations, and the     *)
(* network monitor for any number of changes of the network and of paths   *)
(* that wait on its queues.                                                *)
(***************************************************************************)
EXTENDS TextRequest, ServerTime, NetworkMonitor, SequenceTheorems, TLAPS

-----------------------------------------------------------------------------
(* The text service: RequestsInOrder, next to TypeOK, is inductive; the    *)
(* properties and the step simulation of AskOnce follow from it.           *)
Inv == TypeOK /\ RequestsInOrder

(* Another request's step leaves r where it was, but may find the key.     *)
LEMMA ProgressFrame ==
  ASSUME NEW r \in Requests, Progress(r), aikey = "key" => aikey' = "key",
         pc'[r] = pc[r], result'[r] = result[r], mayRefresh'[r] = mayRefresh[r],
         posts'[r] = posts[r], fetches'[r] = fetches[r]
  PROVE  Progress(r)'
  BY DEF Progress

(* The control state of every request tells how often it was posted, what  *)
(* it may still do and whether its completion was called.                  *)
THEOREM Invariance == Spec => []Inv
<1>1. Init => Inv
  <2> SUFFICES ASSUME Init PROVE Inv
    OBVIOUS
  <2>1. TypeOK
    BY DEF Init, TypeOK
  <2>2. ASSUME NEW r \in Requests PROVE Progress(r)
    BY DEF Init, Progress
  <2> QED
    BY <2>1, <2>2 DEF Inv, RequestsInOrder
<1>2. Inv /\ [Next]_vars => Inv'
  <2> SUFFICES ASSUME Inv, [Next]_vars PROVE Inv'
    OBVIOUS
  <2> USE DEF Inv
  <2>1. CASE LaunchFetchEnds
    <3>1. TypeOK'
      BY <2>1 DEF LaunchFetchEnds, TypeOK
    <3>2. ASSUME NEW r \in Requests PROVE Progress(r)'
      <4>1. Progress(r)
        BY DEF TypeOK, RequestsInOrder
      <4> QED
        BY <2>1, <4>1, ProgressFrame DEF LaunchFetchEnds
    <3> QED
      BY <3>1, <3>2 DEF RequestsInOrder
  <2>2. ASSUME NEW r \in Requests, Step(r) PROVE Inv'
    <3> DEFINE Others == \A s \in Requests : s # r =>
                           /\ pc'[s] = pc[s] /\ result'[s] = result[s]
                           /\ mayRefresh'[s] = mayRefresh[s]
                           /\ posts'[s] = posts[s] /\ fetches'[s] = fetches[s]
               Goal == TypeOK' /\ Progress(r)' /\ Others /\ (aikey = "key" => aikey' = "key")
    <3>0. Progress(r) /\ TypeOK
      BY DEF RequestsInOrder
    <3> SUFFICES Goal
      <4>1. ASSUME Goal, NEW s \in Requests, s # r PROVE Progress(s)'
        <5>1. Progress(s)
          BY <3>0 DEF RequestsInOrder, TypeOK
        <5> QED
          BY <4>1, <5>1, ProgressFrame
      <4> QED
        BY <4>1 DEF RequestsInOrder
    <3>1. CASE SendEmpty(r)
      <4>1. TypeOK'
        BY <3>0, <3>1 DEF SendEmpty, Complete, TypeOK
      <4>2. Progress(r)'
        BY <3>0, <3>1 DEF SendEmpty, Complete, TypeOK, Progress
      <4>3. Others /\ (aikey = "key" => aikey' = "key")
        BY <3>0, <3>1 DEF SendEmpty, Complete, TypeOK
      <4> QED
        BY <4>1, <4>2, <4>3
    <3>2. CASE SendText(r)
      <4>1. TypeOK'
        BY <3>0, <3>2 DEF SendText, Post, CheckRefreshKey, Complete, TypeOK
      <4>2. Progress(r)'
        BY <3>0, <3>2
        DEF SendText, Post, CheckRefreshKey, Complete, TypeOK, Progress
      <4>3. Others /\ (aikey = "key" => aikey' = "key")
        BY <3>0, <3>2 DEF SendText, Post, CheckRefreshKey, Complete, TypeOK
      <4> QED
        BY <4>1, <4>2, <4>3
    <3>3. CASE ResponseArrives(r)
      <4>1. TypeOK'
        BY <3>0, <3>3 DEF ResponseArrives, Complete, TypeOK
      <4>2. Progress(r)'
        BY <3>0, <3>3 DEF ResponseArrives, Complete, TypeOK, Progress
      <4>3. Others /\ (aikey = "key" => aikey' = "key")
        BY <3>0, <3>3 DEF ResponseArrives, Complete, TypeOK
      <4> QED
        BY <4>1, <4>2, <4>3
    <3>4. CASE ResponseFails(r)
      <4>1. TypeOK'
        BY <3>0, <3>4 DEF ResponseFails, CheckRefreshKey, Complete, TypeOK
      <4>2. Progress(r)'
        BY <3>0, <3>4 DEF ResponseFails, CheckRefreshKey, Complete, TypeOK, Progress
      <4>3. Others /\ (aikey = "key" => aikey' = "key")
        BY <3>0, <3>4 DEF ResponseFails, CheckRefreshKey, Complete, TypeOK
      <4> QED
        BY <4>1, <4>2, <4>3
    <3>5. CASE FetchEnds(r)
      <4>0. mayRefresh' \in [Requests -> BOOLEAN]
        BY <3>0, <3>5 DEF FetchEnds, TypeOK
      <4>1. TypeOK'
        BY <3>0, <3>5, <4>0 DEF FetchEnds, Post, Complete, TypeOK
      <4>2. Progress(r)'
        BY <3>0, <3>5 DEF FetchEnds, Post, Complete, TypeOK, Progress
      <4>3. Others /\ (aikey = "key" => aikey' = "key")
        BY <3>0, <3>5 DEF FetchEnds, Post, Complete, TypeOK
      <4> QED
        BY <4>1, <4>2, <4>3
    <3> QED
      BY <2>2, <3>1, <3>2, <3>3, <3>4, <3>5 DEF Step
  <2>3. CASE UNCHANGED vars
    BY <2>3 DEF vars, TypeOK, RequestsInOrder, Progress
  <2> QED
    BY <2>1, <2>2, <2>3 DEF Next
<1> QED
  BY <1>1, <1>2, PTL DEF Spec

(* Two posts and one fetch at most, for every question.                    *)
THEOREM AttemptsBounded == Spec => []BoundedAttempts
<1>1. Inv => BoundedAttempts
  <2> SUFFICES ASSUME Inv, NEW r \in Requests PROVE posts[r] <= 2 /\ fetches[r] <= 1
    BY DEF BoundedAttempts
  <2>1. Progress(r)
    BY DEF Inv, RequestsInOrder
  <2> QED
    BY <2>1 DEF Progress
<1> QED
  BY <1>1, Invariance, PTL

(* The settings were fetched again before a posted question is given up.   *)
THEOREM RefreshedBeforeGivingUp == Spec => []RefreshBeforeGivingUp
<1>1. Inv => RefreshBeforeGivingUp
  <2> SUFFICES ASSUME Inv, NEW r \in Requests, result[r] = "nil", posts[r] > 0
               PROVE  fetches[r] = 1
    BY DEF RefreshBeforeGivingUp
  <2>1. Progress(r)
    BY DEF Inv, RequestsInOrder
  <2> QED
    BY <2>1 DEF Progress
<1> QED
  BY <1>1, Invariance, PTL

(* Every post has a key.                                                   *)
THEOREM PostsHaveKey == Spec => []KeyBeforePost
<1>1. Inv => KeyBeforePost
  BY DEF Inv, RequestsInOrder, Progress, KeyBeforePost
<1> QED
  BY <1>1, Invariance, PTL

(* The safety half of the contract: a completion is called at most once,   *)
(* for a request that was made, and never changes.  (That it is called at  *)
(* all rests on fairness and is checked by TLC.)                           *)
THEOREM CompletesAtMostOnce == Spec => Contract!Init /\ [][Contract!Next]_Outcome
<1>1. Init => Contract!Init
  BY DEF Init, Contract!Init, Outcome
<1>2. Inv /\ [Next]_vars => [Contract!Next]_Outcome
  <2> SUFFICES ASSUME Inv, [Next]_vars, Outcome' # Outcome PROVE Contract!Next
    OBVIOUS
  <2>1. CASE LaunchFetchEnds
    BY <2>1 DEF LaunchFetchEnds, Outcome
  <2>2. CASE UNCHANGED vars
    BY <2>2 DEF vars, Outcome
  <2>3. ASSUME NEW r \in Requests, Step(r) PROVE Contract!Next
    <3>1. TypeOK /\ Progress(r)
      BY DEF Inv, RequestsInOrder
    <3>2. CASE SendEmpty(r)
      <4>1. Outcome[r] = "none" /\ Outcome' = [Outcome EXCEPT ![r] = "nil"]
        BY <3>1, <3>2 DEF SendEmpty, Complete, TypeOK, Progress, Outcome
      <4> QED
        BY <4>1 DEF Contract!Next, Contract!Refuse
    <3>3. CASE SendText(r)
      <4>1. Outcome[r] = "none" /\ Outcome' = [Outcome EXCEPT ![r] = "asked"]
        BY <3>1, <3>3
        DEF SendText, Post, CheckRefreshKey, Complete, TypeOK, Progress, Outcome
      <4> QED
        BY <4>1 DEF Contract!Next, Contract!Ask
    <3>4. CASE ResponseArrives(r)
      <4>1. Outcome[r] = "asked" /\ Outcome' = [Outcome EXCEPT ![r] = "answer"]
        BY <3>1, <3>4 DEF ResponseArrives, Complete, TypeOK, Progress, Outcome
      <4> QED
        BY <4>1 DEF Contract!Next, Contract!Complete
    <3>5. CASE ResponseFails(r)
      <4>1. CASE mayRefresh[r]
        <5>1. Outcome' = Outcome
          BY <3>1, <3>5, <4>1
          DEF ResponseFails, CheckRefreshKey, Complete, TypeOK, Progress, Outcome
        <5> QED
          BY <5>1
      <4>2. CASE ~mayRefresh[r]
        <5>1. Outcome[r] = "asked" /\ Outcome' = [Outcome EXCEPT ![r] = "nil"]
          BY <3>1, <3>5, <4>2
          DEF ResponseFails, CheckRefreshKey, Complete, TypeOK, Progress, Outcome
        <5> QED
          BY <5>1 DEF Contract!Next, Contract!Complete
      <4> QED
        BY <4>1, <4>2
    <3>6. CASE FetchEnds(r)
      <4>1. CASE aikey' = "key"
        <5>1. Outcome' = Outcome
          BY <3>1, <3>6, <4>1
          DEF FetchEnds, Post, Complete, TypeOK, Progress, Outcome
        <5> QED
          BY <5>1
      <4>2. CASE aikey' # "key"
        <5>1. Outcome[r] = "asked" /\ Outcome' = [Outcome EXCEPT ![r] = "nil"]
          BY <3>1, <3>6, <4>2
          DEF FetchEnds, Post, Complete, TypeOK, Progress, Outcome
        <5> QED
          BY <5>1 DEF Contract!Next, Contract!Complete
      <4> QED
        BY <4>1, <4>2
    <3> QED
      BY <2>3, <3>2, <3>3, <3>4, <3>5, <3>6 DEF Step
  <2> QED
    BY <2>1, <2>2, <2>3 DEF Next
<1> QED
  BY <1>1, <1>2, Invariance, PTL DEF Spec

-----------------------------------------------------------------------------
(* The server time: each invariant is inductive next to TimeTypeOK.        *)

(* Counters stay in their ranges and timeDifference is nil or an offset,   *)
(* through every handler of ServerTimeManager.                             *)
THEOREM TimeTypeCorrect == TimeSpec => []TimeTypeOK
<1>1. TimeInit => TimeTypeOK
  <2> SUFFICES ASSUME TimeInit PROVE TimeTypeOK
    OBVIOUS
  <2>1. isLoading \in BOOLEAN /\ active \in BOOLEAN /\ refreshed \in BOOLEAN
    BY DEF TimeInit
  <2>2. timeDifference \in Offsets \cup {NoDifference}
    BY DEF TimeInit
  <2> QED
    BY <2>1, <2>2, QuickRetriesAssumption, MaxActivationsAssumption
    DEF TimeInit, TimeTypeOK
<1>2. TimeTypeOK /\ [TimeNext]_timeVars => TimeTypeOK'
  <2> SUFFICES ASSUME TimeTypeOK, [TimeNext]_timeVars PROVE TimeTypeOK'
    OBVIOUS
  <2> USE QuickRetriesAssumption, MaxActivationsAssumption DEF TimeTypeOK
  <2>1. CASE BecomeActive
    BY <2>1 DEF BecomeActive, RequestTimestamp, timers
  <2>2. CASE ResignActive
    BY <2>2 DEF ResignActive, timers
  <2>3. CASE \E o \in Offsets : SetClock(o)
    BY <2>3 DEF SetClock, timers
  <2>4. CASE TimestampArrives
    <3>1. isLoading' \in BOOLEAN
      BY <2>4 DEF TimestampArrives
    <3> QED
      BY <2>4, <3>1 DEF TimestampArrives, timers, scene
  <2>5. CASE TimestampFails
    <3>1. isLoading' \in BOOLEAN
      BY <2>5 DEF TimestampFails
    <3> QED
      BY <2>5, <3>1 DEF TimestampFails, scene
  <2>6. CASE RetryTimerFires
    BY <2>6 DEF RetryTimerFires, RequestTimestamp, scene
  <2>7. CASE UNCHANGED timeVars
    BY <2>7 DEF timeVars
  <2> QED
    BY <2>1, <2>2, <2>3, <2>4, <2>5, <2>6, <2>7 DEF TimeNext
<1> QED
  BY <1>1, <1>2, PTL DEF TimeSpec

(* A wrong or missing difference always has a request in flight or a retry *)
(* on a timer: no interleaving of activations, dropped requests, failures  *)
(* and timers loses the last retry.                                        *)
THEOREM NoRetryLost == TimeSpec => []RetryNeverLost
<1>1. TimeInit => RetryNeverLost
  BY DEF TimeInit, RetryNeverLost
<1>2. TimeTypeOK /\ RetryNeverLost /\ [TimeNext]_timeVars => RetryNeverLost'
  <2> SUFFICES ASSUME TimeTypeOK, RetryNeverLost, [TimeNext]_timeVars
               PROVE  RetryNeverLost'
    OBVIOUS
  <2> USE DEF TimeTypeOK, RetryNeverLost
  <2>1. CASE BecomeActive
    BY <2>1 DEF BecomeActive, RequestTimestamp
  <2>2. CASE ResignActive
    BY <2>2 DEF ResignActive, timers
  <2>3. CASE \E o \in Offsets : SetClock(o)
    BY <2>3 DEF SetClock
  <2>4. CASE TimestampArrives
    BY <2>4 DEF TimestampArrives, scene
  <2>5. CASE TimestampFails
    BY <2>5 DEF TimestampFails
  <2>6. CASE RetryTimerFires
    BY <2>6 DEF RetryTimerFires, RequestTimestamp
  <2>7. CASE UNCHANGED timeVars
    BY <2>7 DEF timeVars
  <2> QED
    BY <2>1, <2>2, <2>3, <2>4, <2>5, <2>6, <2>7 DEF TimeNext
<1> QED
  BY <1>1, <1>2, TimeTypeCorrect, PTL DEF TimeSpec

(* The retry chains alive never outnumber the activations.                 *)
THEOREM ChainsBounded == TimeSpec => []OneChainPerActivation
<1>1. TimeInit => OneChainPerActivation
  BY DEF TimeInit, OneChainPerActivation, Chains
<1>2. TimeTypeOK /\ OneChainPerActivation /\ [TimeNext]_timeVars => OneChainPerActivation'
  <2> SUFFICES ASSUME TimeTypeOK, OneChainPerActivation, [TimeNext]_timeVars
               PROVE  OneChainPerActivation'
    OBVIOUS
  <2> USE MaxActivationsAssumption DEF TimeTypeOK, OneChainPerActivation, Chains
  <2>1. CASE BecomeActive
    BY <2>1 DEF BecomeActive, RequestTimestamp, timers
  <2>2. CASE ResignActive
    BY <2>2 DEF ResignActive, timers
  <2>3. CASE \E o \in Offsets : SetClock(o)
    BY <2>3 DEF SetClock, timers
  <2>4. CASE TimestampArrives
    BY <2>4 DEF TimestampArrives, timers, scene
  <2>5. CASE TimestampFails
    BY <2>5 DEF TimestampFails, scene
  <2>6. CASE RetryTimerFires
    BY <2>6 DEF RetryTimerFires, RequestTimestamp, scene
  <2>7. CASE UNCHANGED timeVars
    BY <2>7 DEF timeVars
  <2> QED
    BY <2>1, <2>2, <2>3, <2>4, <2>5, <2>6, <2>7 DEF TimeNext
<1> QED
  BY <1>1, <1>2, TimeTypeCorrect, PTL DEF TimeSpec

-----------------------------------------------------------------------------
(* The network monitor.                                                    *)

(* The last report that is still on its way, or else the last one handled, *)
(* is the network as it is now.                                            *)
LastReport ==
  \/ /\ workers # <<>>
     /\ workers[Len(workers)] = network
  \/ /\ workers = <<>> /\ main # <<>>
     /\ main[Len(main)] = network
  \/ /\ workers = <<>> /\ main = <<>>
     /\ start = "handling" /\ isConnected = network

(* KnowsNetwork made inductive: a closed chat has nothing on its queues,   *)
(* nothing reaches the main queue before the handler is set, and as long   *)
(* as no path was dropped or overtaken the last report tells the network.  *)
ReportsInv ==
  /\ start = "closed" => workers = <<>> /\ main = <<>> /\ ~lost /\ ~overtaken
  /\ start = "started" => main = <<>>
  /\ start # "closed" /\ ~lost /\ ~overtaken => LastReport

USE DEF queues, history

(* Removing a block leaves a queue of paths; when the first of several is  *)
(* removed the last one stays, and nothing is left of a single one.        *)
LEMMA RemoveAtProperties ==
  ASSUME NEW S, NEW s \in Seq(S), NEW i \in DOMAIN s
  PROVE  /\ RemoveAt(s, i) \in Seq(S)
         /\ Len(s) = 1 => RemoveAt(s, 1) = <<>>
         /\ Len(s) > 1 => /\ RemoveAt(s, 1) # <<>>
                          /\ RemoveAt(s, 1)[Len(RemoveAt(s, 1))] = s[Len(s)]
<1>1. /\ Len(s) \in Nat /\ DOMAIN s = 1 .. Len(s)
      /\ \A k \in 1 .. Len(s) : s[k] \in S
  BY ElementOfSeq, LenProperties
<1>2. ASSUME NEW k \in 1 .. Len(s) PROVE SubSeq(s, 1, k - 1) \in Seq(S)
  <2>1. 1 \in Int /\ k - 1 \in Int /\ \A j \in 1 .. k - 1 : s[j] \in S
    BY <1>1
  <2> QED
    BY <2>1, SubSeqProperties
<1>3. ASSUME NEW k \in 1 .. Len(s)
      PROVE  /\ SubSeq(s, k + 1, Len(s)) \in Seq(S)
             /\ Len(SubSeq(s, k + 1, Len(s))) = Len(s) - k
             /\ \A j \in 1 .. Len(s) - k : SubSeq(s, k + 1, Len(s))[j] = s[k + j]
  <2>1. k + 1 \in Int /\ Len(s) \in Int /\ \A j \in k + 1 .. Len(s) : s[j] \in S
    BY <1>1
  <2> DEFINE t == SubSeq(s, k + 1, Len(s))
  <2>2. /\ t \in Seq(S)
        /\ Len(t) = IF k + 1 <= Len(s) THEN Len(s) - (k + 1) + 1 ELSE 0
        /\ \A j \in 1 .. Len(s) - (k + 1) + 1 : t[j] = s[(k + 1) + j - 1]
    BY <2>1, SubSeqProperties
  <2> HIDE DEF t
  <2>3. Len(t) = Len(s) - k
    <3> DEFINE n == Len(s)
               L == Len(t)
    <3>1. n \in Nat /\ k \in 1 .. n
      BY <1>1
    <3>2. L = IF k + 1 <= n THEN n - (k + 1) + 1 ELSE 0
      BY <2>2, Zenon
    <3> HIDE DEF n, L
    <3>3. L = n - k
      BY <3>1, <3>2
    <3> QED
      BY <3>3 DEF n, L
  <2>4. ASSUME NEW j \in 1 .. Len(s) - k PROVE t[j] = s[k + j]
    <3>1. j \in 1 .. Len(s) - (k + 1) + 1 /\ (k + 1) + j - 1 = k + j
      BY <1>1
    <3> QED
      BY <2>2, <3>1
  <2> QED
    BY <2>2, <2>3, <2>4 DEF t
<1>4. RemoveAt(s, i) \in Seq(S)
  <2>1. i \in 1 .. Len(s)
    BY <1>1
  <2> QED
    BY <1>2, <1>3, <2>1, ConcatProperties DEF RemoveAt
<1>5. ASSUME Len(s) >= 1 PROVE RemoveAt(s, 1) = SubSeq(s, 2, Len(s))
  <2>1. 1 \in 1 .. Len(s) /\ 1 + 1 = 2 /\ 1 - 1 = 0
    BY <1>1, <1>5
  <2>2. SubSeq(s, 1, 0) = <<>>
    BY SubSeqEmpty
  <2>3. SubSeq(s, 2, Len(s)) \in Seq(S)
    BY <1>3, <2>1
  <2>4. RemoveAt(s, 1) = <<>> \o SubSeq(s, 2, Len(s))
    BY <2>1, <2>2 DEF RemoveAt
  <2> QED
    BY <2>3, <2>4, ConcatEmptySeq
<1>6. ASSUME Len(s) = 1 PROVE RemoveAt(s, 1) = <<>>
  BY <1>3, <1>5, <1>6, EmptySeq
<1>7. ASSUME Len(s) > 1
      PROVE  /\ RemoveAt(s, 1) # <<>>
             /\ RemoveAt(s, 1)[Len(RemoveAt(s, 1))] = s[Len(s)]
  <2> DEFINE t == RemoveAt(s, 1)
  <2>1. 1 \in 1 .. Len(s) /\ 1 + 1 = 2 /\ Len(s) >= 1
    BY <1>1, <1>7
  <2>2. /\ t \in Seq(S) /\ Len(t) = Len(s) - 1
        /\ \A j \in 1 .. Len(s) - 1 : t[j] = s[1 + j]
    BY <1>3, <1>5, <2>1
  <2>3. Len(s) - 1 \in 1 .. Len(s) - 1 /\ 1 + (Len(s) - 1) = Len(s)
    BY <1>1, <1>7
  <2> HIDE DEF t
  <2>4. t # <<>> /\ t[Len(t)] = s[Len(s)]
    BY <2>2, <2>3, <1>1, <1>7, EmptySeq
  <2> QED
    BY <2>4 DEF t
<1> QED
  BY <1>4, <1>6, <1>7

(* A queue with a path at its end, and what Tail and Append do to the end. *)
LEMMA QueueEnds ==
  ASSUME NEW S, NEW s \in Seq(S), NEW e \in S
  PROVE  /\ Append(s, e) \in Seq(S) /\ Append(s, e) # <<>>
         /\ Append(s, e)[Len(Append(s, e))] = e
         /\ s # <<>> => /\ Head(s) \in S /\ Tail(s) \in Seq(S)
                        /\ Tail(s) # <<>> => Tail(s)[Len(Tail(s))] = s[Len(s)]
                        /\ Tail(s) = <<>> => Head(s) = s[Len(s)]
<1>1. /\ Append(s, e) \in Seq(S) /\ Append(s, e) # <<>>
      /\ Append(s, e)[Len(Append(s, e))] = e
  BY AppendProperties
<1>2. ASSUME s # <<>>
      PROVE  /\ Head(s) \in S /\ Tail(s) \in Seq(S)
             /\ Tail(s) # <<>> => Tail(s)[Len(Tail(s))] = s[Len(s)]
             /\ Tail(s) = <<>> => Head(s) = s[Len(s)]
  <2>1. /\ Head(s) \in S /\ Tail(s) \in Seq(S) /\ Len(Tail(s)) = Len(s) - 1
        /\ \A i \in 1 .. Len(Tail(s)) : Tail(s)[i] = s[i + 1]
    BY <1>2, HeadTailProperties
  <2>2. Len(s) \in Nat /\ Len(s) # 0
    BY <1>2, EmptySeq, LenProperties
  <2>3. ASSUME Tail(s) # <<>> PROVE Tail(s)[Len(Tail(s))] = s[Len(s)]
    <3>1. Len(Tail(s)) \in Nat /\ Len(Tail(s)) # 0
      BY <2>1, <2>3, EmptySeq, LenProperties
    <3>2. Len(Tail(s)) \in 1 .. Len(Tail(s)) /\ Len(Tail(s)) + 1 = Len(s)
      BY <2>1, <2>2, <3>1
    <3> QED
      BY <2>1, <3>2
  <2>4. ASSUME Tail(s) = <<>> PROVE Head(s) = s[Len(s)]
    <3>1. Len(s) = 1
      <4> DEFINE t == Tail(s)
      <4>1. t \in Seq(S) /\ Len(t) = Len(s) - 1 /\ t = <<>>
        BY <2>1, <2>4, Zenon
      <4> HIDE DEF t
      <4>2. Len(t) = 0
        BY <4>1, EmptySeq
      <4> QED
        BY <2>2, <4>1, <4>2
    <3> QED
      BY <3>1
  <2> QED
    BY <2>1, <2>3, <2>4
<1> QED
  BY <1>1, <1>2

(* One path is a queue with that path at its end.                          *)
LEMMA SingleQueue ==
  ASSUME NEW S, NEW e \in S
  PROVE  <<e>> \in Seq(S) /\ <<e>> # <<>> /\ <<e>>[Len(<<e>>)] = e
OBVIOUS

-----------------------------------------------------------------------------
(* Every handler leaves flags, a count within the bound and queues of      *)
(* paths, whichever block of the concurrent queue runs first.              *)
THEOREM NetTypeCorrect == NetSpec => []NetTypeOK
<1>1. NetInit => NetTypeOK
  <2>1. <<>> \in Seq(BOOLEAN) /\ 0 \in 0 .. MaxChanges
    BY MaxChangesAssumption
  <2> QED
    BY <2>1, Zenon DEF NetInit, NetTypeOK
<1>2. NetTypeOK /\ [NetNext]_netVars => NetTypeOK'
  <2> SUFFICES ASSUME NetTypeOK, [NetNext]_netVars PROVE NetTypeOK'
    OBVIOUS
  <2> USE DEF NetTypeOK
  <2>1. CASE Start
    BY <2>1, SingleQueue DEF Start
  <2>2. CASE SetHandler
    BY <2>2 DEF SetHandler
  <2>3. CASE NetworkChanges
    <3>1. network' \in BOOLEAN /\ (~network) \in BOOLEAN
      BY <2>3 DEF NetworkChanges
    <3>2. changes' \in 0 .. MaxChanges
      BY <2>3, MaxChangesAssumption DEF NetworkChanges
    <3>3. workers' \in Seq(BOOLEAN)
      BY <2>3, <3>1, QueueEnds DEF NetworkChanges
    <3> QED
      BY <2>3, <3>1, <3>2, <3>3 DEF NetworkChanges
  <2>4. ASSUME NEW i \in DOMAIN workers, WorkerRuns(i) PROVE NetTypeOK'
    <3>1. workers' \in Seq(BOOLEAN) /\ workers[i] \in BOOLEAN
      BY <2>4, RemoveAtProperties, ElementOfSeq DEF WorkerRuns
    <3>2. main' \in Seq(BOOLEAN)
      <4>1. Append(main, workers[i]) \in Seq(BOOLEAN)
        BY <3>1, QueueEnds
      <4> QED
        BY <2>4, <4>1 DEF WorkerRuns
    <3>3. lost' \in BOOLEAN
      BY <2>4 DEF WorkerRuns
    <3>4. overtaken' \in BOOLEAN
      BY <2>4 DEF WorkerRuns
    <3> QED
      BY <2>4, <3>1, <3>2, <3>3, <3>4 DEF WorkerRuns
  <2>5. CASE MainRuns
    BY <2>5, QueueEnds DEF MainRuns
  <2>6. CASE SendTapped
    <3>1. showNoConnection' \in BOOLEAN
      BY <2>6 DEF SendTapped
    <3> QED
      BY <2>6, <3>1 DEF SendTapped
  <2>7. CASE TryAgain
    BY <2>7 DEF TryAgain
  <2>8. CASE Stop
    <3>1. <<>> \in Seq(BOOLEAN)
      OBVIOUS
    <3> QED
      BY <2>8, <3>1, Zenon DEF Stop
  <2>9. CASE UNCHANGED netVars
    BY <2>9 DEF netVars
  <2> QED
    BY <2>1, <2>2, <2>3, <2>4, <2>5, <2>6, <2>7, <2>8, <2>9 DEF NetNext
<1> QED
  BY <1>1, <1>2, PTL DEF NetSpec

(* However many paths wait on the queues and however often the chat is     *)
(* opened and closed, a chat that has handled all of them is right about   *)
(* the network, unless a path came before the handler was set or was       *)
(* overtaken on the concurrent queue.                                      *)
THEOREM NetworkKnown == NetSpec => []KnowsNetwork
<1>1. NetInit => ReportsInv
  BY DEF NetInit, ReportsInv
<1>2. NetTypeOK /\ ReportsInv /\ [NetNext]_netVars => ReportsInv'
  <2> SUFFICES ASSUME NetTypeOK, ReportsInv, [NetNext]_netVars PROVE ReportsInv'
    OBVIOUS
  <2>0. /\ network \in BOOLEAN /\ workers \in Seq(BOOLEAN) /\ main \in Seq(BOOLEAN)
        /\ start \in {"closed", "started", "handling"}
    BY DEF NetTypeOK
  <2>1. CASE Start
    BY <2>0, <2>1, SingleQueue DEF Start, ReportsInv, LastReport
  <2>2. CASE SetHandler
    BY <2>0, <2>2 DEF SetHandler, ReportsInv, LastReport
  <2>3. CASE NetworkChanges
    <3>1. (~network) \in BOOLEAN
      OBVIOUS
    <3>2. CASE start = "closed"
      BY <2>3, <3>2 DEF NetworkChanges, ReportsInv
    <3>3. CASE start # "closed"
      <4>1. /\ workers' = Append(workers, ~network)
            /\ network' = ~network
        BY <2>3, <3>3 DEF NetworkChanges
      <4>2. LastReport'
        BY <2>0, <3>1, <4>1, QueueEnds DEF LastReport
      <4> QED
        BY <2>3, <3>3, <4>2 DEF NetworkChanges, ReportsInv
    <3> QED
      BY <3>2, <3>3
  <2>4. ASSUME NEW i \in DOMAIN workers, WorkerRuns(i) PROVE ReportsInv'
    <3>1. CASE start = "started"
      BY <2>4, <3>1 DEF WorkerRuns, ReportsInv
    <3>2. CASE start = "handling" /\ (lost \/ overtaken \/ i > 1)
      <4>1. start' = "handling" /\ (lost' \/ overtaken')
        <5>1. start' = start /\ lost' = lost /\ overtaken' = (overtaken \/ i > 1)
          BY <2>4, <3>2 DEF WorkerRuns
        <5> QED
          BY <3>2, <5>1, Zenon
      <4> QED
        BY <4>1 DEF ReportsInv
    <3>3. CASE start = "handling" /\ ~lost /\ ~overtaken /\ ~(i > 1)
      <4>1. /\ i = 1 /\ Len(workers) \in Nat /\ Len(workers) >= 1
            /\ workers # <<>> /\ workers[1] \in BOOLEAN
        BY <2>0, <3>3, LenProperties, ElementOfSeq, EmptySeq
      <4>2. workers' = RemoveAt(workers, 1) /\ main' = Append(main, workers[1])
        BY <2>4, <3>3, <4>1 DEF WorkerRuns
      <4>3. /\ UNCHANGED <<network, start, isConnected>>
            /\ workers[Len(workers)] = network
        BY <2>4, <3>3, <4>1 DEF WorkerRuns, ReportsInv, LastReport
      <4>4. CASE Len(workers) = 1
        <5>1. workers' = <<>>
          BY <2>0, <4>1, <4>2, <4>4, RemoveAtProperties
        <5>2. main' # <<>> /\ main'[Len(main')] = network'
          BY <2>0, <4>1, <4>2, <4>3, <4>4, QueueEnds
        <5> QED
          BY <3>3, <4>3, <5>1, <5>2 DEF ReportsInv, LastReport
      <4>5. CASE Len(workers) > 1
        <5>1. workers' # <<>> /\ workers'[Len(workers')] = network'
          BY <2>0, <4>1, <4>2, <4>3, <4>5, RemoveAtProperties
        <5> QED
          BY <3>3, <4>3, <5>1 DEF ReportsInv, LastReport
      <4> QED
        <5> DEFINE n == Len(workers)
        <5>1. n \in Nat /\ n >= 1
          BY <4>1, Zenon
        <5> HIDE DEF n
        <5>2. n = 1 \/ n > 1
          BY <5>1
        <5> QED
          BY <4>4, <4>5, <5>2, Zenon DEF n
    <3> QED
      BY <2>4, <3>1, <3>2, <3>3 DEF WorkerRuns
  <2>5. CASE MainRuns
    <3>1. /\ start = "handling" /\ main # <<>>
          /\ main' = Tail(main) /\ isConnected' = Head(main)
          /\ UNCHANGED <<network, start, workers, lost, overtaken>>
      BY <2>5 DEF MainRuns
    <3>2. LastReport => LastReport'
      BY <2>0, <3>1, QueueEnds DEF LastReport
    <3> QED
      BY <3>1, <3>2 DEF ReportsInv
  <2>6. CASE SendTapped
    BY <2>6 DEF SendTapped, ReportsInv, LastReport
  <2>7. CASE TryAgain
    BY <2>7 DEF TryAgain, ReportsInv, LastReport
  <2>8. CASE Stop
    BY <2>8 DEF Stop, ReportsInv, LastReport
  <2>9. CASE UNCHANGED netVars
    BY <2>9 DEF netVars, ReportsInv, LastReport
  <2> QED
    BY <2>1, <2>2, <2>3, <2>4, <2>5, <2>6, <2>7, <2>8, <2>9 DEF NetNext
<1>3. ReportsInv => KnowsNetwork
  BY DEF ReportsInv, LastReport, KnowsNetwork
<1> QED
  BY <1>1, <1>2, <1>3, NetTypeCorrect, PTL DEF NetSpec
=============================================================================
