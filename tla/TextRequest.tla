----------------------------- MODULE TextRequest -----------------------------
(***************************************************************************)
(* OpenAIService._sendTurbo over OpenAISession and FirestoreManager: one   *)
(* question posted to the proxy, with one refresh of the system settings   *)
(* and one second attempt.                                                 *)
(*                                                                         *)
(* Several requests can be in flight: a chat left by the swipe leaves its  *)
(* request running while the next chat makes its own.  They share the key  *)
(* that FirestoreManager fetches, which the app also fetches at launch.    *)
(***************************************************************************)
EXTENDS Integers

CONSTANT Requests

VARIABLES
  pc,         \* request -> "idle", "http", "fetching" or "done"
  mayRefresh, \* request -> refreshToken of its running _sendTurbo
  result,     \* request -> what its completion was called with, or "none"
  aikey,      \* FirestoreManager.aikey: "key", or "nil" before it is fetched
  launched,   \* the fetch made at launch has ended
  posts,      \* history: request -> how often it was posted
  fetches     \* history: request -> fetches it started

vars == <<pc, mayRefresh, result, aikey, launched, posts, fetches>>

TypeOK ==
  /\ pc \in [Requests -> {"idle", "http", "fetching", "done"}]
  /\ mayRefresh \in [Requests -> BOOLEAN]
  /\ result \in [Requests -> {"none", "answer", "nil"}]
  /\ aikey \in {"nil", "key"}
  /\ launched \in BOOLEAN
  /\ posts \in [Requests -> Nat]
  /\ fetches \in [Requests -> Nat]

Init ==
  /\ pc = [r \in Requests |-> "idle"]
  /\ mayRefresh = [r \in Requests |-> TRUE]
  /\ result = [r \in Requests |-> "none"]
  /\ aikey = "nil"
  /\ launched = FALSE
  /\ posts = [r \in Requests |-> 0]
  /\ fetches = [r \in Requests |-> 0]

-----------------------------------------------------------------------------
(* completion(o).                                                          *)
Complete(r, o) ==
  /\ pc' = [pc EXCEPT ![r] = "done"]
  /\ result' = [result EXCEPT ![r] = o]

(* OpenAISession.decodeUrl starts the HTTP request.                        *)
Post(r) ==
  /\ pc' = [pc EXCEPT ![r] = "http"]
  /\ posts' = [posts EXCEPT ![r] = @ + 1]

(* Mutants of checkRefreshKeyAndRestartBlock: it gives up without a fetch; *)
(* it never gives up.                                                      *)
CheckRefreshKeyGivesUp(r) ==
  Complete(r, "nil") /\ UNCHANGED fetches

CheckRefreshKeyForever(r) ==
  /\ pc' = [pc EXCEPT ![r] = "fetching"]
  /\ fetches' = [fetches EXCEPT ![r] = @ + 1]
  /\ UNCHANGED result

(* checkRefreshKeyAndRestartBlock: fetch the settings once, then give up.  *)
CheckRefreshKey(r) ==
  \/ /\ mayRefresh[r]
     /\ pc' = [pc EXCEPT ![r] = "fetching"]
     /\ fetches' = [fetches EXCEPT ![r] = @ + 1]
     /\ UNCHANGED result
  \/ /\ ~mayRefresh[r]
     /\ Complete(r, "nil")
     /\ UNCHANGED fetches

(* sendText with nothing to send.                                          *)
SendEmpty(r) ==
  /\ pc[r] = "idle"
  /\ Complete(r, "nil")
  /\ UNCHANGED <<mayRefresh, aikey, launched, posts, fetches>>

(* Mutant: sendText does not look for the key.                             *)
SendTextUnkeyed(r) ==
  /\ pc[r] = "idle"
  /\ Post(r)
  /\ UNCHANGED <<mayRefresh, result, aikey, launched, fetches>>

SendText(r) ==
  /\ pc[r] = "idle"
  /\ \/ aikey = "key" /\ Post(r) /\ UNCHANGED <<result, fetches>>
     \/ aikey = "nil" /\ CheckRefreshKey(r) /\ UNCHANGED posts
  /\ UNCHANGED <<mayRefresh, aikey, launched>>

(* The proxy's response decodes to a TextTurboResponse.                    *)
ResponseArrives(r) ==
  /\ pc[r] = "http"
  /\ Complete(r, "answer")
  /\ UNCHANGED <<mayRefresh, aikey, launched, posts, fetches>>

(* No data in 240 s, an error, or a response that does not decode.         *)
ResponseFails(r) ==
  /\ pc[r] = "http"
  /\ CheckRefreshKey(r)
  /\ UNCHANGED <<mayRefresh, aikey, launched, posts>>

(* Mutant: nobody is told when the fetch brings no key.                    *)
FetchEndsSilently(r) ==
  /\ pc[r] = "fetching"
  /\ aikey' \in {aikey, "key"}
  /\ \/ /\ aikey' = "key"
        /\ mayRefresh' = [mayRefresh EXCEPT ![r] = FALSE]
        /\ Post(r)
     \/ /\ aikey' = "nil"
        /\ pc' = [pc EXCEPT ![r] = "done"]
        /\ UNCHANGED <<mayRefresh, posts>>
  /\ UNCHANGED <<result, launched, fetches>>

(* fetchSystem ends: it may learn the key and never forgets it.  With a    *)
(* key _sendTurbo starts over, this time without a refresh.                *)
FetchEnds(r) ==
  /\ pc[r] = "fetching"
  /\ aikey' \in {aikey, "key"}
  /\ \/ /\ aikey' = "key"
        /\ mayRefresh' = [mayRefresh EXCEPT ![r] = FALSE]
        /\ Post(r)
        /\ UNCHANGED result
     \/ /\ aikey' = "nil"
        /\ Complete(r, "nil")
        /\ UNCHANGED <<mayRefresh, posts>>
  /\ UNCHANGED <<launched, fetches>>

(* The fetch made by ContentView at launch ends.                           *)
LaunchFetchEnds ==
  /\ ~launched
  /\ launched' = TRUE
  /\ aikey' \in {aikey, "key"}
  /\ UNCHANGED <<pc, mayRefresh, result, posts, fetches>>

Step(r) ==
  \/ SendEmpty(r)
  \/ SendText(r)
  \/ ResponseArrives(r)
  \/ ResponseFails(r)
  \/ FetchEnds(r)

Next == LaunchFetchEnds \/ \E r \in Requests : Step(r)

Spec == Init /\ [][Next]_vars

(* URLSession ends every request within its timeout and Firestore calls    *)
(* back with a snapshot or an error, whatever the network does.            *)
Fairness ==
  \A r \in Requests : WF_vars(ResponseArrives(r) \/ ResponseFails(r) \/ FetchEnds(r))

FairSpec == Spec /\ Fairness

-----------------------------------------------------------------------------
(* The contract with the chat screen: every request is completed, exactly  *)
(* once, however the attempts, the refreshes and the launch fetch          *)
(* interleave.                                                             *)
Outcome == [r \in Requests |-> IF pc[r] \in {"http", "fetching"} THEN "asked"
                               ELSE result[r]]
Contract == INSTANCE AskOnce WITH outcome <- Outcome
ImplementsAskOnce == Contract!Spec

(* A question costs at most two posts and one fetch of the settings: the   *)
(* recursion of _sendTurbo through the fetch ends.                         *)
BoundedAttempts ==
  \A r \in Requests : posts[r] <= 2 /\ fetches[r] <= 1

(* A question that was posted is given up only after the settings were     *)
(* fetched for it: a key that has become stale is not reported as a failed *)
(* answer before a refresh was tried, though the fetch itself may fail.    *)
RefreshBeforeGivingUp ==
  \A r \in Requests : result[r] = "nil" /\ posts[r] > 0 => fetches[r] = 1

(* No question is posted without a key.                                    *)
KeyBeforePost == (\E r \in Requests : pc[r] = "http") => aikey = "key"

(* Where each request stands, by its control state: the inductive          *)
(* invariant behind the three properties and the contract.                 *)
Progress(r) ==
  \/ /\ pc[r] = "idle" /\ result[r] = "none"
     /\ mayRefresh[r] /\ posts[r] = 0 /\ fetches[r] = 0
  \/ /\ pc[r] = "http" /\ result[r] = "none" /\ aikey = "key"
     /\ \/ mayRefresh[r] /\ posts[r] = 1 /\ fetches[r] = 0
        \/ ~mayRefresh[r] /\ posts[r] \in 1 .. 2 /\ fetches[r] = 1
  \/ /\ pc[r] = "fetching" /\ result[r] = "none"
     /\ mayRefresh[r] /\ posts[r] \in 0 .. 1 /\ fetches[r] = 1
  \/ /\ pc[r] = "done" /\ result[r] \in {"answer", "nil"}
     /\ posts[r] \in 0 .. 2 /\ fetches[r] \in 0 .. 1
     /\ result[r] = "nil" /\ posts[r] > 0 => fetches[r] = 1

RequestsInOrder == \A r \in Requests : Progress(r)
=============================================================================
