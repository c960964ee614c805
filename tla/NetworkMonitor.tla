---------------------------- MODULE NetworkMonitor ----------------------------
(***************************************************************************)
(* What the chat screen knows of the network.  NWPathMonitor runs its      *)
(* handler on a concurrent queue, from where each path goes to the main    *)
(* queue; it is started before the handler is set.  The send button and    *)
(* the no-connection screen decide by the last path the main queue has     *)
(* seen.                                                                   *)
(*                                                                         *)
(* Each opening of the chat has a monitor and a view model of its own;     *)
(* what a closed one has left on the queues does nothing.                  *)
(***************************************************************************)
EXTENDS Integers, Sequences, SequencesExt

CONSTANTS MaxChanges   \* bound: changes of the network

ASSUME MaxChangesAssumption == MaxChanges \in Nat

VARIABLES
  network,           \* a path to the internet exists
  changes,           \* changes of it so far
  start,             \* the chat's monitor: "closed", "started" (no handler), "handling"
  workers,           \* blocks on the concurrent queue: the path each reports, in order
  main,              \* blocks on the main queue
  isConnected,
  showNoConnection,
  lost, overtaken    \* history: a path came before the handler, or after a later one

netVars == <<network, changes, start, workers, main, isConnected, showNoConnection, lost,
             overtaken>>

queues == <<workers, main>>
history == <<lost, overtaken>>

NetTypeOK ==
  /\ network \in BOOLEAN
  /\ changes \in 0 .. MaxChanges
  /\ start \in {"closed", "started", "handling"}
  /\ workers \in Seq(BOOLEAN)
  /\ main \in Seq(BOOLEAN)
  /\ isConnected \in BOOLEAN
  /\ showNoConnection \in BOOLEAN
  /\ lost \in BOOLEAN /\ overtaken \in BOOLEAN

NetInit ==
  /\ network \in BOOLEAN /\ changes = 0
  /\ start = "closed"
  /\ workers = <<>> /\ main = <<>>
  /\ isConnected = FALSE /\ showNoConnection = FALSE
  /\ lost = FALSE /\ overtaken = FALSE

-----------------------------------------------------------------------------
(* onAppear calls start(): the monitor is started and reports the path.    *)
Start ==
  /\ start = "closed"
  /\ start' = "started"
  /\ workers' = <<network>>
  /\ UNCHANGED <<network, changes, main, isConnected, showNoConnection, history>>

(* The next statement of start() sets the handler.                         *)
SetHandler ==
  /\ start = "started"
  /\ start' = "handling"
  /\ UNCHANGED <<network, changes, queues, isConnected, showNoConnection, history>>

(* The monitor reports every change of the path.                           *)
NetworkChanges ==
  /\ changes < MaxChanges
  /\ changes' = changes + 1
  /\ network' = ~network
  /\ workers' = IF start = "closed" THEN workers ELSE Append(workers, ~network)
  /\ UNCHANGED <<start, main, isConnected, showNoConnection, history>>

(* One of the blocks on the concurrent queue reaches the handler, which    *)
(* goes on to the main queue; without a handler the path is dropped.       *)
WorkerRuns(i) ==
  /\ i \in DOMAIN workers
  /\ workers' = RemoveAt(workers, i)
  /\ \/ /\ start = "started"
        /\ lost' = TRUE
        /\ UNCHANGED <<main, overtaken>>
     \/ /\ start = "handling"
        /\ main' = Append(main, workers[i])
        /\ overtaken' = (overtaken \/ i > 1)
        /\ UNCHANGED lost
  /\ UNCHANGED <<network, changes, start, isConnected, showNoConnection>>

(* Mutant: a connection once seen stays.                                   *)
MainRunsKeeps ==
  /\ start = "handling" /\ main # <<>>
  /\ main' = Tail(main)
  /\ isConnected' = (isConnected \/ Head(main))
  /\ UNCHANGED <<network, changes, start, workers, showNoConnection, history>>

(* Mutant: nothing is handled behind the no-connection screen.             *)
MainRunsInFront ==
  /\ start = "handling" /\ main # <<>> /\ ~showNoConnection
  /\ main' = Tail(main)
  /\ isConnected' = Head(main)
  /\ UNCHANGED <<network, changes, start, workers, showNoConnection, history>>

(* The handler's block: self?.isConnected = path.status == .satisfied.     *)
MainRuns ==
  /\ start = "handling" /\ main # <<>>
  /\ main' = Tail(main)
  /\ isConnected' = Head(main)
  /\ UNCHANGED <<network, changes, start, workers, showNoConnection, history>>

(* The send button: onSendAction, or the no-connection screen.             *)
SendTapped ==
  /\ start = "handling" /\ ~showNoConnection
  /\ showNoConnection' = ~isConnected
  /\ UNCHANGED <<network, changes, start, queues, isConnected, history>>

(* Try again: onSendAction if there is a connection; the screen closes.    *)
TryAgain ==
  /\ showNoConnection
  /\ showNoConnection' = FALSE
  /\ UNCHANGED <<network, changes, start, queues, isConnected, history>>

(* Mutant: the cancelled monitor is kept for the next chat.                *)
StopCancelled ==
  /\ start = "handling" /\ ~showNoConnection
  /\ start' = "cancelled"
  /\ workers' = <<>> /\ main' = <<>>
  /\ isConnected' = FALSE
  /\ lost' = FALSE /\ overtaken' = FALSE
  /\ UNCHANGED <<network, changes, showNoConnection>>

(* onDisappear calls stop().                                               *)
Stop ==
  /\ start = "handling" /\ ~showNoConnection
  /\ start' = "closed"
  /\ workers' = <<>> /\ main' = <<>>
  /\ isConnected' = FALSE
  /\ lost' = FALSE /\ overtaken' = FALSE
  /\ UNCHANGED <<network, changes, showNoConnection>>

NetNext ==
  \/ Start
  \/ SetHandler
  \/ NetworkChanges
  \/ \E i \in DOMAIN workers : WorkerRuns(i)
  \/ MainRuns
  \/ SendTapped
  \/ TryAgain
  \/ Stop

(* Both queues run their blocks.                                           *)
NetFairness ==
  /\ WF_netVars(SetHandler)
  /\ WF_netVars(MainRuns)
  /\ WF_netVars(\E i \in DOMAIN workers : WorkerRuns(i))

NetSpec == NetInit /\ [][NetNext]_netVars /\ NetFairness

-----------------------------------------------------------------------------
(* With nothing left on the queues, the chat is right about the network.   *)
(* Two things only can make it wrong for good: the first path came before  *)
(* the handler was set, or the concurrent queue let a path overtake the    *)
(* one before it.                                                          *)
KnowsNetwork ==
  start = "handling" /\ workers = <<>> /\ main = <<>> /\ ~lost /\ ~overtaken
  => isConnected = network

(* When the network stays and the chat stays open, the no-connection       *)
(* screen is not shown again and again for ever: some tap sends.           *)
RecoversConnection ==
  <>[](network /\ start = "handling" /\ ~lost /\ ~overtaken) => <>[]isConnected
=============================================================================
