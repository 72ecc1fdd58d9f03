------------------------------- MODULE Plugins --------------------------------
(***************************************************************************)
(* The notification dispatcher, for one plugin: callers of Dispatch, the   *)
(* plugin's worker and its queue, edits of the plugin, and Close.           *)
(*                                                                         *)
(*   internal/plugin/dispatcher.go   NotificationDispatcher, pluginWorker  *)
(*                                                                         *)
(* Events are counted, not told apart; what the circuit breaker says is a  *)
(* choice.                                                                 *)
(***************************************************************************)
EXTENDS Integers, FiniteSets

CONSTANTS Sender,      \* callers of Dispatch
          MaxWorker,   \* bound: workers ever started
          MaxEdits,    \* bound: edits of the endpoint
          Depth        \* queueDepth

VARIABLES
    send,      \* Dispatch: where each caller is, the endpoint it read, its worker
    endpoint,  \* the plugin's endpoint as the registry has it
    workers,   \* d.workers: the plugin's worker; "nil" after Close
    shut,      \* Close: "no", "stopping" (closed), "waiting" (ctx cancelled), "closed"
    wrk        \* the workers

plugVars == <<send, endpoint, workers, shut, wrk>>

Worker == 1..MaxWorker
Nil == 0
Quiet == [pc |-> "idle", url |-> Nil, to |-> Nil]
Chosen(w) == [pc |-> "enqueue", url |-> Nil, to |-> w]

Init ==
    /\ send = [s \in Sender |-> Quiet]
    /\ endpoint = 1
    /\ workers = Nil
    /\ shut = "no"
    /\ wrk = [w \in Worker |-> [pc |-> "none", url |-> Nil, queue |-> 0, stop |-> FALSE]]

Running(w) == wrk[w].pc \in {"idle", "call"}

\* The worker with the least number that was not used yet.
Unused == {w \in Worker : wrk[w].pc = "none" /\ \A v \in 1..w - 1 : wrk[v].pc # "none"}

-----------------------------------------------------------------------------
(* Dispatch.                                                               *)

\* d.closed is read, and the lock given back.
Dispatch(s) ==
    /\ send[s].pc = "idle" /\ shut = "no"
    /\ send' = [send EXCEPT ![s].pc = "list"]
    /\ UNCHANGED <<endpoint, workers, shut, wrk>>

\* The registry's answer, or its failure.
List(s) ==
    /\ send[s].pc = "list"
    /\ \/ send' = [send EXCEPT ![s].pc = "worker", ![s].url = endpoint]
       \/ send' = [send EXCEPT ![s].pc = "idle"]
    /\ UNCHANGED <<endpoint, workers, shut, wrk>>

Fits(url) == workers # Nil /\ wrk[workers].url = url

\* The plugin's worker is told to stop.
Stopped == IF workers = Nil THEN wrk ELSE [wrk EXCEPT ![workers].stop = TRUE]

\* A worker for the endpoint takes its place.
Replaced(w, url) ==
    [Stopped EXCEPT ![w] = [pc |-> "idle", url |-> url, queue |-> 0, stop |-> FALSE]]

\* Mutant: d.closed is not read again under the lock.
WorkerForAnyone(s) ==
    /\ send[s].pc = "worker"
    /\ \/ /\ Fits(send[s].url)
          /\ send' = [send EXCEPT ![s] = Chosen(workers)]
          /\ UNCHANGED <<workers, wrk>>
       \/ /\ ~Fits(send[s].url)
          /\ \E w \in Unused :
                /\ wrk' = Replaced(w, send[s].url)
                /\ workers' = w
                /\ send' = [send EXCEPT ![s] = Chosen(w)]
    /\ UNCHANGED <<endpoint, shut>>

\* workerFor: refused once closed; the cached worker if it fits; or it is stopped
\* and a new one started, unless newPluginClient fails, which leaves the plugin
\* without one.
WorkerFor(s) ==
    /\ send[s].pc = "worker"
    /\ \/ /\ shut # "no"
          /\ send' = [send EXCEPT ![s] = Quiet]
          /\ UNCHANGED <<workers, wrk>>
       \/ /\ shut = "no" /\ Fits(send[s].url)
          /\ send' = [send EXCEPT ![s] = Chosen(workers)]
          /\ UNCHANGED <<workers, wrk>>
       \/ /\ shut = "no" /\ ~Fits(send[s].url)
          /\ \E w \in Unused :
                /\ wrk' = Replaced(w, send[s].url)
                /\ workers' = w
                /\ send' = [send EXCEPT ![s] = Chosen(w)]
       \/ /\ shut = "no" /\ ~Fits(send[s].url)
          /\ wrk' = Stopped
          /\ workers' = Nil
          /\ send' = [send EXCEPT ![s] = Quiet]
    /\ UNCHANGED <<endpoint, shut>>

\* Without waiting: a full queue drops the event.
Enqueue(s) ==
    /\ send[s].pc = "enqueue"
    /\ send' = [send EXCEPT ![s] = Quiet]
    /\ wrk' = [wrk EXCEPT ![send[s].to].queue = IF @ < Depth THEN @ + 1 ELSE @]
    /\ UNCHANGED <<endpoint, workers, shut>>

-----------------------------------------------------------------------------
(* The worker.                                                             *)

\* run's select takes an event, even after stop, and delivers it unless the
\* breaker is open ...
Take(w) ==
    /\ wrk[w].pc = "idle" /\ wrk[w].queue > 0
    /\ \E pc \in {"call", "idle"} :
          wrk' = [wrk EXCEPT ![w].queue = @ - 1, ![w].pc = pc]
    /\ UNCHANGED <<send, endpoint, workers, shut>>

\* ... or ends, closes the client and leaves what is queued.
Exit(w) ==
    /\ wrk[w].pc = "idle"
    /\ wrk[w].stop \/ shut \in {"waiting", "closed"}
    /\ wrk' = [wrk EXCEPT ![w].pc = "exited"]
    /\ UNCHANGED <<send, endpoint, workers, shut>>

\* callTool returns or times out.
Deliver(w) ==
    /\ wrk[w].pc = "call"
    /\ wrk' = [wrk EXCEPT ![w].pc = "idle"]
    /\ UNCHANGED <<send, endpoint, workers, shut>>

\* The delivery panics: SafeGo recovers, the WaitGroup is released, and d.workers
\* still names the worker.
Panic(w) ==
    /\ wrk[w].pc = "call"
    /\ wrk' = [wrk EXCEPT ![w].pc = "panicked"]
    /\ UNCHANGED <<send, endpoint, workers, shut>>

-----------------------------------------------------------------------------
(* Edits and Close.                                                        *)

Edit ==
    /\ endpoint <= MaxEdits
    /\ endpoint' = endpoint + 1
    /\ UNCHANGED <<send, workers, shut, wrk>>

CloseMark ==
    /\ shut = "no"
    /\ shut' = "stopping"
    /\ workers' = Nil
    /\ wrk' = Stopped
    /\ UNCHANGED <<send, endpoint>>

CloseCancel ==
    /\ shut = "stopping"
    /\ shut' = "waiting"
    /\ UNCHANGED <<send, endpoint, workers, wrk>>

\* wg.Wait
CloseReturn ==
    /\ shut = "waiting" /\ \A w \in Worker : ~Running(w)
    /\ shut' = "closed"
    /\ UNCHANGED <<send, endpoint, workers, wrk>>

\* run's select chooses among what is ready: stop is not put off for ever.
Steps(w) == Take(w) \/ Exit(w) \/ Deliver(w)

Next ==
    \/ \E s \in Sender : Dispatch(s) \/ List(s) \/ WorkerFor(s) \/ Enqueue(s)
    \/ \E w \in Worker : Take(w) \/ Exit(w) \/ Deliver(w) \/ Panic(w)
    \/ Edit \/ CloseMark \/ CloseCancel \/ CloseReturn

-----------------------------------------------------------------------------
(* Properties.                                                             *)

TypeOK ==
    /\ send \in [Sender -> [pc : {"idle", "list", "worker", "enqueue"},
                            url : 0..MaxEdits + 1, to : Worker \cup {Nil}]]
    /\ endpoint \in 1..MaxEdits + 1 /\ workers \in Worker \cup {Nil}
    /\ shut \in {"no", "stopping", "waiting", "closed"}
    /\ wrk \in [Worker -> [pc : {"none", "idle", "call", "exited", "panicked"},
                           url : 0..MaxEdits + 1, queue : 0..Depth, stop : BOOLEAN]]

\* A plugin has one worker at most that was not told to stop, the one events go
\* to, across edits and racing callers; and none after Close has returned.
OneWorker ==
    /\ \A w \in Worker : Running(w) /\ ~wrk[w].stop => w = workers
    /\ shut = "closed" => \A w \in Worker : ~Running(w)

\* A worker that ends, and leaves the events in its queue behind, was told to stop
\* or panicked; and the one events are given to was not told to stop, though it
\* may have panicked: until an edit replaces it, nothing empties its queue.
OnlyStoppedLose ==
    /\ \A w \in Worker : wrk[w].pc = "exited" => wrk[w].stop
    /\ workers # Nil => /\ Running(workers) \/ wrk[workers].pc = "panicked"
                        /\ ~wrk[workers].stop

\* See the parts.
WorkersAccounted == TypeOK /\ OneWorker /\ OnlyStoppedLose

\* Close does not wait for ever.
CloseReturns == []<>(shut \notin {"stopping", "waiting"})

\* A worker that was told to stop does.
StoppedExit == []<>(\A w \in Worker : wrk[w].stop => ~Running(w))
=============================================================================
