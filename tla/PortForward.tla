---------------------------- MODULE PortForward ----------------------------
(***************************************************************************)
(* One forward of a local port by a kubectl child process: the caller of   *)
(* Start and Stop, the goroutine that waits for the child (run), the two   *)
(* goroutines that scan its output, the child and its pipes.  They share   *)
(* two channels, a sync.Once and the flag stoppedByUs.  Each step up to    *)
(* the next blocking call or the next use of something shared is one       *)
(* action.                                                                 *)
(*                                                                         *)
(* Left out: the text of the output; a stranger that listens on the local  *)
(* port; the time waitForPort spends.                                      *)
(***************************************************************************)
EXTENDS Naturals

CONSTANTS MaxLines  \* bound: lines "Forwarding from ..." kubectl prints

ASSUME LinesAssumption == MaxLines \in Nat

VARIABLES
  ctx,        \* the context of Start
  kubectl,    \* the child: "none", "running" or "exited"
  result,     \* what cmd.Wait returns for it
  printed,    \* lines kubectl has printed
  unread,     \* those nobody has read yet
  scanner,    \* the scanning goroutines
  runner,     \* the goroutine run
  runErr,     \* it has recorded an error
  announced,  \* readyOnce is used up
  ready,      \* what readyCh holds
  localPort,  \* the local port is known
  stopped,    \* stoppedByUs
  start       \* the caller of Start, and of Stop later

childVars == <<kubectl, result, printed, unread>>
channelVars == <<announced, ready, localPort>>
forwardVars == <<ctx, childVars, scanner, runner, runErr, channelVars, stopped, start>>

-----------------------------------------------------------------------------
Streams == {"stdout", "stderr"}
Lines == 0..MaxLines

\* "port": a port and no error; "error": an error; "zero": neither.
Messages == {"empty", "port", "error", "zero"}
Starting == {"select", "probe", "stop", "stopping"}
Releasing == {"release", "releasing"}
Returned == {"failed", "released"}

ForwardTypeOK ==
  /\ ctx \in {"live", "cancelled"}
  /\ kubectl \in {"none", "running", "exited"}
  /\ result \in {"nil", "error"}
  /\ printed \in Lines /\ unread \in Lines /\ unread <= printed
  /\ scanner \in [Streams -> {"off", "reading", "ended"}]
  /\ runner \in {"off", "wait", "join", "record", "announce", "close", "done"}
  /\ runErr \in BOOLEAN
  /\ announced \in BOOLEAN /\ ready \in Messages /\ localPort \in BOOLEAN
  /\ stopped \in BOOLEAN
  /\ start \in {"idle", "session"} \union Starting \union Releasing \union Returned

ForwardInit ==
  /\ ctx = "live"
  /\ kubectl = "none" /\ result = "nil" /\ printed = 0 /\ unread = 0
  /\ scanner = [s \in Streams |-> "off"]
  /\ runner = "off" /\ runErr = FALSE
  /\ announced = FALSE /\ ready = "empty" /\ localPort = FALSE
  /\ stopped = FALSE
  /\ start = "idle"

\* doneCh is closed.
Done == runner = "done"

\* The read ends of the pipes: cmd.Wait closes them.
PipesClosed == runner \notin {"off", "wait"}

Killed == stopped \/ ctx = "cancelled"

-----------------------------------------------------------------------------
(* Start. *)

\* A new ForwardSession, and a child for it unless it cannot be started.
StartCommand ==
  /\ start \in {"idle"} \union Returned
  /\ \/ /\ ctx = "live"
        /\ kubectl' = "running" /\ result' = "nil" /\ printed' = 0 /\ unread' = 0
        /\ scanner' = [s \in Streams |-> "reading"]
        /\ runner' = "wait" /\ runErr' = FALSE
        /\ announced' = FALSE /\ ready' = "empty" /\ localPort' = FALSE
        /\ stopped' = FALSE
        /\ start' = "select"
     \/ /\ start' = "failed"
        /\ UNCHANGED <<childVars, scanner, runner, runErr, channelVars, stopped>>
  /\ UNCHANGED ctx

StartSelectContext ==
  /\ start = "select"
  /\ ctx = "cancelled"
  /\ start' = "stop"
  /\ UNCHANGED <<ctx, childVars, scanner, runner, runErr, channelVars, stopped>>

\* Port 0 cannot be dialled.
StartSelectReady ==
  /\ start = "select"
  /\ ready # "empty"
  /\ ready' = "empty"
  /\ start' = IF ready = "port" THEN "probe" ELSE "stop"
  /\ UNCHANGED <<ctx, childVars, scanner, runner, runErr, announced, localPort, stopped>>

\* Stop is not called: there is nothing left to stop.
StartSelectDone ==
  /\ start = "select"
  /\ Done
  /\ start' = "failed"
  /\ UNCHANGED <<ctx, childVars, scanner, runner, runErr, channelVars, stopped>>

\* Mutant: the session is dropped without being stopped.
StartProbeLeaves ==
  /\ start = "probe"
  /\ \/ kubectl = "running" /\ start' = "session"
     \/ start' = "failed"
  /\ UNCHANGED <<ctx, childVars, scanner, runner, runErr, channelVars, stopped>>

\* waitForPort: looks at neither the context nor the child.
StartProbe ==
  /\ start = "probe"
  /\ \/ kubectl = "running" /\ start' = "session"
     \/ start' = "stop"
  /\ UNCHANGED <<ctx, childVars, scanner, runner, runErr, channelVars, stopped>>

\* Stop, called by Start before it fails or by the owner of the session; it
\* kills the child once and waits.
Stop ==
  /\ start \in {"stop", "release"}
  /\ stopped' = TRUE
  /\ start' = IF start = "stop" THEN "stopping" ELSE "releasing"
  /\ UNCHANGED <<ctx, childVars, scanner, runner, runErr, channelVars>>

\* Mutant: Stop kills the child and returns.
StopReturnsAtOnce ==
  /\ start \in {"stopping", "releasing"}
  /\ start' = IF start = "stopping" THEN "failed" ELSE "released"
  /\ UNCHANGED <<ctx, childVars, scanner, runner, runErr, channelVars, stopped>>

StopReturns ==
  /\ start \in {"stopping", "releasing"}
  /\ Done
  /\ start' = IF start = "stopping" THEN "failed" ELSE "released"
  /\ UNCHANGED <<ctx, childVars, scanner, runner, runErr, channelVars, stopped>>

\* The owner of the session calls Stop.
Release ==
  /\ start = "session"
  /\ start' = "release"
  /\ UNCHANGED <<ctx, childVars, scanner, runner, runErr, channelVars, stopped>>

-----------------------------------------------------------------------------
(* The child. *)

KubectlPrints ==
  /\ kubectl = "running"
  /\ printed < MaxLines
  /\ printed' = printed + 1 /\ unread' = unread + 1
  /\ UNCHANGED <<ctx, kubectl, result, scanner, runner, runErr, channelVars, stopped, start>>

\* By itself or killed; what it printed stays in the pipe.
KubectlExits ==
  /\ kubectl = "running"
  /\ kubectl' = "exited"
  /\ IF Killed THEN result' = "error" ELSE result' \in {"nil", "error"}
  /\ UNCHANGED <<ctx, printed, unread, scanner, runner, runErr, channelVars, stopped, start>>

-----------------------------------------------------------------------------
(* The goroutines that scan.  What they send is sent inside readyOnce.     *)

\* Mutant: a wrong line uses readyOnce up and tells nobody.
ScanLineSilently ==
  /\ scanner["stdout"] = "reading"
  /\ unread > 0
  /\ unread' = unread - 1
  /\ \/ announced /\ UNCHANGED channelVars
     \/ ~announced /\ announced' = TRUE /\ localPort' = TRUE /\ ready' = "port"
     \/ ~announced /\ announced' = TRUE /\ UNCHANGED <<ready, localPort>>
  /\ UNCHANGED <<ctx, kubectl, result, printed, scanner, runner, runErr, stopped, start>>

\* handleLine, of a line that says what kubectl forwards, which kubectl prints to
\* stdout only; the first counts, be it good or wrong.
ScanLine ==
  /\ scanner["stdout"] = "reading"
  /\ unread > 0
  /\ unread' = unread - 1
  /\ \/ announced /\ UNCHANGED channelVars
     \/ ~announced /\ announced' = TRUE /\ localPort' = TRUE /\ ready' = "port"
     \/ ~announced /\ announced' = TRUE /\ ready' = "error" /\ UNCHANGED localPort
  /\ UNCHANGED <<ctx, kubectl, result, printed, scanner, runner, runErr, stopped, start>>

\* The end of the output, or a read from a pipe that cmd.Wait has closed: what
\* is still in the pipe is lost, and the error is recorded.
ScanEnds(s) ==
  /\ scanner[s] = "reading"
  /\ scanner' = [scanner EXCEPT ![s] = "ended"]
  /\ \/ /\ kubectl = "exited" /\ (s = "stdout" => unread = 0)
        /\ UNCHANGED runErr
     \/ /\ PipesClosed
        /\ runErr' = TRUE
  /\ UNCHANGED <<ctx, childVars, runner, channelVars, stopped, start>>

-----------------------------------------------------------------------------
(* run. *)

RunWaits ==
  /\ runner = "wait"
  /\ kubectl = "exited"
  /\ runner' = "join"
  /\ UNCHANGED <<ctx, childVars, scanner, runErr, channelVars, stopped, start>>

RunJoins ==
  /\ runner = "join"
  /\ \A s \in Streams : scanner[s] = "ended"
  /\ runner' = "record"
  /\ UNCHANGED <<ctx, childVars, scanner, runErr, channelVars, stopped, start>>

\* Mutant: a child that ends well without a port is no error.
RunRecordsExit ==
  /\ runner = "record"
  /\ runErr' = (runErr \/ (result = "error" /\ ~stopped))
  /\ runner' = "announce"
  /\ UNCHANGED <<ctx, childVars, scanner, channelVars, stopped, start>>

RunRecords ==
  /\ runner = "record"
  /\ runErr' = \/ runErr
               \/ result = "error" /\ ~stopped
               \/ result = "nil" /\ ~localPort
  /\ runner' = "announce"
  /\ UNCHANGED <<ctx, childVars, scanner, channelVars, stopped, start>>

RunAnnounces ==
  /\ runner = "announce"
  /\ IF announced THEN UNCHANGED <<announced, ready>>
     ELSE /\ announced' = TRUE
          /\ ready' = IF runErr THEN "error" ELSE "zero"
  /\ runner' = "close"
  /\ UNCHANGED <<ctx, childVars, scanner, runErr, localPort, stopped, start>>

\* Mutant: doneCh is closed only after an error.
RunClosesOnError ==
  /\ runner = "close"
  /\ runErr
  /\ runner' = "done"
  /\ UNCHANGED <<ctx, childVars, scanner, runErr, channelVars, stopped, start>>

RunCloses ==
  /\ runner = "close"
  /\ runner' = "done"
  /\ UNCHANGED <<ctx, childVars, scanner, runErr, channelVars, stopped, start>>

-----------------------------------------------------------------------------
\* The caller cancels the context, which kills the child too.  (Nothing in cmd/
\* does; the code is written for callers that may.)
Cancel ==
  /\ ctx = "live"
  /\ ctx' = "cancelled"
  /\ UNCHANGED <<childVars, scanner, runner, runErr, channelVars, stopped, start>>

\* What goes on inside a forward, whatever its owner does.
CallStep ==
  \/ StartSelectContext \/ StartSelectReady \/ StartSelectDone \/ StartProbe
  \/ Stop \/ StopReturns

RunStep == RunWaits \/ RunJoins \/ RunRecords \/ RunAnnounces \/ RunCloses

ScanStep == ScanLine \/ \E s \in Streams : ScanEnds(s)

-----------------------------------------------------------------------------
(* What Start and Stop promise. *)

\* When Start has failed and when Stop has returned, neither the child nor one
\* of the three goroutines is left.
NothingLeftBehind ==
  start \in Returned =>
    /\ kubectl # "running"
    /\ runner \in {"off", "done"}
    /\ \A s \in Streams : scanner[s] # "reading"

\* A session that Start returns has a port, and Start never takes a message that
\* has neither a port nor an error.
SessionHasPort ==
  /\ start = "session" => localPort
  /\ start = "select" => ready # "zero"
  /\ start = "probe" => localPort

\* Whoever waits in Start or Stop has somebody to wait for: a Start that selects does
\* so while run is there, and the one message of readyOnce was not sent in vain; a
\* Stop waits for a child that it has killed.
AnswerAwaits ==
  /\ start = "select" => runner # "off" /\ (announced => ready # "empty")
  /\ start \in {"stopping", "releasing"} => runner # "off" /\ stopped

\* What Start, Stop and Wait promise to their caller.
Lifecycle == INSTANCE ForwardLifecycle WITH
  phase <- CASE start \in {"idle"} \union Returned -> "down"
             [] start \in Starting -> "starting"
             [] start = "session" -> "up"
             [] start \in Releasing -> "closing",
  alive <- \/ kubectl = "running"
           \/ runner \notin {"off", "done"}
           \/ \E s \in Streams : scanner[s] = "reading"

\* Seen by its owner, a forward goes through its phases one by one, whatever the
\* child, the scanners, run and an interrupt do meanwhile (Start, Stop, run).
ImplementsLifecycle == Lifecycle!Spec

=============================================================================
