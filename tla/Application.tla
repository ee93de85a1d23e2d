----------------------------- MODULE Application -----------------------------
(***************************************************************************)
(* The program around a stream: App::onRun() of src/src/App.cpp from where *)
(* it installs its signal handlers, Signal_ of Signal.h, Pipeline::run()   *)
(* and stop(), and the agents (Agent.h with MetadataAgent), over the WAV   *)
(* frontend.                                                               *)
(*                                                                         *)
(* A handler runs on any thread of the process that does not block the     *)
(* signal, and that thread does nothing else meanwhile: here the main      *)
(* thread, a recorder's worker and the agents'.  The worker is there while *)
(* the stream is open.  endStream() closes its channel and joins it; the   *)
(* worker may sleep over the close, as Channel shows, and then nobody      *)
(* wakes it.  Configuration, before the handlers, is left out; an agent's  *)
(* channel is of cppapp and external: nobody in this program sends to it,  *)
(* closes it or wakes who waits on it.                                     *)
(***************************************************************************)
EXTENDS WAVStream

CONSTANTS
  Agents,       \* the agents there may be
  MaxInterrupts \* a bound on the INT signals

Signals == {"INT", "TERM"}

Threads == {"main", "worker"} \cup Agents

ASSUME AppAssumption ==
  /\ MaxInterrupts \in Nat
  /\ Agents \cap {"main", "worker"} = {}

VARIABLES
  agents,      \* the agents the configuration has
  todo,        \* the calls onRun() has still to make before or after run()
  main,        \* where onRun() is
  exited,      \* how the process has ended, or "no"
  disposition, \* which handler the system has for a signal
  callbacks,   \* the callbacks there are for a signal
  handler,     \* where in Pipeline::stop() each thread's INT handler is
  started,     \* the agents with a thread_
  requested,   \* the agents whose thread has been requested to stop
  agent,       \* where each agent's thread is
  stopping,    \* stopping_
  asleep,      \* whether the worker waits on a channel that is closed
  interrupts   \* history: how many INT signals there were

appVars == <<agents, todo, main, exited, disposition, callbacks, handler, started, requested,
             agent, stopping, asleep, interrupts>>
allVars == <<wavVars, appVars>>

AppTypeOK ==
  /\ WAVTypeOK
  /\ agents \subseteq Agents
  /\ main \in {"setting up", "starting", "running", "joining", "tearing down"}
  /\ exited \in {"no", "returned", "killed", "terminated"}
  /\ disposition \in [Signals -> {"default", "handler"}]
  /\ callbacks \in [Signals -> 0..1]
  /\ handler \in [Threads -> {"none", "requesting", "stopping", "joining"}]
  /\ started \subseteq agents
  /\ requested \subseteq agents
  /\ agent \in [Agents -> {"none", "testing", "draining", "ended"}]
  /\ {stopping, asleep} \subseteq BOOLEAN
  /\ interrupts \in 0..MaxInterrupts

\* The calls around pipeline_->run().
Before == << <<"install", "INT">>, <<"push", "INT">>, <<"install", "TERM">>, <<"push", "TERM">> >>
After == << <<"pop", "TERM">>, <<"uninstall", "TERM">>, <<"pop", "INT">>, <<"uninstall", "INT">> >>

AppInit ==
  /\ WAVInit
  /\ agents \in SUBSET Agents
  /\ todo = Before
  /\ main = "setting up"
  /\ exited = "no"
  /\ disposition = [s \in Signals |-> "default"]
  /\ callbacks = [s \in Signals |-> 0]
  /\ handler = [t \in Threads |-> "none"]
  /\ started = {}
  /\ requested = {}
  /\ agent = [a \in Agents |-> "none"]
  /\ stopping = FALSE
  /\ asleep = FALSE
  /\ interrupts = 0

-----------------------------------------------------------------------------
(* The main thread: App::onRun() and Pipeline::run().                      *)

MainCan == exited = "no" /\ handler["main"] = "none"

\* install(), pushMethod(), pop() or uninstall() of one signal.
Call ==
  /\ MainCan
  /\ main \in {"setting up", "tearing down"}
  /\ todo # << >>
  /\ LET call == todo[1][1] sig == todo[1][2] IN
       /\ disposition' = CASE call = "install"   -> [disposition EXCEPT ![sig] = "handler"]
                           [] call = "uninstall" -> [disposition EXCEPT ![sig] = "default"]
                           [] OTHER -> disposition
       /\ callbacks' = CASE call = "push" -> [callbacks EXCEPT ![sig] = 1]
                         [] call = "pop"  -> [callbacks EXCEPT ![sig] = 0]
                         [] OTHER -> callbacks
  /\ todo' = Tail(todo)
  /\ main' = IF Len(todo) = 1 /\ main = "setting up" THEN "starting" ELSE main
  /\ UNCHANGED <<wavVars, agents, exited, handler, started, requested, agent, stopping, asleep,
                 interrupts>>

StartAgent(a) ==
  /\ MainCan
  /\ main = "starting"
  /\ a \in agents \ started
  /\ agent[a] = "none"
  /\ started' = started \cup {a}
  /\ agent' = [agent EXCEPT ![a] = "testing"]
  /\ UNCHANGED <<wavVars, agents, todo, main, exited, disposition, callbacks, handler, requested,
                 stopping, asleep, interrupts>>

StartFrontend ==
  /\ MainCan
  /\ main = "starting"
  /\ \A a \in agents : agent[a] # "none"
  /\ main' = "running"
  /\ UNCHANGED <<wavVars, agents, todo, exited, disposition, callbacks, handler, started,
                 requested, agent, stopping, asleep, interrupts>>

\* WAVStream::run(), which does not look at stopping_, but for endStream().
FrontendRuns ==
  /\ MainCan
  /\ main = "running"
  /\ ~(walk = "leaving" /\ dataRead)
  /\ WAVNext
  /\ UNCHANGED appVars

\* endStream() closes the worker's channel, which may not wake it.
CloseChannel ==
  /\ MainCan
  /\ main = "running"
  /\ walk = "leaving"
  /\ dataRead
  /\ main' = "joining"
  /\ asleep' \in BOOLEAN
  /\ UNCHANGED <<wavVars, agents, todo, exited, disposition, callbacks, handler, started,
                 requested, agent, stopping, interrupts>>

\* A faulty endStream() that leaves the worker running.
WorkerLeft == main = "joining"

\* The worker has ended, which it cannot asleep or under a handler.
WorkerEnded == main = "joining" /\ ~asleep /\ handler["worker"] = "none"

\* It joins the worker then, and run() returns.
JoinWorker ==
  /\ MainCan
  /\ WorkerEnded
  /\ main' = "running"
  /\ EndRun
  /\ UNCHANGED <<agents, todo, exited, disposition, callbacks, handler, started, requested,
                 agent, stopping, asleep, interrupts>>

RunReturns ==
  /\ MainCan
  /\ main = "running"
  /\ walk = "returned"
  /\ main' = "tearing down"
  /\ todo' = After
  /\ UNCHANGED <<wavVars, agents, exited, disposition, callbacks, handler, started, requested,
                 agent, stopping, asleep, interrupts>>

Return ==
  /\ MainCan
  /\ main = "tearing down"
  /\ todo = << >>
  /\ exited' = "returned"
  /\ UNCHANGED <<wavVars, agents, todo, main, disposition, callbacks, handler, started,
                 requested, agent, stopping, asleep, interrupts>>

MainRuns ==
  \/ Call
  \/ \E a \in Agents : StartAgent(a)
  \/ StartFrontend
  \/ FrontendRuns
  \/ CloseChannel
  \/ JoinWorker
  \/ RunReturns
  \/ Return

-----------------------------------------------------------------------------
(* Signals.                                                                *)

Running(t) ==
  CASE t = "main"   -> TRUE
    [] t = "worker" -> stream = "open"
    [] OTHER        -> agent[t] \in {"testing", "draining"}

\* INT on thread t, which is not in the handler already.
Interrupt(t) ==
  /\ exited = "no"
  /\ interrupts < MaxInterrupts
  /\ Running(t)
  /\ handler[t] = "none"
  /\ interrupts' = interrupts + 1
  /\ exited' = IF disposition["INT"] = "default" THEN "killed" ELSE exited
  /\ handler' = IF disposition["INT"] = "handler" /\ callbacks["INT"] > 0
                THEN [handler EXCEPT ![t] = "requesting"] ELSE handler
  /\ UNCHANGED <<wavVars, agents, todo, main, disposition, callbacks, started, requested, agent,
                 stopping, asleep>>

\* TERM on any thread: termHandler() exits.  Between install() and
\* pushMethod() there is nobody to call.
Terminate ==
  /\ exited = "no"
  /\ \/ disposition["TERM"] = "default" /\ exited' = "killed"
     \/ disposition["TERM"] = "handler" /\ callbacks["TERM"] > 0 /\ exited' = "terminated"
  /\ UNCHANGED <<wavVars, agents, todo, main, disposition, callbacks, handler, started,
                 requested, agent, stopping, asleep, interrupts>>

\* Pipeline::stop(): stop() of every agent, of the frontend, and then the joins.
RequestAgents(t) ==
  /\ handler[t] = "requesting"
  /\ requested' = requested \cup started
  /\ handler' = [handler EXCEPT ![t] = "stopping"]
  /\ UNCHANGED <<wavVars, agents, todo, main, exited, disposition, callbacks, started, agent,
                 stopping, asleep, interrupts>>

\* A faulty order: the joins before the frontend's stop().
StopsLast(t) == handler[t] = "stopping" /\ started = {}

\* When stop() of the frontend may be called.
StopsNow(t) == handler[t] = "stopping"

StopFrontend(t) ==
  /\ StopsNow(t)
  /\ stopping' = TRUE
  /\ handler' = [handler EXCEPT ![t] = "joining"]
  /\ UNCHANGED <<wavVars, agents, todo, main, exited, disposition, callbacks, started, requested,
                 agent, asleep, interrupts>>

\* A thread's join() of itself may return at once, or never.
JoinReturns(t, a) ==
  /\ handler[t] = "joining"
  /\ a \in started
  /\ agent[a] = "ended" \/ a = t
  /\ started' = started \ {a}
  /\ UNCHANGED <<wavVars, agents, todo, main, exited, disposition, callbacks, handler, requested,
                 agent, stopping, asleep, interrupts>>

HandlerReturns(t) ==
  /\ handler[t] = "joining"
  /\ started = {}
  /\ handler' = [handler EXCEPT ![t] = "none"]
  /\ UNCHANGED <<wavVars, agents, todo, main, exited, disposition, callbacks, started, requested,
                 agent, stopping, asleep, interrupts>>

HandlerRuns(t) ==
  /\ exited = "no"
  /\ \/ RequestAgents(t)
     \/ StopFrontend(t)
     \/ \E a \in Agents : JoinReturns(t, a)
     \/ HandlerReturns(t)

-----------------------------------------------------------------------------
(* An agent's thread: Agent::run() and MetadataAgent::runCycle().          *)

\* A cycle begins with drainAll(), from which nobody ever wakes it.
AgentTests(a) ==
  /\ exited = "no"
  /\ agent[a] = "testing"
  /\ handler[a] = "none"
  /\ agent' = [agent EXCEPT ![a] = IF a \in requested THEN "ended" ELSE "draining"]
  /\ UNCHANGED <<wavVars, agents, todo, main, exited, disposition, callbacks, handler, started,
                 requested, stopping, asleep, interrupts>>

-----------------------------------------------------------------------------
AppNext ==
  \/ MainRuns
  \/ Terminate
  \/ \E t \in Threads : Interrupt(t) \/ HandlerRuns(t)
  \/ \E a \in Agents : AgentTests(a)

AppSpec == AppInit /\ [][AppNext]_allVars

\* Threads, and the handlers on them, are scheduled; no signal need come.
FairAppSpec ==
  /\ AppSpec
  /\ WF_allVars(MainRuns)
  /\ \A t \in Threads : WF_allVars(RequestAgents(t) \/ StopFrontend(t) \/ HandlerReturns(t))
  /\ \A a \in Agents : WF_allVars(AgentTests(a))

-----------------------------------------------------------------------------
(* Properties.                                                             *)

\* "The program reads the WAV file and exits" (README.md:74-76): whatever
\* signals come and on whichever thread, also on the worker that the end of the
\* stream waits for.  It does not, and these are all the reasons: an INT has
\* come to a program with agents; the worker slept over the close of its
\* channel, and endStream() waits for it; what the walk reads behind the end of
\* the file is, from some time on, the size that counts nothing.  (App.cpp:223-232,
\* Pipeline.cpp:12-35, WAVStream.cpp:158-183, 236-244, Channel.h:102-106,
\* WaterfallBackend.cpp:405-409.)
ProgramEnds ==
  \/ <>(exited # "no")
  \/ agents # {} /\ <>(interrupts > 0)
  \/ <>[](main = "joining" /\ asleep)
  \/ <>[](AtEnd /\ size = 2 * Half - 4)

\* An INT that has found its callback asks the frontend to stop, though the
\* handler may then wait for an agent for ever.  (Pipeline.cpp:23-35.)
InterruptReachesFrontend ==
  (\E t \in Threads : handler[t] # "none") ~> stopping \/ exited # "no"

\* onRun() does not delete a callback a handler is in, though only the main
\* thread's own handlers keep it from going on: by the time it tears down, the
\* threads of the stream are gone.  Agents are not, nobody stops them when the
\* stream ends by itself.  (Signal.h:68-71, 102-108, App.cpp:228-232.)
CallbackOutlivesHandlers ==
  \A t \in Threads \ agents : handler[t] # "none" => callbacks["INT"] > 0

\* INT ends the program.  It does not once an agent has gone to sleep:
\* Pipeline::stop() waits for it.  (App.cpp:251-256, MetadataAgent.cpp:26.)
InterruptEnds == stopping ~> exited # "no"
=============================================================================
