----------------------------- MODULE ClientJobs -----------------------------
(***************************************************************************)
(* The life of a client process: startup (Register, Initialize and the     *)
(* loading bar), the listener for chat requests, and the ping job that     *)
(* measures the chat servers and reports to Central, which may restart.    *)
(*                                                                         *)
(* A request either reaches a Central that is up or fails; a Central that  *)
(* cannot be reached is down for this client.  The three seconds between   *)
(* two rounds are not counted: a round starts some time after the last.    *)
(* Names are kept apart from ChatSession's, the other half of the client.  *)
(***************************************************************************)
EXTENDS Naturals, Functions

CONSTANTS
  Server,
  Delay,        \* what a ping may measure
  MaxFloat32    \* the delay of a server that does not answer

ASSUME DelayAssumption == MaxFloat32 \notin Delay

VARIABLES
  runner,       \* the runner's startup: "start" ... "menu", or "exited"
  register,     \* the goroutine of Register
  initialize,   \* the goroutine of Initialize
  listener,     \* messageRequestListener
  job,          \* the ping job
  toPing,       \* servers that the round has yet to ping
  ServerRegistry,
  answer,       \* what this process's registration came to
  central,      \* Central is up
  owner,        \* whose the username is at Central: "nobody", "us" or "other"
  delayList,    \* Central's delay list of the user, empty when there is none
  services,     \* the servers that Central lists
  link          \* the delay to each server at present

processVars == <<runner, register, initialize, listener, job, toPing, ServerRegistry, answer>>
centralVars == <<central, owner, delayList>>
networkVars == <<services, link>>
jobsVars == <<processVars, centralVars, networkVars>>

Delays == Delay \cup {MaxFloat32}

EmptyMap == [s \in {} |-> MaxFloat32]

\* make(map) with every server unreachable until it has been pinged.
Unmeasured(servers) == [s \in servers |-> MaxFloat32]

JobsInit ==
  /\ runner = "start"
  /\ register = "none"
  /\ initialize = "none"
  /\ listener = "none"
  /\ job = "off"
  /\ toPing = {}
  /\ ServerRegistry = EmptyMap
  /\ answer = "none"
  /\ central = TRUE
  /\ owner \in {"nobody", "other"}
  /\ delayList = EmptyMap
  /\ services \in SUBSET Server
  /\ link \in [Server -> Delays]
----------------------------------------------------------------------------
\* os.Exit, or the user quits: every goroutine ends.
Exit ==
  /\ runner' = "exited"
  /\ register' = "none"
  /\ initialize' = "none"
  /\ listener' = "none"
  /\ job' = "off"
  /\ toPing' = {}
  /\ ServerRegistry' = EmptyMap
  /\ answer' = "none"

\* The user enters the name; the loading bar starts Register.
StartRegister ==
  /\ runner = "start"
  /\ runner' = "registering"
  /\ register' = "post"
  /\ UNCHANGED <<initialize, listener, job, toPing, ServerRegistry, answer, centralVars, networkVars>>

MutantCreate(who) == owner' = who

\* RegisterClient, for a name that nobody has.  It also overwrites the name that
\* the address had before: see SameAddressRegisters.
Create(who) ==
  /\ owner = "nobody"
  /\ owner' = who

\* The request is answered, or its answer is lost.
Post ==
  /\ register = "post"
  /\ central
  /\ Create("us")
  /\ answer' \in {"created", "error"}
  /\ register' = "send"
  /\ UNCHANGED <<runner, initialize, listener, job, toPing, ServerRegistry, central, delayList,
                 networkVars>>

\* The name is taken, by a run of this client that has ended too.
PostConflict ==
  /\ register = "post"
  /\ central
  /\ owner # "nobody"
  /\ Exit
  /\ UNCHANGED <<centralVars, networkVars>>

PostFails ==
  /\ register = "post"
  /\ ~central
  /\ answer' = "error"
  /\ register' = "send"
  /\ UNCHANGED <<runner, initialize, listener, job, toPing, ServerRegistry, centralVars, networkVars>>

\* The loading bar takes an error for success as well, and starts Initialize.
Registered ==
  /\ runner = "registering"
  /\ register = "send"
  /\ runner' = "fetching"
  /\ register' = "none"
  /\ initialize' = "get"
  /\ listener' = "listen"
  /\ UNCHANGED <<job, toPing, ServerRegistry, answer, centralVars, networkVars>>

ListenForRequests ==
  /\ listener = "listen"
  /\ listener' = "accept"
  /\ UNCHANGED <<runner, register, initialize, job, toPing, ServerRegistry, answer, centralVars,
                 networkVars>>

ListenForRequestsFails ==
  /\ listener = "listen"
  /\ Exit
  /\ UNCHANGED <<centralVars, networkVars>>

\* The ping job starts before the result is sent.
GetServers ==
  /\ initialize = "get"
  /\ central
  /\ initialize' = "send"
  /\ ServerRegistry' = Unmeasured(services)
  /\ job' = "wait"
  /\ UNCHANGED <<runner, register, listener, toPing, answer, centralVars, networkVars>>

MutantGetServersFails ==
  /\ initialize = "get"
  /\ ~central
  /\ initialize' = "none"
  /\ UNCHANGED <<runner, register, listener, job, toPing, ServerRegistry, answer, centralVars,
                 networkVars>>

\* No ping job, then or later.
GetServersFails ==
  /\ initialize = "get"
  /\ ~central
  /\ initialize' = "send"
  /\ UNCHANGED <<runner, register, listener, job, toPing, ServerRegistry, answer, centralVars,
                 networkVars>>

Initialized ==
  /\ runner = "fetching"
  /\ initialize = "send"
  /\ runner' = "menu"
  /\ initialize' = "none"
  /\ UNCHANGED <<register, listener, job, toPing, ServerRegistry, answer, centralVars, networkVars>>

Quit ==
  /\ runner = "menu"
  /\ Exit
  /\ UNCHANGED <<centralVars, networkVars>>

\* The user starts the program again.
Restart ==
  /\ runner = "exited"
  /\ runner' = "start"
  /\ UNCHANGED <<register, initialize, listener, job, toPing, ServerRegistry, answer, centralVars,
                 networkVars>>
----------------------------------------------------------------------------
\* updateServerDelays.

\* GetServers and a new map.  With no servers there is nothing to report; when
\* Central does not answer there is no round.
StartRound ==
  /\ job = "wait"
  /\ central
  /\ ServerRegistry' = Unmeasured(services)
  /\ toPing' = services
  /\ job' = IF services = {} THEN "wait" ELSE "ping"
  /\ UNCHANGED <<runner, register, initialize, listener, answer, centralVars, networkVars>>

\* pingServer.  The map gives the servers in any order.
Ping(s) ==
  /\ job = "ping"
  /\ s \in toPing
  /\ ServerRegistry' = [ServerRegistry EXCEPT ![s] = link[s]]
  /\ toPing' = toPing \ {s}
  /\ job' = "report"
  /\ UNCHANGED <<runner, register, initialize, listener, answer, centralVars, networkVars>>

MutantUpdateDelayList(delays) ==
  delayList' = [s \in DOMAIN delayList \cup DOMAIN delays |->
                  IF s \in DOMAIN delays THEN delays[s] ELSE delayList[s]]

\* Central's handler replaces the whole list, whoever sends it.
UpdateDelayList(delays) == delayList' = delays

MutantReport ==
  /\ job = "report"
  /\ IF central /\ toPing # {} THEN UpdateDelayList(ServerRegistry) ELSE UNCHANGED delayList
  /\ job' = IF toPing = {} THEN "wait" ELSE "ping"
  /\ UNCHANGED <<runner, register, initialize, listener, toPing, ServerRegistry, answer,
                 central, owner, networkVars>>

\* reportDelaysToCentral, after every ping; an error is logged and that is all.
Report ==
  /\ job = "report"
  /\ IF central THEN UpdateDelayList(ServerRegistry) ELSE UNCHANGED delayList
  /\ job' = IF toPing = {} THEN "wait" ELSE "ping"
  /\ UNCHANGED <<runner, register, initialize, listener, toPing, ServerRegistry, answer,
                 central, owner, networkVars>>
----------------------------------------------------------------------------
\* Central and the network.

\* Central restarts with empty stores; nobody registers again by itself.
CentralCrash ==
  /\ central
  /\ central' = FALSE
  /\ owner' = "nobody"
  /\ delayList' = EmptyMap
  /\ services' = {}
  /\ answer' = IF answer = "created" THEN "forgotten" ELSE answer
  /\ UNCHANGED <<runner, register, initialize, listener, job, toPing, ServerRegistry, link>>

CentralStart ==
  /\ ~central
  /\ central' = TRUE
  /\ UNCHANGED <<processVars, owner, delayList, networkVars>>

OtherRegisters ==
  /\ central
  /\ Create("other")
  /\ UNCHANGED <<processVars, central, delayList, networkVars>>

\* A second client at the address of the name's owner registers a name of its
\* own (Create looks for the name only, not for the address), or that address
\* sends a DELETE: the entry goes, and nobody has the name any more.
SameAddressRegisters ==
  /\ central
  /\ owner # "nobody"
  /\ owner' = "nobody"
  /\ answer' = IF owner = "us" /\ answer = "created" THEN "replaced" ELSE answer
  /\ UNCHANGED <<runner, register, initialize, listener, job, toPing, ServerRegistry, central,
                 delayList, networkVars>>

\* Heartbeats arrive or stop.
ServicesChange ==
  /\ central
  /\ services' \in SUBSET Server
  /\ UNCHANGED <<processVars, centralVars, link>>

LinkChange(s) ==
  /\ \E d \in Delays : link' = [link EXCEPT ![s] = d]
  /\ UNCHANGED <<processVars, centralVars, services>>
----------------------------------------------------------------------------
Startup ==
  \/ Post \/ PostConflict \/ PostFails \/ Registered
  \/ GetServers \/ GetServersFails \/ Initialized

Round == StartRound \/ Report \/ \E s \in Server : Ping(s)

JobsNext ==
  \/ StartRegister \/ Startup \/ ListenForRequests \/ ListenForRequestsFails \/ Quit \/ Restart
  \/ Round
  \/ CentralCrash \/ CentralStart \/ OtherRegisters \/ SameAddressRegisters \/ ServicesChange
  \/ \E s \in Server : LinkChange(s)

JobsSpec == JobsInit /\ [][JobsNext]_jobsVars

\* The client's goroutines run on and its ticker ticks.
FairJobs ==
  /\ JobsSpec
  /\ WF_jobsVars(Startup)
  /\ WF_jobsVars(Round)
----------------------------------------------------------------------------
\* Types; a round pings servers of its own map and none twice.
JobsTypeOK ==
  /\ runner \in {"start", "registering", "fetching", "menu", "exited"}
  /\ register \in {"none", "post", "send"}
  /\ initialize \in {"none", "get", "send"}
  /\ listener \in {"none", "listen", "accept"}
  /\ job \in {"off", "wait", "ping", "report"}
  /\ toPing \subseteq DOMAIN ServerRegistry
  /\ DOMAIN ServerRegistry \subseteq Server /\ Range(ServerRegistry) \subseteq Delays
  /\ answer \in {"none", "created", "error", "forgotten", "replaced"}
  /\ central \in BOOLEAN
  /\ owner \in {"nobody", "us", "other"}
  /\ DOMAIN delayList \subseteq Server /\ Range(delayList) \subseteq Delays
  /\ services \subseteq Server
  /\ link \in [Server -> Delays]

\* A name that Central has confirmed stays its client's, whoever else wants
\* it, until Central restarts or another registration from the same address
\* takes the address's entry in the store.  A client in the menu whose name is
\* not its own went through one of these, or its answer was lost: the loading
\* bar takes an error for success.
NameIsOurs ==
  /\ answer = "created" => owner = "us"
  /\ runner = "menu" /\ owner # "us" => answer \in {"error", "forgotten", "replaced"}

\* Startup comes to an end, in the menu or with the process.
StartupEnds == runner = "registering" ~> runner \in {"menu", "exited"}

\* Central, the network and the list of servers stay as they are.
Settles ==
  /\ <>[][UNCHANGED <<central, networkVars>>]_jobsVars
  /\ <>[](central /\ services # {} /\ job # "off")

\* Once things are quiet Central's list is, again and again, complete and
\* measured.  (Not always: every round starts from unreachable servers.)
ListsComplete == Settles => []<>(delayList = [s \in services |-> link[s]])

\* A server that stays down is, for good, absent or unreachable in the list
\* that the selection uses: no delay of an earlier round survives.
DeadServersUnreachable ==
  \A s \in Server :
    (Settles /\ <>[](link[s] = MaxFloat32))
      => <>[](s \in DOMAIN delayList => delayList[s] = MaxFloat32)
============================================================================
