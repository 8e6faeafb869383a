--------------------------- MODULE TransportEngine ---------------------------
(***************************************************************************)
(* How the program goes online and how its identities get and run their    *)
(* hidden services: DsEngine, IdentityManager and Identity, and below them *)
(* TorProtocolManager, TorMgr and TorController, with the control          *)
(* connection to Tor.                                                      *)
(*                                                                         *)
(* A signal of a lower layer runs the slots of the layers above at once,   *)
(* so a reply of Tor is one step through all of them.  Two things wait:    *)
(* the commands Tor has not answered, and the queued signals in `posted`.  *)
(* TorCtlSocket::processIn() handles every reply that has arrived before   *)
(* posted signals or the user have their turn.                             *)
(*                                                                         *)
(* Tor is external: it executes commands in order, and its services end    *)
(* with the control connection that added them.                            *)
(***************************************************************************)
EXTENDS Naturals, SequencesExt

CONSTANTS
  Identities,     \* identities the user may create
  Bootstrapped,   \* what Tor may have done when the control connection is made
  MaxOnions,      \* how many hidden services are made or imported (a bound)
  MaxPort,        \* local ports a listener may get (a bound)
  MaxStarts,      \* how often the user goes online (a bound)
  MaxRefusals,    \* how often Tor refuses what it could do (a bound)
  MaxPending      \* the user clicks only with fewer commands waiting (a bound)

ASSUME BootstrappedAssumption == Bootstrapped \subseteq BOOLEAN
ASSUME BoundsAssumption ==
  /\ {MaxOnions, MaxPort, MaxStarts, MaxRefusals, MaxPending} \subseteq Nat
  /\ MaxPort > 0

Onions == 1..MaxOnions
NoOnion == 0
Ports == 1..MaxPort
NoPort == 0
Elsewhere == MaxPort + 1
Nobody == "Nobody"

ASSUME IdentitiesAssumption == IsFiniteSet(Identities) /\ Nobody \notin Identities

VARIABLES
  engine,       \* DsEngine::state_
  pm,           \* TorProtocolManager::state_; NONE without a tor_mgr_
  ctl,          \* TorController::ctl_state_
  tor,          \* TorController::tor_state_
  pending,      \* TorCtlSocket::pending_, with the commands sent
  readable,     \* how many replies the last poll found
  serviceMap,   \* TorController::service_map_
  listener,     \* the port of each service in TorProtocolManager::services_
  slots,        \* connections of ready() to online()
  whenOnline,   \* when_online_: each entry calls tryMakeTransport()
  posted,       \* queued signals DsEngine has not handled
  exists,       \* whether an identity was created, and removed
  autoConnect,  \* Identity::data_.autoConnect, kept over restarts
  address,      \* Identity::data_.address, kept over restarts
  online,       \* Identity::online_
  boot,         \* Tor has bootstrapped
  running,      \* the local port each service Tor runs leads to
  owner,        \* the identity each service was made or imported for
  starts, refusals,
  alive         \* the program runs

engineVars == <<engine, pm, slots, whenOnline, posted>>
ctlVars == <<ctl, tor, pending, readable, serviceMap, listener>>
identityVars == <<exists, autoConnect, address, online>>
torVars == <<boot, running, owner>>
boundVars == <<starts, refusals>>
vars == <<engineVars, ctlVars, identityVars, torVars, boundVars, alive>>

Greetings == {"PROTOCOLINFO", "AUTHCHALLENGE", "AUTHENTICATE", "SETEVENTS",
              "GETINFO"}
Commands ==
  [kind : Greetings]
    \cup [kind : {"NEW"}, id : Identities]
    \cup [kind : {"ADD"}, id : Identities, onion : Onions, port : Ports]
    \cup [kind : {"DEL"}, id : Identities, onion : Onions]

Command(kind) == [kind |-> kind]
New(i) == [kind |-> "NEW", id |-> i]
Add(i, o, p) == [kind |-> "ADD", id |-> i, onion |-> o, port |-> p]
Del(i, o) == [kind |-> "DEL", id |-> i, onion |-> o]

Events == [kind : {"Online"}] \cup [kind : {"HandleError"}, id : Identities]
Online == [kind |-> "Online"]
HandleError(i) == [kind |-> "HandleError", id |-> i]

TypeOK ==
  /\ engine \in {"INITIALIZING", "STARTING", "RUNNING", "CLOSING", "TERMINATED"}
  /\ pm \in {"NONE", "OFFLINE", "CONNECTING", "CONNECTED", "ONLINE"}
  /\ ctl \in {"DISCONNECTED", "CONNECTING", "AUTHENTICATING", "CONNECTED",
              "ONLINE", "STOPPED"}
  /\ tor \in {"UNKNOWN", "INITIALIZING", "READY"}
  /\ pending \in Seq(Commands)
  /\ readable \in 0..Len(pending)
  /\ serviceMap \in [Identities -> Onions \cup {NoOnion}]
  /\ listener \in [Identities -> Ports \cup {NoPort}]
  /\ slots \in Nat
  /\ whenOnline \in Seq(Identities)
  /\ posted \in Seq(Events)
  /\ exists \in [Identities -> {"not yet", "yes", "removed"}]
  /\ autoConnect \in [Identities -> BOOLEAN]
  /\ address \in [Identities -> Onions \cup {NoOnion}]
  /\ online \in [Identities -> BOOLEAN]
  /\ boot \in BOOLEAN
  /\ running \in [Onions -> 0..Elsewhere]
  /\ owner \in [Onions -> Identities \cup {Nobody}]
  /\ starts \in Nat /\ refusals \in Nat
  /\ alive \in BOOLEAN

NoneOf(none) == [i \in Identities |-> none]
NotRunning == [o \in Onions |-> NoPort]

Init ==
  /\ engine = "INITIALIZING" /\ pm = "NONE"
  /\ ctl = "DISCONNECTED" /\ tor = "UNKNOWN"
  /\ pending = <<>> /\ readable = 0
  /\ serviceMap = NoneOf(NoOnion) /\ listener = NoneOf(NoPort)
  /\ slots = 0 /\ whenOnline = <<>> /\ posted = <<>>
  /\ exists = NoneOf("not yet")
  /\ autoConnect = NoneOf(FALSE)
  /\ address = NoneOf(NoOnion)
  /\ online = NoneOf(FALSE)
  /\ boot = FALSE
  /\ running = NotRunning
  /\ owner = [o \in Onions |-> Nobody]
  /\ starts = 0 /\ refusals = 0
  /\ alive = TRUE

\* TorController::isConnected(), without which TorMgr throws an OfflineError.
IsConnected == ctl \in {"CONNECTED", "ONLINE"}

\* DsEngine::isOnline().
IsOnline == pm = "ONLINE"

(***************************************************************************)
(* The parts handlers share.                                               *)
(***************************************************************************)

\* A failing assertion, a null tor_mgr_, an exception that leaves the event
\* loop, or a loop without an end: the program is gone, and its services too.
\* The identities and their addresses are rows.
Ended ==
  /\ alive' = FALSE
  /\ engine' = "INITIALIZING" /\ pm' = "NONE"
  /\ ctl' = "DISCONNECTED" /\ tor' = "UNKNOWN"
  /\ pending' = <<>> /\ readable' = 0
  /\ serviceMap' = NoneOf(NoOnion) /\ listener' = NoneOf(NoPort)
  /\ slots' = 0 /\ whenOnline' = <<>> /\ posted' = <<>>
  /\ online' = NoneOf(FALSE)
  /\ running' = NotRunning
  /\ UNCHANGED <<exists, autoConnect, address, boot, owner, boundVars>>

\* The services whose end TorController::setState(TorState) announces: all it
\* knows of, when Tor was ready.
Announced == {i \in Identities : tor = "READY" /\ serviceMap[i] # NoOnion}

\* Mutant: the identity is not told that its service has stopped.
StillOnline(gone) == online

\* DsEngine::onServiceStopped().
TakenOffline(gone) == [i \in Identities |-> online[i] /\ i \notin gone]

\* Mutant: the engine does not care that the protocol manager is offline.
StillRunning(state) == IF state = "CONNECTED" THEN "RUNNING" ELSE engine

\* DsEngine::onStateChanged(), outside close(), which takes care of itself.
EngineAt(state) == IF state = "CONNECTED" THEN "RUNNING" ELSE "INITIALIZING"

\* The control socket is disconnected: TorController::clear() and the slots of
\* TorMgr, TorProtocolManager and DsEngine.
Cleared ==
  /\ ctl' = "STOPPED"
  /\ tor' = "UNKNOWN"
  /\ pm' = "OFFLINE"
  /\ engine' = EngineAt("OFFLINE")
  /\ online' = TakenOffline(Announced)
  /\ pending' = <<>>
  /\ readable' = 0
  /\ running' = NotRunning
  /\ UNCHANGED <<slots, whenOnline, posted, serviceMap, listener, exists,
                 autoConnect, address, boot, owner, boundVars, alive>>

\* TorProtocolManager::startService() for each identity of `order`, after the
\* commands in `sent`: a new listener, whose port nobody else listens on, takes
\* the place of the old one; the service is in the map before Tor has answered.
Start(order, sent, addr) ==
  \E port \in [ToSet(order) -> Ports] :
    /\ \A i, j \in ToSet(order) : i # j => port[i] # port[j]
    /\ \A i \in ToSet(order), j \in Identities : port[i] # listener[j]
    /\ pending' = sent \o [k \in DOMAIN order |->
                             Add(order[k], addr[order[k]], port[order[k]])]
    /\ listener' = [i \in Identities |->
                      IF i \in ToSet(order) THEN port[i] ELSE listener[i]]
    /\ serviceMap' = [i \in Identities |->
                        IF i \in ToSet(order) THEN addr[i] ELSE serviceMap[i]]

\* Identity::stopService() down to TorController::stopService(), connected: of a
\* service the controller does not know, TorMgr says at once that it stopped.
Stop(i) ==
  IF serviceMap[i] = NoOnion
  THEN online' = TakenOffline({i}) /\ UNCHANGED pending
  ELSE pending' = Append(pending, Del(i, serviceMap[i])) /\ UNCHANGED online

\* DsEngine::whenOnline() with tryMakeTransport().
MakeTransport(i) ==
  IF IsOnline
  THEN pending' = Append(pending, New(i)) /\ UNCHANGED whenOnline
  ELSE whenOnline' = Append(whenOnline, i) /\ UNCHANGED pending

\* The next service, made by Tor or imported.
IsNext(o) == owner[o] = Nobody /\ \A p \in Onions : p < o => owner[p] # Nobody

(***************************************************************************)
(* The user goes online and offline.                                       *)
(***************************************************************************)

\* Manager::goOnline(): DsEngine::start() with a new protocol manager.  Every
\* start connects ready() to online() once more.
GoOnline ==
  /\ alive /\ readable = 0
  /\ pm \in {"NONE", "OFFLINE"}
  /\ starts < MaxStarts
  /\ starts' = starts + 1
  /\ slots' = slots + 1
  /\ engine' = "STARTING" /\ pm' = "CONNECTING"
  /\ ctl' = "CONNECTING" /\ tor' = "UNKNOWN"
  /\ pending' = <<>>
  /\ serviceMap' = NoneOf(NoOnion) /\ listener' = NoneOf(NoPort)
  /\ UNCHANGED <<readable, whenOnline, posted, identityVars, torVars, refusals,
                 alive>>

\* The control socket is connected: TorController::startAuth().
StartAuth ==
  /\ alive /\ readable = 0 /\ posted = <<>>
  /\ ctl = "CONNECTING"
  /\ \E b \in Bootstrapped : boot' = b
  /\ ctl' = "AUTHENTICATING"
  /\ pending' = <<Command("PROTOCOLINFO")>>
  /\ UNCHANGED <<engineVars, tor, readable, serviceMap, listener, identityVars,
                 running, owner, boundVars, alive>>

\* Identities disconnectAll() takes offline, or the end of the connection does.
Closed ==
  Announced \cup {i \in Identities : exists[i] = "yes" /\ serviceMap[i] = NoOnion}

\* Manager::goOffline(): DsEngine::close().  Every identity is told to stop its
\* service, which throws unless the control connection is authenticated.  The
\* DEL_ONIONs are lost with the connection, which ends the services as well.
\* TERMINATED follows only when a connected socket was disconnected.
GoOffline ==
  /\ alive /\ readable = 0
  /\ pm \in {"CONNECTING", "CONNECTED", "ONLINE"}
  /\ IF ~IsConnected /\ \E i \in Identities : exists[i] = "yes"
     THEN Ended
     ELSE /\ engine' = IF ctl = "CONNECTING" THEN "CLOSING" ELSE "TERMINATED"
          /\ pm' = "NONE"
          /\ ctl' = "DISCONNECTED" /\ tor' = "UNKNOWN"
          /\ online' = TakenOffline(Closed)
          /\ pending' = <<>>
          /\ serviceMap' = NoneOf(NoOnion) /\ listener' = NoneOf(NoPort)
          /\ running' = NotRunning
          /\ UNCHANGED <<slots, whenOnline, posted, readable, exists,
                         autoConnect, address, boot, owner, boundVars, alive>>

\* Tor ends the control connection, or TorCtlSocket aborts it.
Lose ==
  /\ alive /\ readable = 0 /\ posted = <<>>
  /\ ctl \in {"AUTHENTICATING", "CONNECTED", "ONLINE"}
  /\ Cleared

\* Tor completes its bootstrap; what it reports is only logged.
Bootstrap ==
  /\ ~boot /\ ctl \in {"AUTHENTICATING", "CONNECTED"}
  /\ boot' = TRUE
  /\ UNCHANGED <<engineVars, ctlVars, identityVars, running, owner, boundVars,
                 alive>>

\* The user quits, or the program is killed.
Quit ==
  /\ alive /\ readable = 0
  /\ Ended

\* The program starts again, with the state that Ended left.
Restart ==
  /\ ~alive
  /\ alive' = TRUE
  /\ UNCHANGED <<engineVars, ctlVars, identityVars, torVars, boundVars>>

(***************************************************************************)
(* The replies of Tor, in the order of the commands.                       *)
(***************************************************************************)

\* The event loop finds replies: TorCtlSocket::processIn() handles all of them.
Poll ==
  /\ alive /\ readable = 0 /\ posted = <<>>
  /\ readable' \in 1..Len(pending)
  /\ UNCHANGED <<engineVars, ctl, tor, pending, serviceMap, listener,
                 identityVars, torVars, boundVars, alive>>

\* The next command that was answered, and the commands left.
Replying(kind) ==
  /\ alive /\ readable > 0
  /\ Head(pending).kind = kind

Left == Tail(pending)

\* Tor refuses what it could have done.
Refused ==
  /\ refusals < MaxRefusals
  /\ refusals' = refusals + 1

\* A reply that only leads to further commands.
Proceeds(commands) ==
  /\ readable' = readable - 1
  /\ pending' = Left \o commands
  /\ UNCHANGED <<engineVars, ctl, tor, serviceMap, listener, identityVars,
                 torVars, boundVars, alive>>

\* TorController::DoAuthentcate(): password or cookie, or a challenge first.
ReplyProtocolInfo ==
  /\ Replying("PROTOCOLINFO")
  /\ \E kind \in {"AUTHENTICATE", "AUTHCHALLENGE"} : Proceeds(<<Command(kind)>>)

ReplyAuthChallenge ==
  /\ Replying("AUTHCHALLENGE")
  /\ Proceeds(<<Command("AUTHENTICATE")>>)

\* Mutant: ready() reaches online() only the first time.
OnlineOnce == IF slots = 1 THEN <<Online>> ELSE <<>>

\* ready() posts one call of online() for each connection.
Ready == [k \in 1..slots |-> Online]

\* TorController::OnAuthReply(), when Tor is content: the engine is RUNNING.
ReplyAuthenticate ==
  /\ Replying("AUTHENTICATE")
  /\ readable' = readable - 1
  /\ pending' = Left \o <<Command("SETEVENTS"), Command("GETINFO")>>
  /\ ctl' = "CONNECTED" /\ pm' = "CONNECTED" /\ engine' = EngineAt("CONNECTED")
  /\ posted' = posted \o Ready
  /\ UNCHANGED <<slots, whenOnline, tor, serviceMap, listener, identityVars,
                 torVars, boundVars, alive>>

\* No usable method, a wrong challenge or password, or an unexpected status: the
\* connection is aborted.  OnAuthReply() destroys the socket that is calling it.
ReplyCloses ==
  /\ \E kind \in Greetings \ {"SETEVENTS"} : Replying(kind)
  /\ Cleared \/ (Replying("AUTHENTICATE") /\ Ended)

ReplySetEvents ==
  /\ Replying("SETEVENTS")
  /\ Proceeds(<<>>)

\* The bootstrap phase, asked for once.
ReplyGetInfo ==
  /\ Replying("GETINFO")
  /\ readable' = readable - 1
  /\ pending' = Left
  /\ IF boot
     THEN tor' = "READY" /\ ctl' = "ONLINE" /\ pm' = "ONLINE"
     ELSE tor' = "INITIALIZING" /\ UNCHANGED <<ctl, pm>>
  /\ UNCHANGED <<engine, slots, whenOnline, posted, serviceMap, listener,
                 identityVars, torVars, boundVars, alive>>

\* Tor made a service: TorController::createService(), onServiceCreated() of
\* TorProtocolManager, which stops it again, and onTransportHandleReady() of
\* DsEngine, which starts it when the identity connects by itself.
ReplyNew ==
  /\ Replying("NEW")
  /\ \E o \in Onions :
       LET i == Head(pending).id
           stopping == Append(Left, Del(i, o))
           addr == [address EXCEPT ![i] = o]
       IN /\ IsNext(o)
          /\ owner' = [owner EXCEPT ![o] = i]
          /\ running' = [running EXCEPT ![o] = Elsewhere]
          /\ address' = IF exists[i] = "yes" THEN addr ELSE address
          /\ IF exists[i] = "yes" /\ engine = "RUNNING" /\ IsOnline
                  /\ autoConnect[i]
             THEN Start(<<i>>, stopping, addr)
             ELSE /\ pending' = stopping
                  /\ serviceMap' = [serviceMap EXCEPT ![i] = o]
                  /\ UNCHANGED listener
  /\ readable' = readable - 1
  /\ UNCHANGED <<engineVars, ctl, tor, exists, autoConnect, online, boot,
                 boundVars, alive>>

\* Mutant: only serviceFailed(), which nobody acts on.
Unreported == posted

\* serviceFailed() of the service of the command, with a queued error.
Reported == Append(posted, HandleError(Head(pending).id))

\* A command for a service failed.
Fails ==
  /\ readable' = readable - 1
  /\ pending' = Left
  /\ posted' = Reported
  /\ UNCHANGED <<engine, pm, slots, whenOnline, ctl, tor, serviceMap, listener,
                 identityVars, torVars, alive>>

\* A bound: Tor makes no more than MaxOnions services.
NewFails ==
  /\ Replying("NEW")
  /\ IF \E o \in Onions : IsNext(o) THEN Refused /\ UNCHANGED starts
     ELSE UNCHANGED boundVars
  /\ Fails

\* The service runs: serviceStarted().
ReplyAdd ==
  /\ Replying("ADD")
  /\ LET c == Head(pending)
     IN /\ running[c.onion] = NoPort
        /\ running' = [running EXCEPT ![c.onion] = c.port]
        /\ online' = [online EXCEPT ![c.id] = exists[c.id] = "yes"]
  /\ readable' = readable - 1
  /\ pending' = Left
  /\ UNCHANGED <<engineVars, ctl, tor, serviceMap, listener, exists,
                 autoConnect, address, boot, owner, boundVars, alive>>

\* Tor does not run a service twice.
AddFails ==
  /\ Replying("ADD")
  /\ IF running[Head(pending).onion] # NoPort THEN UNCHANGED boundVars
     ELSE Refused /\ UNCHANGED starts
  /\ Fails

\* The service has ended: serviceStopped().
ReplyDel ==
  /\ Replying("DEL")
  /\ LET c == Head(pending)
     IN /\ running[c.onion] # NoPort
        /\ running' = [running EXCEPT ![c.onion] = NoPort]
        /\ online' = TakenOffline({c.id})
  /\ readable' = readable - 1
  /\ pending' = Left
  /\ UNCHANGED <<engineVars, ctl, tor, serviceMap, listener, exists,
                 autoConnect, address, boot, owner, boundVars, alive>>

DelFails ==
  /\ Replying("DEL")
  /\ running[Head(pending).onion] = NoPort
  /\ UNCHANGED boundVars
  /\ Fails

(***************************************************************************)
(* The queued signals, in the order they were posted.                      *)
(***************************************************************************)

Handling(kind) ==
  /\ alive /\ readable = 0 /\ posted # <<>>
  /\ Head(posted).kind = kind
  /\ posted' = Tail(posted)

\* Mutant: also an identity that has no service yet.
StartableUnmade ==
  {i \in Identities : exists[i] = "yes" /\ autoConnect[i] /\ ~online[i]}

\* What IdentityManager::onOnline() starts.
Startable ==
  {i \in Identities : exists[i] = "yes" /\ autoConnect[i] /\ ~online[i]
                       /\ address[i] # NoOnion}

\* DsEngine::online(), which knows nothing of the state it is called in: without
\* a connection a waiting function is put back for ever, and a service throws.
OnOnline ==
  \/ /\ Handling("Online")
     /\ IsConnected
     /\ \E order \in SetToSeqs(Startable) :
          Start(order,
                pending \o [k \in DOMAIN whenOnline |-> New(whenOnline[k])],
                address)
     /\ whenOnline' = <<>>
     /\ UNCHANGED <<engine, pm, slots, ctl, tor, readable, identityVars, torVars,
                    boundVars, alive>>
  \/ /\ Handling("Online")
     /\ ~IsConnected /\ whenOnline = <<>> /\ Startable = {}
     /\ UNCHANGED <<engine, pm, slots, whenOnline, ctlVars, identityVars,
                    torVars, boundVars, alive>>

OnOnlineFails ==
  /\ alive /\ readable = 0 /\ posted # <<>>
  /\ Head(posted) = Online
  /\ ~IsConnected
  /\ whenOnline # <<>> \/ Startable # {}
  /\ Ended

\* DsEngine::onTransportHandleError() of an identity with an address: a failed
\* command takes the identity offline, whatever the command was.
OnErrorStops ==
  /\ Handling("HandleError")
  /\ LET i == Head(posted).id
     IN /\ exists[i] = "yes" /\ address[i] # NoOnion
        /\ IF online[i] THEN IsConnected /\ Stop(i)
           ELSE UNCHANGED <<pending, online>>
  /\ UNCHANGED <<engine, pm, slots, whenOnline, ctl, tor, readable, serviceMap,
                 listener, exists, autoConnect, address, torVars, boundVars, alive>>

OnErrorFails ==
  /\ alive /\ readable = 0 /\ posted # <<>>
  /\ Head(posted).kind = "HandleError"
  /\ LET i == Head(posted).id
     IN exists[i] = "yes" /\ address[i] # NoOnion /\ online[i]
  /\ ~IsConnected
  /\ Ended

\* The same without an address, or of an identity that was removed: once more.
OnErrorRetries ==
  /\ Handling("HandleError")
  /\ LET i == Head(posted).id
     IN (exists[i] # "yes" \/ address[i] = NoOnion) /\ MakeTransport(i)
  /\ UNCHANGED <<engine, pm, slots, ctl, tor, readable, serviceMap, listener,
                 identityVars, torVars, boundVars, alive>>

(***************************************************************************)
(* What the user does with an identity.                                    *)
(***************************************************************************)

\* A bound: every service still to be made has an onion left.
OnionsLeft ==
  Cardinality({o \in Onions : owner[o] # Nobody})
    + Len(SelectSeq(pending, LAMBDA c : c.kind = "NEW")) + Len(whenOnline)
    + Len(posted) < MaxOnions

Clicks == alive /\ readable = 0 /\ Len(pending) + Len(posted) < MaxPending

\* IdentityManager::createIdentity().
CreateIdentity(i) ==
  /\ Clicks /\ OnionsLeft
  /\ exists[i] = "not yet"
  /\ exists' = [exists EXCEPT ![i] = "yes"]
  /\ \E flag \in BOOLEAN : autoConnect' = [autoConnect EXCEPT ![i] = flag]
  /\ MakeTransport(i)
  /\ UNCHANGED <<engine, pm, slots, posted, ctl, tor, readable, serviceMap,
                 listener, address, online, torVars, boundVars, alive>>

\* IdentityManager::removeIdentity(): the service stays.
RemoveIdentity(i) ==
  /\ Clicks
  /\ exists[i] = "yes"
  /\ exists' = [exists EXCEPT ![i] = "removed"]
  /\ online' = [online EXCEPT ![i] = FALSE]
  /\ UNCHANGED <<engineVars, ctlVars, autoConnect, address, torVars, boundVars,
                 alive>>

\* Identity::setAutoConnect().
SetAutoConnect(i) ==
  /\ Clicks
  /\ exists[i] = "yes"
  /\ autoConnect' = [autoConnect EXCEPT ![i] = ~@]
  /\ UNCHANGED <<engineVars, ctlVars, exists, address, online, torVars, boundVars,
                 alive>>

\* "Start Tor service", offered while the program is online.
StartService(i) ==
  /\ Clicks /\ IsOnline
  /\ exists[i] = "yes" /\ ~online[i] /\ address[i] # NoOnion
  /\ Start(<<i>>, pending, address)
  /\ UNCHANGED <<engineVars, ctl, tor, readable, identityVars, torVars,
                 boundVars, alive>>

\* "Stop Tor service", offered while the program is online.
StopService(i) ==
  /\ Clicks /\ IsOnline
  /\ exists[i] = "yes" /\ online[i]
  /\ Stop(i)
  /\ UNCHANGED <<engineVars, ctl, tor, readable, serviceMap, listener, exists,
                 autoConnect, address, torVars, boundVars, alive>>

\* "New Tor service", offered while the program is online:
\* Identity::changeTransport().  The old service is left as it is.
ChangeTransport(i) ==
  /\ Clicks /\ IsOnline /\ OnionsLeft
  /\ exists[i] = "yes"
  /\ pending' = Append(pending, New(i))
  /\ UNCHANGED <<engineVars, ctl, tor, readable, serviceMap, listener,
                 identityVars, torVars, boundVars, alive>>

\* "Import Tor service", always offered: Identity::setNewTorService().
SetNewTorService(i) ==
  /\ Clicks /\ OnionsLeft
  /\ exists[i] = "yes"
  /\ IF online[i] /\ ~IsConnected
     THEN Ended
     ELSE /\ \E o \in Onions :
               /\ IsNext(o)
               /\ owner' = [owner EXCEPT ![o] = i]
               /\ address' = [address EXCEPT ![i] = o]
          /\ IF online[i] THEN Stop(i) ELSE UNCHANGED <<pending, online>>
          /\ UNCHANGED <<engineVars, ctl, tor, readable, serviceMap, listener,
                         exists, autoConnect, boot, running, boundVars, alive>>

Reply ==
  \/ ReplyProtocolInfo \/ ReplyAuthChallenge \/ ReplyAuthenticate \/ ReplyCloses
  \/ ReplySetEvents \/ ReplyGetInfo
  \/ ReplyNew \/ NewFails \/ ReplyAdd \/ AddFails \/ ReplyDel \/ DelFails

HandlePosted ==
  OnOnline \/ OnOnlineFails \/ OnErrorStops \/ OnErrorFails \/ OnErrorRetries

Next ==
  \/ GoOnline \/ StartAuth \/ GoOffline \/ Lose \/ Bootstrap \/ Quit \/ Restart
  \/ Poll \/ Reply \/ HandlePosted
  \/ \E i \in Identities :
       \/ CreateIdentity(i) \/ RemoveIdentity(i) \/ SetAutoConnect(i)
       \/ StartService(i) \/ StopService(i)
       \/ ChangeTransport(i) \/ SetNewTorService(i)

Spec == Init /\ [][Next]_vars

\* The event loop runs what is posted and polls; Tor accepts the connection and
\* answers.
FairSpec ==
  Spec /\ WF_vars(StartAuth) /\ WF_vars(Poll) /\ WF_vars(Reply)
       /\ WF_vars(HandlePosted)

(***************************************************************************)
(* What is checked.                                                        *)
(***************************************************************************)

\* The five layers, which learn of each other by signals only, agree: the engine
\* runs exactly while the protocol manager and the controller are connected, and
\* the program is online exactly while Tor is ready.
LayersAgree ==
  /\ (engine = "RUNNING") = (pm \in {"CONNECTED", "ONLINE"})
  /\ IsConnected = (pm \in {"CONNECTED", "ONLINE"})
  /\ (pm = "ONLINE") = (ctl = "ONLINE")
  /\ (pm = "ONLINE") = (tor = "READY")
  /\ pm \in {"NONE", "OFFLINE"} => pending = <<>> /\ running = NotRunning

Reachable(i) ==
  \E o \in Onions : owner[o] = i /\ running[o] # NoPort /\ running[o] = listener[i]

\* A command or an error that concerns the service of i.
Underway(i) ==
  \/ \E k \in DOMAIN pending : pending[k].kind \in {"ADD", "DEL"} /\ pending[k].id = i
  \/ HandleError(i) \in ToSet(posted)

\* An identity shown as online, whose service the controller knows, is reached
\* through a service of its own at the port it listens on, or what will correct
\* that is on its way: double starts, changes of the address and refusals included.
OnlineIsReachable ==
  \A i \in Identities :
    IsConnected /\ online[i] /\ serviceMap[i] # NoOnion
      => Reachable(i) \/ Underway(i)

Requested(i) ==
  \/ New(i) \in ToSet(pending)
  \/ i \in ToSet(whenOnline)
  \/ HandleError(i) \in ToSet(posted)

NeedsTransport(i) == exists[i] = "yes" /\ address[i] = NoOnion

Gone == ~alive \/ pm \in {"NONE", "OFFLINE"}

\* The request for the first service of an identity, in whichever of three queues
\* it is, is dropped by nothing but the end of the connection or of the program:
\* not by a refusal, nor while the program is offline.
RequestsAreKept ==
  [][\A i \in Identities :
       NeedsTransport(i) /\ Requested(i) /\ NeedsTransport(i)'
         => Requested(i)' \/ ~alive' \/ (~Gone /\ Gone')]_vars

\* An identity created before the control connection was authenticated gets its
\* service, if the connection lasts.  (A request that Tor refuses before it is
\* seen to be ready goes back to the queue, which is not looked at again.)
WaitingIsMade ==
  \A i \in Identities :
    (i \in ToSet(whenOnline) /\ ctl = "AUTHENTICATING")
      ~> (~NeedsTransport(i) \/ Gone \/ (refusals > 0 /\ ~IsOnline))

\* When Tor refuses nothing, an identity that is told to stop goes offline: the
\* command names a service that runs, whatever was started, imported or replaced
\* in between.  (After a refusal it may name one that does not, and the error of
\* each DEL_ONION then sends the next.)
StoppedGoesOffline ==
  \A i \in Identities :
    (online[i] /\ \E o \in Onions : Del(i, o) \in ToSet(pending))
      ~> (~online[i] \/ Gone \/ refusals > 0)
=============================================================================
