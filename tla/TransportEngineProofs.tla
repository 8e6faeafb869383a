------------------------ MODULE TransportEngineProofs ------------------------
(***************************************************************************)
(* Theorems about TransportEngine, for any number of identities, services, *)
(* ports and starts.                                                       *)
(***************************************************************************)
EXTENDS TransportEngine, SequenceLemmas, FiniteSetTheorems

\* The commands that end in authentication, and those that concern a service.
Authentication == {"PROTOCOLINFO", "AUTHCHALLENGE", "AUTHENTICATE"}
OfService == {"NEW", "ADD", "DEL"}

\* The bootstrap phase is asked for right after the events.
InPlace(s) ==
  \A k \in 1..Len(s) :
    s[k].kind = "GETINFO" => k = 1 \/ (k = 2 /\ s[1].kind = "SETEVENTS")

\* A queue of commands that fits the states of the controller.
Waits(s) ==
  /\ s \in Seq(Commands)
  /\ InPlace(s)
  /\ \A c \in ToSet(s) :
       /\ c.kind \in Authentication => ctl = "AUTHENTICATING"
       /\ c.kind \notin Authentication => IsConnected
       /\ c.kind = "GETINFO" => ctl = "CONNECTED" /\ tor = "UNKNOWN"

\* What LayersAgree rests on: a reply is to a command sent in the state the
\* controller is still in, and the bootstrap phase is asked for once.
RepliesFit ==
  /\ Waits(pending)
  /\ ~IsConnected => Len(pending) <= 1 /\ tor = "UNKNOWN"
  /\ ctl = "CONNECTING" => pending = <<>>
  /\ ctl \in {"CONNECTING", "AUTHENTICATING"} => pm = "CONNECTING"

\* The inductive invariant.
IInv == TypeOK /\ LayersAgree /\ RepliesFit

(***************************************************************************)
(* Facts about commands and queues.                                        *)
(***************************************************************************)

\* The commands have the types and kinds their names say.
LEMMA CommandKinds ==
  /\ \A kind \in Greetings : Command(kind) \in Commands /\ Command(kind).kind = kind
  /\ \A i \in Identities : New(i) \in Commands /\ New(i).kind = "NEW"
  /\ \A i \in Identities, o \in Onions, p \in Ports :
       Add(i, o, p) \in Commands /\ Add(i, o, p).kind = "ADD"
  /\ \A i \in Identities, o \in Onions : Del(i, o) \in Commands /\ Del(i, o).kind = "DEL"
<1>1. \A kind \in Greetings : Command(kind) \in Commands /\ Command(kind).kind = kind
  BY DEF Commands, Command
<1>2. \A i \in Identities : New(i) \in Commands /\ New(i).kind = "NEW"
  BY DEF Commands, New
<1>3. \A i \in Identities, o \in Onions, p \in Ports :
        Add(i, o, p) \in Commands /\ Add(i, o, p).kind = "ADD"
  BY DEF Commands, Add
<1>4. \A i \in Identities, o \in Onions :
        Del(i, o) \in Commands /\ Del(i, o).kind = "DEL"
  BY DEF Commands, Del
<1> QED
  BY <1>1, <1>2, <1>3, <1>4

\* What a command is about.
LEMMA CommandFields ==
  ASSUME NEW c \in Commands
  PROVE  /\ c.kind \in Greetings \cup OfService
         /\ c.kind \in OfService => c.id \in Identities
         /\ c.kind = "NEW" => c = New(c.id)
         /\ c.kind \in {"ADD", "DEL"} => c.onion \in Onions
         /\ c.kind = "ADD" => c.port \in Ports
<1>1. CASE c \in [kind : Greetings]
  BY <1>1 DEF Greetings, OfService
<1>2. CASE c \in [kind : {"NEW"}, id : Identities]
  BY <1>2 DEF OfService, New
<1>3. CASE c \in [kind : {"ADD"}, id : Identities, onion : Onions, port : Ports]
  BY <1>3 DEF OfService
<1>4. CASE c \in [kind : {"DEL"}, id : Identities, onion : Onions]
  BY <1>4 DEF OfService
<1> QED
  BY <1>1, <1>2, <1>3, <1>4 DEF Commands

\* Events.
LEMMA EventKinds ==
  /\ Online \in Events
  /\ \A i \in Identities : HandleError(i) \in Events /\ HandleError(i) # Online
  /\ \A i, j \in Identities : HandleError(i) = HandleError(j) => i = j
  /\ \A e \in Events :
       /\ e.kind = "Online" => e = Online
       /\ e.kind = "HandleError" => e.id \in Identities /\ e = HandleError(e.id)
<1>1. Online \in Events
  BY DEF Events, Online
<1>2. \A i \in Identities : HandleError(i) \in Events /\ HandleError(i) # Online
  BY DEF Events, Online, HandleError
<1>3. \A i, j \in Identities : HandleError(i) = HandleError(j) => i = j
  BY DEF HandleError
<1>4. \A e \in Events :
        /\ e.kind = "Online" => e = Online
        /\ e.kind = "HandleError" => e.id \in Identities /\ e = HandleError(e.id)
  BY DEF Events, Online, HandleError
<1> QED
  BY <1>1, <1>2, <1>3, <1>4

\* The answered command leaves a queue that fits.
LEMMA WaitsTail ==
  ASSUME NEW s, Waits(s), s # <<>>
  PROVE  /\ Waits(Tail(s))
         /\ Head(s) \in ToSet(s) /\ Head(s) \in Commands
         /\ Len(Tail(s)) = Len(s) - 1
         /\ Head(s).kind = "GETINFO" => \A c \in ToSet(Tail(s)) : c.kind # "GETINFO"
<1>1. s \in Seq(Commands) /\ InPlace(s)
  BY DEF Waits
<1>2. /\ Head(s) \in Commands /\ Tail(s) \in Seq(Commands)
      /\ ToSet(s) = {Head(s)} \cup ToSet(Tail(s))
  BY <1>1, ToSetHeadTail
<1>3. PICK t \in Seq(Commands) : t = Tail(s)
  BY <1>2
<1>4. Len(t) = Len(s) - 1 /\ Len(s) \in Nat \ {0} /\ Head(s) = s[1]
  BY <1>1, <1>3
<1>5. \A k \in 1..Len(t) : k + 1 \in 1..Len(s) /\ t[k] = s[k + 1]
  BY <1>1, <1>3, <1>4
<1>6. \A k \in 1..Len(t) :
        t[k].kind = "GETINFO" => k = 1 /\ s[1].kind = "SETEVENTS"
  BY <1>1, <1>4, <1>5 DEF InPlace
<1>7. InPlace(t)
  BY <1>6 DEF InPlace
<1>8. Waits(t)
  BY <1>2, <1>3, <1>7 DEF Waits
<1>9. ASSUME Head(s).kind = "GETINFO", NEW c \in ToSet(t)
      PROVE  c.kind # "GETINFO"
  <2>1. PICK k \in 1..Len(t) : c = t[k]
    BY ZenonT(60), <1>3, <1>9, InToSet
  <2> QED
    BY <2>1, <1>4, <1>6, <1>9
<1> QED
  BY <1>2, <1>3, <1>4, <1>8, <1>9

\* Commands for services may follow when the connection is authenticated.
LEMMA WaitsConcat ==
  ASSUME NEW s, Waits(s), NEW t \in Seq(Commands), IsConnected,
         \A c \in ToSet(t) : c.kind \in OfService
  PROVE  Waits(s \o t)
<1>1. s \in Seq(Commands) /\ InPlace(s)
  BY DEF Waits
<1>2. PICK u \in Seq(Commands) : u = s \o t
  BY <1>1, ToSetConcat
<1>3. ToSet(u) = ToSet(s) \cup ToSet(t)
  BY <1>1, <1>2, ToSetConcat
<1>4. /\ Len(u) = Len(s) + Len(t)
      /\ Len(s) \in Nat /\ Len(t) \in Nat
      /\ \A k \in 1..Len(u) : u[k] = IF k <= Len(s) THEN s[k] ELSE t[k - Len(s)]
  BY <1>1, <1>2
<1>5. ASSUME NEW k \in 1..Len(u), u[k].kind = "GETINFO"
      PROVE  k = 1 \/ (k = 2 /\ u[1].kind = "SETEVENTS")
  <2>1. CASE k <= Len(s)
    <3>1. u[k] = s[k] /\ k \in 1..Len(s) /\ 1 \in 1..Len(u) /\ u[1] = s[1]
      BY <2>1, <1>4
    <3> QED
      BY <3>1, <1>1, <1>5 DEF InPlace
  <2>2. CASE ~(k <= Len(s))
    <3>1. k - Len(s) \in 1..Len(t) /\ u[k] = t[k - Len(s)]
      BY <2>2, <1>4
    <3>2. u[k] \in ToSet(t)
      BY <3>1 DEF ToSet
    <3> QED
      BY <3>2, <1>5 DEF OfService
  <2> QED
    BY <2>1, <2>2
<1>6. InPlace(u)
  BY <1>5 DEF InPlace
<1>7. Waits(u)
  BY <1>2, <1>3, <1>6 DEF Waits, OfService, Authentication
<1> QED
  BY <1>2, <1>7

\* One command for a service may follow.
LEMMA WaitsAppend ==
  ASSUME NEW s, Waits(s), NEW c \in Commands, IsConnected, c.kind \in OfService
  PROVE  Waits(Append(s, c))
<1>1. s \in Seq(Commands)
  BY DEF Waits
<1>2. <<c>> \in Seq(Commands) /\ \A d \in ToSet(<<c>>) : d.kind \in OfService
  BY DEF ToSet
<1>3. Append(s, c) = s \o <<c>>
  BY <1>1
<1> QED
  BY <1>2, <1>3, WaitsConcat

(***************************************************************************)
(* What the shared parts of the handlers do.                               *)
(***************************************************************************)

\* Services that are started: an ADD_ONION for each follows what was sent.
LEMMA StartEffect ==
  ASSUME TypeOK, IsConnected, NEW sent, Waits(sent),
         NEW order \in Seq(Identities),
         NEW addr \in [Identities -> Onions \cup {NoOnion}],
         \A i \in ToSet(order) : addr[i] \in Onions,
         Start(order, sent, addr)
  PROVE  /\ Waits(pending')
         /\ ToSet(sent) \subseteq ToSet(pending')
         /\ Len(sent) <= Len(pending')
         /\ listener' \in [Identities -> Ports \cup {NoPort}]
         /\ serviceMap' \in [Identities -> Onions \cup {NoOnion}]
<1>1. PICK port \in [ToSet(order) -> Ports] :
        /\ pending' = sent \o [k \in DOMAIN order |->
                                 Add(order[k], addr[order[k]], port[order[k]])]
        /\ listener' = [i \in Identities |->
                          IF i \in ToSet(order) THEN port[i] ELSE listener[i]]
        /\ serviceMap' = [i \in Identities |->
                            IF i \in ToSet(order) THEN addr[i] ELSE serviceMap[i]]
  BY DEF Start
<1>2. PICK adds : adds = [k \in DOMAIN order |->
                            Add(order[k], addr[order[k]], port[order[k]])]
  OBVIOUS
<1>3. DOMAIN order = 1..Len(order) /\ Len(order) \in Nat
  OBVIOUS
<1>4. \A k \in DOMAIN order : order[k] \in Identities /\ order[k] \in ToSet(order)
  BY <1>3 DEF ToSet
<1>5. \A k \in DOMAIN order : adds[k] \in Commands /\ adds[k].kind = "ADD"
  BY <1>2, <1>4, CommandKinds
<1>6. adds \in Seq(Commands)
  <2>1. adds \in [1..Len(order) -> Commands]
    BY <1>2, <1>3, <1>5
  <2> QED
    BY <1>3, <2>1
<1>7. \A c \in ToSet(adds) : c.kind \in OfService
  <2>1. DOMAIN adds = DOMAIN order
    BY <1>2
  <2> QED
    BY <1>5, <2>1 DEF ToSet, OfService
<1>8. pending' = sent \o adds
  BY <1>1, <1>2
<1>9. Waits(pending')
  BY <1>6, <1>7, <1>8, WaitsConcat
<1>10. sent \in Seq(Commands)
  BY DEF Waits
<1>11. ToSet(sent) \subseteq ToSet(pending') /\ Len(sent) <= Len(pending')
  <2>1. ToSet(sent \o adds) = ToSet(sent) \cup ToSet(adds)
    BY <1>6, <1>10, ToSetConcat
  <2>2. Len(sent \o adds) = Len(sent) + Len(adds) /\ Len(sent) \in Nat /\ Len(adds) \in Nat
    BY <1>6, <1>10
  <2> QED
    BY <1>8, <2>1, <2>2
<1>12. /\ listener \in [Identities -> Ports \cup {NoPort}]
       /\ serviceMap \in [Identities -> Onions \cup {NoOnion}]
  BY DEF TypeOK
<1>13. listener' \in [Identities -> Ports \cup {NoPort}]
  BY <1>1, <1>12
<1>14. serviceMap' \in [Identities -> Onions \cup {NoOnion}]
  BY <1>1, <1>12
<1> QED
  BY <1>9, <1>11, <1>13, <1>14

\* One command more.
LEMMA SentEffect ==
  ASSUME Waits(pending), IsConnected, NEW c \in Commands, c.kind \in OfService,
         pending' = Append(pending, c)
  PROVE  /\ Waits(pending')
         /\ ToSet(pending') = ToSet(pending) \cup {c}
         /\ Len(pending') = Len(pending) + 1
<1>1. pending \in Seq(Commands)
  BY DEF Waits
<1>2. Waits(Append(pending, c))
  BY WaitsAppend
<1>3. ToSet(Append(pending, c)) = ToSet(pending) \cup {c}
  BY <1>1, ToSetAppend
<1>4. Len(Append(pending, c)) = Len(pending) + 1
  BY <1>1
<1> QED
  BY <1>2, <1>3, <1>4

\* A service told to stop.
LEMMA StopEffect ==
  ASSUME TypeOK, Waits(pending), IsConnected, NEW i \in Identities, Stop(i)
  PROVE  /\ Waits(pending')
         /\ ToSet(pending) \subseteq ToSet(pending')
         /\ Len(pending) <= Len(pending')
         /\ online' \in [Identities -> BOOLEAN]
<1>0. /\ pending \in Seq(Commands) /\ online \in [Identities -> BOOLEAN]
      /\ serviceMap \in [Identities -> Onions \cup {NoOnion}]
  BY DEF TypeOK
<1>00. Len(pending) \in Nat
  BY <1>0
<1>1. CASE serviceMap[i] = NoOnion
  <2>1. online' = TakenOffline({i}) /\ pending' = pending
    BY <1>1 DEF Stop
  <2>2. TakenOffline({i}) \in [Identities -> BOOLEAN]
    BY <1>0 DEF TakenOffline
  <2>3. Waits(pending')
    BY <2>1 DEF Waits, InPlace
  <2>4. ToSet(pending) \subseteq ToSet(pending')
    BY <2>1
  <2>5. Len(pending) <= Len(pending')
    BY <2>1, <1>00
  <2>6. online' \in [Identities -> BOOLEAN]
    BY <2>1, <2>2
  <2> QED
    BY <2>3, <2>4, <2>5, <2>6
<1>2. CASE serviceMap[i] # NoOnion
  <2>1. pending' = Append(pending, Del(i, serviceMap[i])) /\ online' = online
    BY <1>2 DEF Stop
  <2>2. serviceMap[i] \in Onions
    BY <1>0, <1>2
  <2>3. Del(i, serviceMap[i]) \in Commands /\ Del(i, serviceMap[i]).kind = "DEL"
    BY <2>2, CommandKinds
  <2>4. /\ Waits(pending')
        /\ ToSet(pending') = ToSet(pending) \cup {Del(i, serviceMap[i])}
        /\ Len(pending') = Len(pending) + 1
    BY <2>1, <2>3, SentEffect DEF OfService
  <2> QED
    BY <2>1, <2>4, <1>0, <1>00
<1> QED
  BY <1>1, <1>2

\* A service asked for, now or later.
LEMMA MakeEffect ==
  ASSUME TypeOK, LayersAgree, Waits(pending), NEW i \in Identities, MakeTransport(i)
  PROVE  /\ Waits(pending')
         /\ IsConnected \/ pending' = pending
         /\ ToSet(pending) \subseteq ToSet(pending')
         /\ Len(pending) <= Len(pending')
         /\ whenOnline' \in Seq(Identities)
         /\ ToSet(whenOnline) \subseteq ToSet(whenOnline')
         /\ New(i) \in ToSet(pending') \/ i \in ToSet(whenOnline')
<1>0. pending \in Seq(Commands) /\ whenOnline \in Seq(Identities)
  BY DEF TypeOK
<1>00. Len(pending) \in Nat
  BY <1>0
<1>1. CASE IsOnline
  <2>1. pending' = Append(pending, New(i)) /\ whenOnline' = whenOnline
    BY <1>1 DEF MakeTransport
  <2>2. IsConnected
    BY <1>1 DEF IsOnline, LayersAgree
  <2>3. New(i) \in Commands /\ New(i).kind = "NEW"
    BY CommandKinds
  <2>4. /\ Waits(pending')
        /\ ToSet(pending') = ToSet(pending) \cup {New(i)}
        /\ Len(pending') = Len(pending) + 1
    BY <2>1, <2>2, <2>3, SentEffect DEF OfService
  <2> QED
    BY <2>1, <2>2, <2>4, <1>0, <1>00
<1>2. CASE ~IsOnline
  <2>1. pending' = pending /\ whenOnline' = Append(whenOnline, i)
    BY <1>2 DEF MakeTransport
  <2>2. ToSet(Append(whenOnline, i)) = ToSet(whenOnline) \cup {i}
    BY <1>0, ToSetAppend
  <2>3. Append(whenOnline, i) \in Seq(Identities)
    BY <1>0
  <2> QED
    BY <2>1, <2>2, <2>3, <1>00
<1> QED
  BY <1>1, <1>2

\* A step that leaves the layers alone and sends only what may be sent.
LEMMA LayersLeftAlone ==
  ASSUME IInv, UNCHANGED <<engine, pm, ctl, tor>>, Waits(pending'),
         IsConnected \/ (pending' = pending /\ running' = running)
  PROVE  LayersAgree' /\ RepliesFit'
<1>1. Waits(pending)'
  BY DEF Waits, IsConnected
<1>2. IsConnected' = IsConnected
  BY DEF IsConnected
<1>3. LayersAgree'
  BY <1>2 DEF IInv, LayersAgree, IsConnected
<1>4. RepliesFit'
  BY <1>1, <1>2 DEF IInv, RepliesFit, IsConnected
<1> QED
  BY <1>3, <1>4

\* No command, no event, no service.
LEMMA Nothing ==
  /\ <<>> \in Seq(Commands) /\ <<>> \in Seq(Identities) /\ <<>> \in Seq(Events)
  /\ 0 \in 0..Len(<<>>)
  /\ NotRunning \in [Onions -> 0..Elsewhere]
  /\ NoneOf(NoOnion) \in [Identities -> Onions \cup {NoOnion}]
  /\ NoneOf(NoPort) \in [Identities -> Ports \cup {NoPort}]
  /\ NoneOf(FALSE) \in [Identities -> BOOLEAN]
  /\ NoneOf("not yet") \in [Identities -> {"not yet", "yes", "removed"}]
  /\ [o \in Onions |-> Nobody] \in [Onions -> Identities \cup {Nobody}]
<1>1. /\ <<>> \in Seq(Commands) /\ <<>> \in Seq(Identities) /\ <<>> \in Seq(Events)
      /\ 0 \in 0..Len(<<>>)
  OBVIOUS
<1>2. NoPort \in 0..Elsewhere
  BY BoundsAssumption DEF NoPort, Elsewhere
<1>3. NotRunning \in [Onions -> 0..Elsewhere]
  BY <1>2 DEF NotRunning
<1>4. /\ NoneOf(NoOnion) \in [Identities -> Onions \cup {NoOnion}]
      /\ NoneOf(NoPort) \in [Identities -> Ports \cup {NoPort}]
      /\ NoneOf(FALSE) \in [Identities -> BOOLEAN]
      /\ NoneOf("not yet") \in [Identities -> {"not yet", "yes", "removed"}]
  BY DEF NoneOf
<1>5. [o \in Onions |-> Nobody] \in [Onions -> Identities \cup {Nobody}]
  OBVIOUS
<1> QED
  BY <1>1, <1>3, <1>4, <1>5

\* A queue without commands fits every state.
LEMMA WaitsEmpty ==
  ASSUME pending' = <<>>
  PROVE  Waits(pending)'
<1>1. pending' \in Seq(Commands) /\ Len(pending') = 0
  OBVIOUS
<1>2. InPlace(pending)'
  BY <1>1 DEF InPlace
<1>3. ToSet(pending)' = {}
  BY ToSetEmpty
<1> QED
  BY <1>1, <1>2, <1>3 DEF Waits

\* The end of the program leaves its first state, but for the rows.
LEMMA EndedKeeps ==
  ASSUME IInv, Ended
  PROVE  IInv'
<1>1. TypeOK'
  BY Nothing DEF IInv, TypeOK, Ended, boundVars
<1>2. LayersAgree'
  BY DEF LayersAgree, Ended, IsConnected
<1>3. Waits(pending)'
  BY WaitsEmpty DEF Ended
<1>4. RepliesFit'
  BY <1>3 DEF RepliesFit, Ended, IsConnected
<1> QED
  BY <1>1, <1>2, <1>4 DEF IInv

\* So does the end of the control connection, for the layers.
LEMMA ClearedKeeps ==
  ASSUME IInv, Cleared
  PROVE  IInv'
<1>1. TakenOffline(Announced) \in [Identities -> BOOLEAN]
  BY DEF TakenOffline, IInv, TypeOK
<1>2. TypeOK'
  BY <1>1, Nothing DEF IInv, TypeOK, Cleared, EngineAt, boundVars
<1>3. LayersAgree'
  BY DEF LayersAgree, Cleared, IsConnected, EngineAt
<1>4. Waits(pending)'
  BY WaitsEmpty DEF Cleared
<1>5. RepliesFit'
  BY <1>4 DEF RepliesFit, Cleared, IsConnected
<1> QED
  BY <1>2, <1>3, <1>5 DEF IInv

\* The reply that is handled next.
LEMMA Answered ==
  ASSUME IInv, NEW kind \in Greetings \cup OfService, Replying(kind)
  PROVE  /\ pending # <<>> /\ readable \in Nat /\ readable > 0
         /\ Head(pending) \in Commands /\ Head(pending).kind = kind
         /\ Left \in Seq(Commands) /\ Waits(Left)
         /\ ToSet(pending) = {Head(pending)} \cup ToSet(Left)
         /\ Len(Left) \in Nat /\ readable - 1 \in 0..Len(Left)
         /\ kind \in Authentication => ctl = "AUTHENTICATING" /\ Left = <<>>
         /\ kind \notin Authentication => IsConnected
         /\ kind = "GETINFO" => /\ ctl = "CONNECTED" /\ tor = "UNKNOWN"
                                /\ \A c \in ToSet(Left) : c.kind # "GETINFO"
<1>1. readable \in 0..Len(pending) /\ pending \in Seq(Commands) /\ readable > 0
  BY DEF IInv, TypeOK, Replying
<1>2. pending # <<>> /\ Len(pending) \in Nat
  BY <1>1
<1>3. Waits(pending)
  BY DEF IInv, RepliesFit
<1>4. /\ Waits(Left) /\ Head(pending) \in ToSet(pending) /\ Head(pending) \in Commands
      /\ Len(Left) = Len(pending) - 1
      /\ Head(pending).kind = "GETINFO" => \A c \in ToSet(Left) : c.kind # "GETINFO"
  BY <1>2, <1>3, WaitsTail DEF Left
<1>5. Head(pending).kind = kind
  BY DEF Replying
<1>6. Left \in Seq(Commands) /\ ToSet(pending) = {Head(pending)} \cup ToSet(Left)
  BY <1>1, <1>2, ToSetHeadTail DEF Left
<1>7. Len(Left) \in Nat /\ readable - 1 \in 0..Len(Left)
  BY <1>1, <1>2, <1>4, <1>6
<1>8. /\ kind \in Authentication => ctl = "AUTHENTICATING"
      /\ kind \notin Authentication => IsConnected
      /\ kind = "GETINFO" => ctl = "CONNECTED" /\ tor = "UNKNOWN"
  BY <1>3, <1>4, <1>5 DEF Waits
<1>9. ASSUME kind \in Authentication
      PROVE  Left = <<>>
  <2>1. Len(pending) <= 1
    BY <1>8, <1>9 DEF IInv, RepliesFit, IsConnected
  <2>2. Len(Left) = 0
    BY <2>1, <1>4, <1>7
  <2> QED
    BY <2>2, <1>6
<1> QED
  BY <1>1, <1>2, <1>4, <1>5, <1>6, <1>7, <1>8, <1>9

\* One command of the greeting is sent.
LEMMA OneGreeting ==
  ASSUME NEW kind \in Authentication, pending' = <<Command(kind)>>,
         ctl' = "AUTHENTICATING"
  PROVE  Waits(pending)' /\ Len(pending') = 1 /\ pending' \in Seq(Commands)
<1>1. Command(kind) \in Commands /\ Command(kind).kind = kind
  BY CommandKinds DEF Authentication, Greetings
<1>2. /\ pending' \in Seq(Commands) /\ Len(pending') = 1
      /\ pending'[1] = Command(kind)
  BY <1>1
<1>3. InPlace(pending)'
  BY <1>2 DEF InPlace
<1>4. \A c \in ToSet(pending)' : c = Command(kind)
  BY <1>2, InToSet DEF ToSet
<1>5. \A c \in ToSet(pending)' : c.kind \in Authentication /\ c.kind # "GETINFO"
  BY <1>1, <1>4 DEF Authentication
<1> QED
  BY <1>2, <1>3, <1>5 DEF Waits

(***************************************************************************)
(* Every action keeps the invariant.                                       *)
(***************************************************************************)

\* Nothing is connected, and nothing waits.
LEMMA InitInvariant == Init => IInv
<1> SUFFICES ASSUME Init PROVE IInv
  OBVIOUS
<1>1. /\ engine = "INITIALIZING" /\ pm = "NONE" /\ ctl = "DISCONNECTED"
      /\ tor = "UNKNOWN" /\ pending = <<>> /\ running = NotRunning
  BY DEF Init
<1>2. TypeOK
  BY Nothing DEF Init, TypeOK, NoneOf
<1>3. LayersAgree
  BY <1>1 DEF LayersAgree, IsConnected
<1>4. Waits(pending)
  <2>1. Len(pending) = 0 /\ pending \in Seq(Commands)
    BY <1>1, Nothing
  <2>2. InPlace(pending)
    BY <2>1 DEF InPlace
  <2>3. ToSet(pending) = {}
    BY <1>1, ToSetEmpty
  <2> QED
    BY <2>1, <2>2, <2>3 DEF Waits
<1>5. RepliesFit
  BY <1>1, <1>4 DEF RepliesFit, IsConnected
<1> QED
  BY <1>2, <1>3, <1>5 DEF IInv

\* A start begins with an empty queue.
LEMMA GoOnlineKeeps ==
  ASSUME IInv, GoOnline
  PROVE  IInv'
<1>1. /\ engine' = "STARTING" /\ pm' = "CONNECTING" /\ ctl' = "CONNECTING"
      /\ tor' = "UNKNOWN" /\ pending' = <<>> /\ readable = 0
      /\ serviceMap' = NoneOf(NoOnion) /\ listener' = NoneOf(NoPort)
      /\ starts' = starts + 1 /\ slots' = slots + 1
      /\ UNCHANGED <<readable, whenOnline, posted, exists, autoConnect, address,
                     online, boot, running, owner, refusals, alive>>
  BY DEF GoOnline, identityVars, torVars
<1>2. starts' \in Nat /\ slots' \in Nat
  <2>1. starts \in Nat /\ slots \in Nat
    BY DEF IInv, TypeOK
  <2> QED
    BY <1>1, <2>1
<1>3. pending' \in Seq(Commands) /\ readable' \in 0..Len(pending')
  BY <1>1, Nothing
<1>4. TypeOK /\ UNCHANGED <<readable, whenOnline, posted, exists, autoConnect, address,
                     online, boot, running, owner, refusals, alive>>
  BY <1>1 DEF IInv
<1>5. /\ serviceMap' \in [Identities -> Onions \cup {NoOnion}]
      /\ listener' \in [Identities -> Ports \cup {NoPort}]
  BY <1>1, Nothing
<1>6. /\ engine' = "STARTING" /\ pm' = "CONNECTING" /\ ctl' = "CONNECTING"
      /\ tor' = "UNKNOWN"
  BY <1>1
<1>7. TypeOK'
  BY <1>2, <1>3, <1>4, <1>5, <1>6 DEF TypeOK
<1>8. LayersAgree'
  BY <1>1 DEF LayersAgree, IsConnected
<1>9. Waits(pending)'
  BY <1>1, WaitsEmpty
<1>10. RepliesFit'
  BY <1>1, <1>9 DEF RepliesFit, IsConnected
<1> QED
  BY <1>7, <1>8, <1>10 DEF IInv

\* The greeting is one command.
LEMMA StartAuthKeeps ==
  ASSUME IInv, StartAuth
  PROVE  IInv'
<1>1. /\ ctl = "CONNECTING" /\ ctl' = "AUTHENTICATING" /\ readable = 0
      /\ pending' = <<Command("PROTOCOLINFO")>>
      /\ boot' \in BOOLEAN
      /\ UNCHANGED <<engine, pm, slots, whenOnline, posted, tor, readable, serviceMap,
                     listener, exists, autoConnect, address, online, running, owner,
                     starts, refusals, alive>>
  BY BootstrappedAssumption DEF StartAuth, engineVars, identityVars, boundVars
<1>2. Waits(pending)' /\ Len(pending') = 1 /\ pending' \in Seq(Commands)
  <2>1. "PROTOCOLINFO" \in Authentication
    BY DEF Authentication
  <2> QED
    BY <1>1, <2>1, OneGreeting
<1>3. readable' \in 0..Len(pending')
  BY <1>1, <1>2
<1>4. TypeOK'
  BY <1>1, <1>2, <1>3 DEF IInv, TypeOK
<1>5. pm = "CONNECTING" /\ tor = "UNKNOWN"
  BY <1>1 DEF IInv, RepliesFit, IsConnected
<1>6. LayersAgree'
  BY <1>1, <1>5 DEF IInv, LayersAgree, IsConnected
<1>7. RepliesFit'
  BY <1>1, <1>2, <1>5 DEF RepliesFit, IsConnected
<1> QED
  BY <1>4, <1>6, <1>7 DEF IInv

\* close() leaves the layers disconnected, or ends the program.
LEMMA GoOfflineKeeps ==
  ASSUME IInv, GoOffline
  PROVE  IInv'
<1>1. CASE Ended
  BY <1>1, EndedKeeps
<1>2. CASE ~Ended
  <2>1. /\ engine' \in {"CLOSING", "TERMINATED"} /\ pm' = "NONE"
        /\ ctl' = "DISCONNECTED" /\ tor' = "UNKNOWN"
        /\ online' = TakenOffline(Closed)
        /\ pending' = <<>>
        /\ serviceMap' = NoneOf(NoOnion) /\ listener' = NoneOf(NoPort)
        /\ running' = NotRunning
        /\ readable = 0
        /\ UNCHANGED <<slots, whenOnline, posted, readable, exists,
                       autoConnect, address, boot, owner, starts, refusals, alive>>
    BY <1>2 DEF GoOffline, boundVars
  <2>2. TakenOffline(Closed) \in [Identities -> BOOLEAN]
    BY DEF TakenOffline, IInv, TypeOK
  <2>3. TypeOK'
    BY <2>1, <2>2, Nothing DEF IInv, TypeOK
  <2>4. LayersAgree'
    BY <2>1 DEF LayersAgree, IsConnected
  <2>5. Waits(pending)'
    BY <2>1, WaitsEmpty
  <2>6. RepliesFit'
    BY <2>1, <2>5 DEF RepliesFit, IsConnected
  <2> QED
    BY <2>3, <2>4, <2>6 DEF IInv
<1> QED
  BY <1>1, <1>2

\* What the environment does to the layers is nothing.
LEMMA QuietKeeps ==
  ASSUME IInv, Bootstrap \/ Restart \/ Poll
  PROVE  IInv'
<1>0. Waits(pending)
  BY DEF IInv, RepliesFit
<1>1. UNCHANGED <<engine, pm, slots, whenOnline, posted, ctl, tor, pending, serviceMap,
                  listener, exists, autoConnect, address, online, running, owner,
                  starts, refusals>>
  BY DEF Bootstrap, Restart, Poll, engineVars, ctlVars, identityVars, torVars, boundVars
<1>2. boot' \in {boot, TRUE} /\ alive' \in {alive, TRUE}
  BY DEF Bootstrap, Restart, Poll, torVars
<1>3. Waits(pending')
  BY <1>0, <1>1 DEF Waits, InPlace
<1>4. LayersAgree' /\ RepliesFit'
  BY <1>1, <1>3, LayersLeftAlone
<1>5. readable' \in 0..Len(pending')
  <2>1. readable \in 0..Len(pending)
    BY DEF IInv, TypeOK
  <2>2. readable' = readable \/ readable' \in 1..Len(pending)
    BY DEF Bootstrap, Restart, Poll, ctlVars
  <2> QED
    BY <1>1, <2>1, <2>2
<1>6. boot' \in BOOLEAN /\ alive' \in BOOLEAN
  BY <1>2 DEF IInv, TypeOK
<1>7. TypeOK'
  BY <1>1, <1>5, <1>6 DEF IInv, TypeOK
<1> QED
  BY <1>4, <1>7 DEF IInv

\* Authentication goes on with one command.
LEMMA GreetingKeeps ==
  ASSUME IInv, ReplyProtocolInfo \/ ReplyAuthChallenge
  PROVE  IInv'
<1>1. PICK kind \in Authentication, next \in Authentication :
        Replying(kind) /\ Proceeds(<<Command(next)>>)
  BY DEF ReplyProtocolInfo, ReplyAuthChallenge, Authentication
<1>2. kind \in Greetings \cup OfService
  BY DEF Authentication, Greetings
<1>3. ctl = "AUTHENTICATING" /\ Left = <<>> /\ readable - 1 \in 0..Len(Left)
  BY <1>1, <1>2, Answered
<1>4. /\ readable' = readable - 1
      /\ pending' = Left \o <<Command(next)>>
      /\ UNCHANGED <<engine, pm, slots, whenOnline, posted, ctl, tor, serviceMap,
                     listener, exists, autoConnect, address, online, boot, running,
                     owner, starts, refusals, alive>>
  BY <1>1 DEF Proceeds, engineVars, identityVars, torVars, boundVars
<1>5. pending' = <<Command(next)>>
  BY <1>3, <1>4
<1>6. Waits(pending)' /\ Len(pending') = 1 /\ pending' \in Seq(Commands)
  BY <1>3, <1>4, <1>5, OneGreeting
<1>7. readable' \in 0..Len(pending')
  BY <1>3, <1>4, <1>6
<1>8. TypeOK'
  BY ZenonT(60), <1>4, <1>6, <1>7 DEF IInv, TypeOK
<1>9. LayersAgree'
  BY <1>3, <1>4 DEF IInv, LayersAgree, IsConnected, RepliesFit
<1>10. RepliesFit'
  BY <1>3, <1>4, <1>6 DEF IInv, RepliesFit, IsConnected
<1> QED
  BY <1>8, <1>9, <1>10 DEF IInv

\* All three upper layers learn of the connection in one step.
LEMMA ReplyAuthenticateKeeps ==
  ASSUME IInv, ReplyAuthenticate
  PROVE  IInv'
<1>1. Replying("AUTHENTICATE") /\ "AUTHENTICATE" \in Greetings \cup OfService
  BY DEF ReplyAuthenticate, Greetings
<1>2. /\ ctl = "AUTHENTICATING" /\ Left = <<>>
      /\ readable \in Nat /\ readable > 0 /\ readable - 1 \in 0..Len(Left)
  BY <1>1, Answered DEF Authentication
<1>3. /\ readable' = readable - 1
      /\ pending' = Left \o <<Command("SETEVENTS"), Command("GETINFO")>>
      /\ ctl' = "CONNECTED" /\ pm' = "CONNECTED" /\ engine' = EngineAt("CONNECTED")
      /\ posted' = posted \o Ready
      /\ UNCHANGED <<slots, whenOnline, tor, serviceMap, listener, exists, autoConnect,
                     address, online, boot, running, owner, starts, refusals, alive>>
  BY DEF ReplyAuthenticate, identityVars, torVars, boundVars
<1>4. /\ Command("SETEVENTS") \in Commands /\ Command("SETEVENTS").kind = "SETEVENTS"
      /\ Command("GETINFO") \in Commands /\ Command("GETINFO").kind = "GETINFO"
  BY CommandKinds DEF Greetings
<1>5. pending' = <<Command("SETEVENTS"), Command("GETINFO")>>
  BY <1>2, <1>3, <1>4
<1>6. /\ pending' \in Seq(Commands) /\ Len(pending') = 2
      /\ pending'[1] = Command("SETEVENTS") /\ pending'[2] = Command("GETINFO")
  BY <1>4, <1>5
<1>7. tor = "UNKNOWN"
  BY <1>2 DEF IInv, RepliesFit, IsConnected
<1>8. Waits(pending)'
  <2>1. InPlace(pending)'
    BY <1>4, <1>6 DEF InPlace
  <2>2. \A c \in ToSet(pending)' : c \in {Command("SETEVENTS"), Command("GETINFO")}
    <3>1. \A k \in 1..Len(pending') : k = 1 \/ k = 2
      BY <1>6
    <3> QED
      BY <1>6, <3>1, InToSet
  <2>3. \A c \in ToSet(pending)' : c.kind \in {"SETEVENTS", "GETINFO"}
    BY <1>4, <2>2
  <2>4. ctl' = "CONNECTED" /\ tor' = "UNKNOWN"
    BY <1>3, <1>7
  <2> QED
    BY <1>6, <2>1, <2>3, <2>4 DEF Waits, Authentication, IsConnected
<1>9. readable' \in 0..Len(pending')
  <2>1. Len(Left) = 0
    BY <1>2
  <2> QED
    BY <1>2, <1>3, <1>6, <2>1
<1>10. posted' \in Seq(Events)
  <2>1. slots \in Nat /\ posted \in Seq(Events)
    BY DEF IInv, TypeOK
  <2>2. Ready \in [1..slots -> Events]
    BY EventKinds DEF Ready
  <2>3. Ready \in Seq(Events)
    BY <2>1, <2>2
  <2> QED
    BY <1>3, <2>1, <2>3, ToSetConcat
<1>11. TypeOK'
  BY <1>3, <1>6, <1>9, <1>10 DEF IInv, TypeOK, EngineAt
<1>12. LayersAgree'
  BY <1>3, <1>7 DEF LayersAgree, IsConnected, EngineAt
<1>13. RepliesFit'
  BY <1>3, <1>8 DEF RepliesFit, IsConnected
<1> QED
  BY <1>11, <1>12, <1>13 DEF IInv

\* An aborted connection takes its commands along.
LEMMA ReplyClosesKeeps ==
  ASSUME IInv, ReplyCloses
  PROVE  IInv'
BY ClearedKeeps, EndedKeeps DEF ReplyCloses

\* The reply to SETEVENTS changes only the queue.
LEMMA ReplySetEventsKeeps ==
  ASSUME IInv, ReplySetEvents
  PROVE  IInv'
<1>1. Replying("SETEVENTS") /\ "SETEVENTS" \in Greetings \cup OfService
  BY DEF ReplySetEvents, Greetings
<1>2. /\ Left \in Seq(Commands) /\ Waits(Left) /\ readable - 1 \in 0..Len(Left)
      /\ IsConnected
  BY <1>1, Answered DEF Authentication
<1>3. /\ readable' = readable - 1
      /\ pending' = Left \o <<>>
      /\ UNCHANGED <<engine, pm, slots, whenOnline, posted, ctl, tor, serviceMap,
                     listener, exists, autoConnect, address, online, boot, running,
                     owner, starts, refusals, alive>>
  BY DEF ReplySetEvents, Proceeds, engineVars, identityVars, torVars, boundVars
<1>4. pending' = Left
  BY <1>2, <1>3
<1>5. Waits(pending') /\ pending' \in Seq(Commands) /\ readable' \in 0..Len(pending')
  BY <1>2, <1>3, <1>4 DEF Waits, InPlace
<1>6. LayersAgree' /\ RepliesFit'
  BY <1>2, <1>3, <1>5, LayersLeftAlone
<1>7. TypeOK'
  BY ZenonT(60), <1>3, <1>5 DEF IInv, TypeOK
<1> QED
  BY <1>6, <1>7 DEF IInv

\* All three lower layers learn in one step that Tor is ready.
LEMMA ReplyGetInfoKeeps ==
  ASSUME IInv, ReplyGetInfo
  PROVE  IInv'
<1>1. Replying("GETINFO") /\ "GETINFO" \in Greetings \cup OfService
  BY DEF ReplyGetInfo, Greetings
<1>2. /\ Left \in Seq(Commands) /\ Waits(Left) /\ readable - 1 \in 0..Len(Left)
      /\ ctl = "CONNECTED" /\ tor = "UNKNOWN"
      /\ \A c \in ToSet(Left) : c.kind # "GETINFO"
  BY <1>1, Answered
<1>3. /\ readable' = readable - 1
      /\ pending' = Left
      /\ \/ tor' = "READY" /\ ctl' = "ONLINE" /\ pm' = "ONLINE"
         \/ tor' = "INITIALIZING" /\ ctl' = ctl /\ pm' = pm
      /\ UNCHANGED <<engine, slots, whenOnline, posted, serviceMap, listener,
                     exists, autoConnect, address, online, boot, running,
                     owner, starts, refusals, alive>>
  BY DEF ReplyGetInfo, identityVars, torVars, boundVars
<1>4. engine = "RUNNING" /\ pm = "CONNECTED"
  BY <1>2 DEF IInv, LayersAgree, IsConnected
<1>5. ctl' \in {"CONNECTED", "ONLINE"} /\ pm' \in {"CONNECTED", "ONLINE"}
  BY <1>2, <1>3, <1>4
<1>6. TypeOK'
  BY <1>2, <1>3, <1>5 DEF IInv, TypeOK
<1>7. LayersAgree'
  BY <1>2, <1>3, <1>4, <1>5 DEF LayersAgree, IsConnected
<1>8. Waits(pending)'
  BY <1>2, <1>3, <1>5 DEF Waits, InPlace, IsConnected
<1>9. RepliesFit'
  BY <1>5, <1>8 DEF RepliesFit, IsConnected
<1> QED
  BY <1>6, <1>7, <1>9 DEF IInv

\* A service that was made is stopped, and perhaps started.
LEMMA ReplyNewKeeps ==
  ASSUME IInv, ReplyNew
  PROVE  IInv'
<1>1. Replying("NEW") /\ "NEW" \in OfService
  BY DEF ReplyNew, OfService
<1>2. /\ Head(pending) \in Commands /\ Head(pending).kind = "NEW"
      /\ Left \in Seq(Commands) /\ Waits(Left) /\ IsConnected
      /\ Len(Left) \in Nat /\ readable - 1 \in 0..Len(Left)
  BY <1>1, Answered DEF Authentication, OfService
<1>3. PICK i \in Identities : i = Head(pending).id
  BY <1>1, <1>2, CommandFields
<1>4. PICK o \in Onions :
        /\ owner' = [owner EXCEPT ![o] = i]
        /\ running' = [running EXCEPT ![o] = Elsewhere]
        /\ address' = IF exists[i] = "yes" THEN [address EXCEPT ![i] = o] ELSE address
        /\ \/ Start(<<i>>, Append(Left, Del(i, o)), [address EXCEPT ![i] = o])
           \/ /\ pending' = Append(Left, Del(i, o))
              /\ serviceMap' = [serviceMap EXCEPT ![i] = o]
              /\ listener' = listener
  BY <1>3 DEF ReplyNew
<1>5. /\ readable' = readable - 1
      /\ UNCHANGED <<engine, pm, slots, whenOnline, posted, ctl, tor, exists,
                     autoConnect, online, boot, starts, refusals, alive>>
  BY DEF ReplyNew, engineVars, boundVars
<1>6. Del(i, o) \in Commands /\ Del(i, o).kind \in OfService
  BY CommandKinds DEF OfService
<1>7. Waits(Append(Left, Del(i, o))) /\ Len(Append(Left, Del(i, o))) = Len(Left) + 1
  BY <1>2, <1>6, WaitsAppend
<1>8. [address EXCEPT ![i] = o] \in [Identities -> Onions \cup {NoOnion}]
  BY DEF IInv, TypeOK
<1>9. /\ Waits(pending') /\ Len(Left) <= Len(pending')
      /\ listener' \in [Identities -> Ports \cup {NoPort}]
      /\ serviceMap' \in [Identities -> Onions \cup {NoOnion}]
  <2>1. CASE Start(<<i>>, Append(Left, Del(i, o)), [address EXCEPT ![i] = o])
    <3>1. PICK sent : sent = Append(Left, Del(i, o))
      OBVIOUS
    <3>2. PICK addr \in [Identities -> Onions \cup {NoOnion}] :
            addr = [address EXCEPT ![i] = o]
      BY <1>8
    <3>3. PICK order \in Seq(Identities) : order = <<i>>
      <4>1. <<i>> \in Seq(Identities)
        OBVIOUS
      <4> QED
        BY <4>1
    <3>4. \A j \in ToSet(order) : addr[j] \in Onions
      <4>1. \A j \in ToSet(order) : j = i
        BY <3>3 DEF ToSet
      <4> QED
        BY <3>2, <4>1 DEF IInv, TypeOK
    <3>5. Waits(sent) /\ Len(sent) = Len(Left) + 1
      BY <1>7, <3>1
    <3>6. Start(order, sent, addr)
      BY <2>1, <3>1, <3>2, <3>3
    <3>7. /\ Waits(pending') /\ Len(sent) <= Len(pending')
          /\ listener' \in [Identities -> Ports \cup {NoPort}]
          /\ serviceMap' \in [Identities -> Onions \cup {NoOnion}]
      BY <1>2, <3>4, <3>5, <3>6, StartEffect DEF IInv
    <3>8. pending' \in Seq(Commands)
      BY <3>7 DEF Waits
    <3> QED
      BY <1>2, <3>5, <3>7, <3>8
  <2>2. CASE /\ pending' = Append(Left, Del(i, o))
             /\ serviceMap' = [serviceMap EXCEPT ![i] = o]
             /\ listener' = listener
    <3>1. Waits(pending') /\ Len(pending') = Len(Left) + 1
      BY <1>7, <2>2
    <3>2. Len(Left) <= Len(pending')
      BY <1>2, <3>1
    <3>3. listener' \in [Identities -> Ports \cup {NoPort}]
      BY <2>2 DEF IInv, TypeOK
    <3>4. serviceMap' \in [Identities -> Onions \cup {NoOnion}]
      BY <2>2 DEF IInv, TypeOK
    <3> QED
      BY <3>1, <3>2, <3>3, <3>4
  <2> QED
    BY <1>4, <2>1, <2>2
<1>10. pending' \in Seq(Commands)
  BY <1>9 DEF Waits
<1>11. readable' \in 0..Len(pending')
  <2>1. Len(pending') \in Nat
    BY <1>10
  <2> QED
    BY <1>2, <1>5, <1>9, <2>1
<1>12. /\ owner' \in [Onions -> Identities \cup {Nobody}]
       /\ address' \in [Identities -> Onions \cup {NoOnion}]
  BY <1>4, <1>8 DEF IInv, TypeOK
<1>13. running' \in [Onions -> 0..Elsewhere]
  <2>1. Elsewhere \in 0..Elsewhere
    BY BoundsAssumption DEF Elsewhere
  <2> QED
    BY <1>4, <2>1 DEF IInv, TypeOK
<1>14. TypeOK'
  BY ZenonT(60), <1>5, <1>9, <1>10, <1>11, <1>12, <1>13 DEF IInv, TypeOK
<1>15. LayersAgree' /\ RepliesFit'
  BY <1>2, <1>5, <1>9, LayersLeftAlone
<1> QED
  BY <1>14, <1>15 DEF IInv

\* A failed command leaves an error to handle.
LEMMA FailsKeeps ==
  ASSUME IInv, NewFails \/ AddFails \/ DelFails
  PROVE  IInv'
<1>1. PICK kind \in OfService : Replying(kind)
  BY DEF NewFails, AddFails, DelFails, OfService
<1>2. /\ Head(pending) \in Commands /\ Head(pending).kind = kind
      /\ Left \in Seq(Commands) /\ Waits(Left) /\ IsConnected
      /\ readable - 1 \in 0..Len(Left)
  BY <1>1, Answered DEF Authentication, OfService
<1>3. Head(pending).id \in Identities
  BY <1>1, <1>2, CommandFields
<1>4. Fails
  BY DEF NewFails, AddFails, DelFails
<1>5. /\ readable' = readable - 1 /\ pending' = Left /\ posted' = Reported
      /\ UNCHANGED <<engine, pm, slots, whenOnline, ctl, tor, serviceMap, listener,
                     exists, autoConnect, address, online, boot, running, owner, alive>>
  BY <1>4 DEF Fails, identityVars, torVars
<1>6. starts' = starts /\ (refusals' = refusals \/ refusals' = refusals + 1)
  BY DEF NewFails, AddFails, DelFails, Refused, boundVars
<1>7. starts' \in Nat /\ refusals' \in Nat
  <2>1. starts \in Nat /\ refusals \in Nat
    BY DEF IInv, TypeOK
  <2> QED
    BY <1>6, <2>1
<1>8. posted' \in Seq(Events)
  <2>1. HandleError(Head(pending).id) \in Events
    BY <1>3, EventKinds
  <2>2. posted \in Seq(Events)
    BY DEF IInv, TypeOK
  <2> QED
    BY <1>5, <2>1, <2>2 DEF Reported
<1>9. Waits(pending') /\ pending' \in Seq(Commands) /\ readable' \in 0..Len(pending')
  BY <1>2, <1>5 DEF Waits, InPlace
<1>10. TypeOK'
  BY ZenonT(60), <1>5, <1>7, <1>8, <1>9 DEF IInv, TypeOK
<1>11. LayersAgree' /\ RepliesFit'
  BY <1>2, <1>5, <1>9, LayersLeftAlone
<1> QED
  BY <1>10, <1>11 DEF IInv

\* A service that Tor started or ended.
LEMMA ReplyAddDelKeeps ==
  ASSUME IInv, ReplyAdd \/ ReplyDel
  PROVE  IInv'
<1>1. PICK kind \in {"ADD", "DEL"} :
        Replying(kind) /\ (kind = "ADD" => ReplyAdd) /\ (kind = "DEL" => ReplyDel)
  BY DEF ReplyAdd, ReplyDel
<1>2. kind \in OfService /\ kind \notin Authentication
  BY DEF OfService, Authentication
<1>3. /\ Head(pending) \in Commands /\ Head(pending).kind = kind
      /\ Left \in Seq(Commands) /\ Waits(Left) /\ IsConnected
      /\ readable - 1 \in 0..Len(Left)
  BY <1>1, <1>2, Answered
<1>4. /\ Head(pending).id \in Identities
      /\ Head(pending).onion \in Onions
      /\ kind = "ADD" => Head(pending).port \in Ports
  BY <1>1, <1>2, <1>3, CommandFields
<1>5. /\ readable' = readable - 1 /\ pending' = Left
      /\ UNCHANGED <<engine, pm, slots, whenOnline, posted, ctl, tor, serviceMap,
                     listener, exists, autoConnect, address, boot, owner, starts,
                     refusals, alive>>
  BY DEF ReplyAdd, ReplyDel, engineVars, boundVars
<1>6. /\ running' \in [Onions -> 0..Elsewhere]
      /\ online' \in [Identities -> BOOLEAN]
  <2>0. /\ running \in [Onions -> 0..Elsewhere]
        /\ online \in [Identities -> BOOLEAN]
    BY DEF IInv, TypeOK
  <2>1. CASE kind = "ADD"
    <3>1. /\ running' = [running EXCEPT ![Head(pending).onion] = Head(pending).port]
          /\ online' = [online EXCEPT ![Head(pending).id] =
                                        exists[Head(pending).id] = "yes"]
      BY <1>1, <2>1 DEF ReplyAdd
    <3>2. Head(pending).port \in 0..Elsewhere
      BY <1>4, <2>1, BoundsAssumption DEF Ports, Elsewhere
    <3>3. (exists[Head(pending).id] = "yes") \in BOOLEAN
      OBVIOUS
    <3> QED
      BY <2>0, <3>1, <3>2, <3>3
  <2>2. CASE kind = "DEL"
    <3>1. /\ running' = [running EXCEPT ![Head(pending).onion] = NoPort]
          /\ online' = TakenOffline({Head(pending).id})
      BY <1>1, <2>2 DEF ReplyDel
    <3>2. NoPort \in 0..Elsewhere
      BY BoundsAssumption DEF NoPort, Elsewhere
    <3> QED
      BY <2>0, <3>1, <3>2 DEF TakenOffline
  <2> QED
    BY <2>1, <2>2
<1>7. Waits(pending') /\ pending' \in Seq(Commands) /\ readable' \in 0..Len(pending')
  BY <1>3, <1>5 DEF Waits, InPlace
<1>8. TypeOK'
  BY ZenonT(60), <1>5, <1>6, <1>7 DEF IInv, TypeOK
<1>9. LayersAgree' /\ RepliesFit'
  BY <1>3, <1>5, <1>7, LayersLeftAlone
<1> QED
  BY <1>8, <1>9 DEF IInv

(***************************************************************************)
(* What the event loop and the user do.                                    *)
(***************************************************************************)

\* Handling a queued signal takes it from the queue.
LEMMA Handled ==
  ASSUME IInv, NEW kind, Handling(kind)
  PROVE  /\ readable = 0 /\ posted # <<>> /\ posted \in Seq(Events)
         /\ posted' = Tail(posted) /\ posted' \in Seq(Events)
         /\ Head(posted) \in Events /\ Head(posted).kind = kind
         /\ ToSet(posted) = {Head(posted)} \cup ToSet(posted')
<1>1. /\ readable = 0 /\ posted # <<>> /\ posted' = Tail(posted)
      /\ Head(posted).kind = kind
  BY DEF Handling
<1>2. posted \in Seq(Events)
  BY DEF IInv, TypeOK
<1> QED
  BY <1>1, <1>2, ToSetHeadTail

\* A listing of the identities to start names each of them, and no other.
LEMMA OrderOfStartable ==
  ASSUME NEW order \in SetToSeqs(Startable)
  PROVE  order \in Seq(Identities) /\ ToSet(order) \subseteq Startable
<1>1. Startable \subseteq Identities
  BY DEF Startable
<1>2. Cardinality(Startable) \in Nat
  BY <1>1, IdentitiesAssumption, FS_Subset, FS_CardinalityType
<1>3. order \in [1..Cardinality(Startable) -> Startable]
  BY DEF SetToSeqs
<1>4. order \in Seq(Startable)
  BY <1>2, <1>3
<1>5. order \in Seq(Identities)
  BY <1>1, <1>2, <1>3
<1> QED
  BY <1>4, <1>5, InToSet

\* online() sends only while it may.
LEMMA OnOnlineKeeps ==
  ASSUME IInv, OnOnline
  PROVE  IInv'
<1>1. Handling("Online")
  BY DEF OnOnline
<1>2. readable = 0 /\ posted' \in Seq(Events)
  BY <1>1, Handled
<1>3. /\ UNCHANGED <<engine, pm, slots, ctl, tor, readable, exists, autoConnect,
                     address, online, boot, running, owner, starts, refusals, alive>>
  BY DEF OnOnline, ctlVars, identityVars, torVars, boundVars
<1>4. Waits(pending) /\ pending \in Seq(Commands) /\ TypeOK
  BY DEF IInv, RepliesFit, TypeOK
<1>5. CASE IsConnected
  <2>1. PICK order \in SetToSeqs(Startable) :
          /\ Start(order,
                   pending \o [k \in DOMAIN whenOnline |-> New(whenOnline[k])],
                   address)
          /\ whenOnline' = <<>>
    BY <1>5 DEF OnOnline
  <2>2. PICK news : news = [k \in DOMAIN whenOnline |-> New(whenOnline[k])]
    OBVIOUS
  <2>3. news \in Seq(Commands) /\ \A c \in ToSet(news) : c.kind \in OfService
    <3>1. whenOnline \in Seq(Identities)
      BY <1>4 DEF TypeOK
    <3>2. DOMAIN whenOnline = 1..Len(whenOnline) /\ Len(whenOnline) \in Nat
      BY <3>1
    <3>3. \A k \in DOMAIN whenOnline :
            news[k] \in Commands /\ news[k].kind = "NEW"
      BY <2>2, <3>1, <3>2, CommandKinds
    <3>4. news \in [1..Len(whenOnline) -> Commands]
      BY <2>2, <3>2, <3>3
    <3>5. news \in Seq(Commands)
      BY <3>2, <3>4
    <3>6. DOMAIN news = DOMAIN whenOnline
      BY <2>2
    <3> QED
      BY <3>3, <3>5, <3>6 DEF ToSet, OfService
  <2>4. PICK sent : sent = pending \o news
    OBVIOUS
  <2>5. Waits(sent)
    BY <1>4, <1>5, <2>3, <2>4, WaitsConcat
  <2>6. order \in Seq(Identities) /\ \A i \in ToSet(order) : address[i] \in Onions
    BY <1>4, OrderOfStartable DEF Startable, TypeOK
  <2>7. Start(order, sent, address)
    BY <2>1, <2>2, <2>4
  <2>8. address \in [Identities -> Onions \cup {NoOnion}]
    BY <1>4 DEF TypeOK
  <2>9. /\ Waits(pending')
        /\ listener' \in [Identities -> Ports \cup {NoPort}]
        /\ serviceMap' \in [Identities -> Onions \cup {NoOnion}]
    BY <1>4, <1>5, <2>5, <2>6, <2>7, <2>8, StartEffect
  <2>10. pending' \in Seq(Commands)
    BY <2>9 DEF Waits
  <2>11. readable' \in 0..Len(pending')
    BY <1>2, <1>3, <2>10
  <2>12. whenOnline' \in Seq(Identities)
    BY <2>1, Nothing
  <2>13. TypeOK'
    BY ZenonT(60), <1>2, <1>3, <1>4, <2>9, <2>10, <2>11, <2>12 DEF TypeOK
  <2>14. LayersAgree' /\ RepliesFit'
    BY <1>3, <1>5, <2>9, LayersLeftAlone
  <2> QED
    BY <2>13, <2>14 DEF IInv
<1>6. CASE ~IsConnected
  <2>1. UNCHANGED <<whenOnline, pending, serviceMap, listener>>
    BY <1>6 DEF OnOnline, ctlVars
  <2>2. Waits(pending')
    BY <1>4, <2>1 DEF Waits, InPlace
  <2>3. TypeOK'
    BY ZenonT(60), <1>2, <1>3, <1>4, <2>1 DEF TypeOK
  <2>4. LayersAgree' /\ RepliesFit'
    BY <1>3, <2>1, <2>2, LayersLeftAlone
  <2> QED
    BY <2>3, <2>4 DEF IInv
<1> QED
  BY <1>5, <1>6

\* So does the handler of an error that ends a service,
LEMMA OnErrorStopsKeeps ==
  ASSUME IInv, OnErrorStops
  PROVE  IInv'
<1>1. Handling("HandleError")
  BY DEF OnErrorStops
<1>2. readable = 0 /\ posted' \in Seq(Events)
  BY <1>1, Handled
<1>3. PICK i \in Identities : i = Head(posted).id
  BY <1>1, Handled, EventKinds
<1>4. UNCHANGED <<engine, pm, slots, whenOnline, ctl, tor, readable, serviceMap,
                  listener, exists, autoConnect, address, boot, running, owner,
                  starts, refusals, alive>>
  BY DEF OnErrorStops, torVars, boundVars
<1>5. Waits(pending) /\ pending \in Seq(Commands) /\ TypeOK
  BY DEF IInv, RepliesFit, TypeOK
<1>6. /\ Waits(pending') /\ online' \in [Identities -> BOOLEAN]
      /\ IsConnected \/ pending' = pending
  <2>1. (IsConnected /\ Stop(i)) \/ (pending' = pending /\ online' = online)
    BY <1>3 DEF OnErrorStops
  <2>2. CASE IsConnected /\ Stop(i)
    BY <1>5, <2>2, StopEffect
  <2>3. CASE pending' = pending /\ online' = online
    BY <1>5, <2>3 DEF TypeOK, Waits, InPlace
  <2> QED
    BY <2>1, <2>2, <2>3
<1>7. pending' \in Seq(Commands)
  BY <1>6 DEF Waits
<1>8. readable' \in 0..Len(pending')
  BY <1>2, <1>4, <1>7
<1>9. TypeOK'
  BY ZenonT(60), <1>2, <1>4, <1>5, <1>6, <1>7, <1>8 DEF TypeOK
<1>10. LayersAgree' /\ RepliesFit'
  BY <1>4, <1>6, LayersLeftAlone
<1> QED
  BY <1>9, <1>10 DEF IInv

\* and the one that asks for a service once more.
LEMMA OnErrorRetriesKeeps ==
  ASSUME IInv, OnErrorRetries
  PROVE  IInv'
<1>1. Handling("HandleError")
  BY DEF OnErrorRetries
<1>2. readable = 0 /\ posted' \in Seq(Events)
  BY <1>1, Handled
<1>3. PICK i \in Identities : i = Head(posted).id
  BY <1>1, Handled, EventKinds
<1>4. UNCHANGED <<engine, pm, slots, ctl, tor, readable, serviceMap, listener, exists,
                  autoConnect, address, online, boot, running, owner, starts,
                  refusals, alive>>
  BY DEF OnErrorRetries, identityVars, torVars, boundVars
<1>5. MakeTransport(i)
  BY <1>3 DEF OnErrorRetries
<1>6. TypeOK /\ LayersAgree /\ Waits(pending)
  BY DEF IInv, RepliesFit
<1>7. /\ Waits(pending') /\ whenOnline' \in Seq(Identities)
      /\ IsConnected \/ pending' = pending
  BY <1>5, <1>6, MakeEffect
<1>8. pending' \in Seq(Commands)
  BY <1>7 DEF Waits
<1>9. readable' \in 0..Len(pending')
  BY <1>2, <1>4, <1>8
<1>10. TypeOK'
  BY ZenonT(60), <1>2, <1>4, <1>6, <1>7, <1>8, <1>9 DEF TypeOK
<1>11. LayersAgree' /\ RepliesFit'
  BY <1>4, <1>7, LayersLeftAlone
<1> QED
  BY <1>10, <1>11 DEF IInv

\* A new identity asks for its service, now or later.
LEMMA CreateIdentityKeeps ==
  ASSUME IInv, NEW i \in Identities, CreateIdentity(i)
  PROVE  IInv'
<1>1. /\ readable = 0
      /\ exists' = [exists EXCEPT ![i] = "yes"]
      /\ \E flag \in BOOLEAN : autoConnect' = [autoConnect EXCEPT ![i] = flag]
      /\ MakeTransport(i)
      /\ UNCHANGED <<engine, pm, slots, posted, ctl, tor, readable, serviceMap,
                     listener, address, online, boot, running, owner, starts,
                     refusals, alive>>
  BY DEF CreateIdentity, Clicks, torVars, boundVars
<1>2. TypeOK /\ LayersAgree /\ Waits(pending)
  BY DEF IInv, RepliesFit
<1>3. /\ Waits(pending') /\ whenOnline' \in Seq(Identities)
      /\ IsConnected \/ pending' = pending
  BY <1>1, <1>2, MakeEffect
<1>4. pending' \in Seq(Commands)
  BY <1>3 DEF Waits
<1>5. readable' \in 0..Len(pending')
  BY <1>1, <1>4
<1>6. /\ exists' \in [Identities -> {"not yet", "yes", "removed"}]
      /\ autoConnect' \in [Identities -> BOOLEAN]
  BY <1>1, <1>2 DEF TypeOK
<1>7. UNCHANGED <<engine, pm, slots, posted, ctl, tor, readable, serviceMap, listener,
                  address, online, boot, running, owner, starts, refusals, alive>>
  BY <1>1
<1>8. TypeOK'
  BY ZenonT(60), <1>2, <1>3, <1>4, <1>5, <1>6, <1>7 DEF TypeOK
<1>9. LayersAgree' /\ RepliesFit'
  BY <1>3, <1>7, LayersLeftAlone
<1> QED
  BY <1>8, <1>9 DEF IInv

\* Changes of the rows only.
LEMMA RowsKeep ==
  ASSUME IInv, NEW i \in Identities, RemoveIdentity(i) \/ SetAutoConnect(i)
  PROVE  IInv'
<1>1. UNCHANGED <<engine, pm, slots, whenOnline, posted, ctl, tor, pending, readable,
                  serviceMap, listener, address, boot, running, owner, starts,
                  refusals, alive>>
  BY DEF RemoveIdentity, SetAutoConnect, engineVars, ctlVars, torVars, boundVars
<1>2. /\ exists' \in {exists, [exists EXCEPT ![i] = "removed"]}
      /\ online' \in {online, [online EXCEPT ![i] = FALSE]}
      /\ autoConnect' \in {autoConnect, [autoConnect EXCEPT ![i] = ~@]}
  BY DEF RemoveIdentity, SetAutoConnect
<1>3. TypeOK /\ Waits(pending)
  BY DEF IInv, RepliesFit
<1>4. exists' \in [Identities -> {"not yet", "yes", "removed"}]
  BY <1>2, <1>3 DEF TypeOK
<1>5. online' \in [Identities -> BOOLEAN] /\ autoConnect' \in [Identities -> BOOLEAN]
  <2>1. /\ [online EXCEPT ![i] = FALSE] \in [Identities -> BOOLEAN]
        /\ [autoConnect EXCEPT ![i] = ~@] \in [Identities -> BOOLEAN]
    BY <1>3 DEF TypeOK
  <2> QED
    BY <1>2, <1>3, <2>1 DEF TypeOK
<1>6. TypeOK'
  BY ZenonT(60), <1>1, <1>3, <1>4, <1>5 DEF TypeOK
<1>7. Waits(pending')
  BY <1>1, <1>3 DEF Waits, InPlace
<1>8. LayersAgree' /\ RepliesFit'
  BY <1>1, <1>7, LayersLeftAlone
<1> QED
  BY <1>6, <1>8 DEF IInv

\* The user starts a service only while Tor is ready.
LEMMA StartServiceKeeps ==
  ASSUME IInv, NEW i \in Identities, StartService(i)
  PROVE  IInv'
<1>1. /\ readable = 0 /\ IsOnline /\ address[i] # NoOnion
      /\ Start(<<i>>, pending, address)
      /\ UNCHANGED <<engine, pm, slots, whenOnline, posted, ctl, tor, readable, exists,
                     autoConnect, address, online, boot, running, owner, starts,
                     refusals, alive>>
  BY DEF StartService, Clicks, engineVars, identityVars, torVars, boundVars
<1>2. TypeOK /\ Waits(pending) /\ IsConnected
  BY <1>1 DEF IInv, RepliesFit, LayersAgree, IsOnline
<1>3. PICK order \in Seq(Identities) : order = <<i>>
  <2>1. <<i>> \in Seq(Identities)
    OBVIOUS
  <2> QED
    BY <2>1
<1>4. \A j \in ToSet(order) : j = i
  BY <1>3 DEF ToSet
<1>5. address \in [Identities -> Onions \cup {NoOnion}]
  BY <1>2 DEF TypeOK
<1>6. \A j \in ToSet(order) : address[j] \in Onions
  BY <1>1, <1>4, <1>5
<1>7. Start(order, pending, address)
  BY <1>1, <1>3
<1>8. /\ Waits(pending')
      /\ listener' \in [Identities -> Ports \cup {NoPort}]
      /\ serviceMap' \in [Identities -> Onions \cup {NoOnion}]
  BY <1>2, <1>5, <1>6, <1>7, StartEffect
<1>9. pending' \in Seq(Commands)
  BY <1>8 DEF Waits
<1>10. readable' \in 0..Len(pending')
  BY <1>1, <1>9
<1>11. TypeOK'
  BY ZenonT(60), <1>1, <1>2, <1>8, <1>9, <1>10 DEF TypeOK
<1>12. LayersAgree' /\ RepliesFit'
  BY <1>1, <1>2, <1>8, LayersLeftAlone
<1> QED
  BY <1>11, <1>12 DEF IInv

\* A command for a service that the user asks for.
LEMMA RequestKeeps ==
  ASSUME IInv, NEW i \in Identities,
         StopService(i) \/ ChangeTransport(i) \/ SetNewTorService(i)
  PROVE  IInv'
<1>1. CASE Ended
  BY <1>1, EndedKeeps
<1>2. CASE ~Ended
  <2>1. /\ readable = 0
        /\ UNCHANGED <<engine, pm, slots, whenOnline, posted, ctl, tor, readable,
                       serviceMap, listener, exists, autoConnect, boot, running,
                       starts, refusals, alive>>
    BY <1>2 DEF StopService, ChangeTransport, SetNewTorService, Clicks, engineVars,
                identityVars, torVars, boundVars
  <2>2. TypeOK /\ LayersAgree /\ Waits(pending)
    BY DEF IInv, RepliesFit
  <2>3. \/ IsConnected /\ Stop(i)
        \/ IsConnected /\ pending' = Append(pending, New(i)) /\ online' = online
        \/ pending' = pending /\ online' = online
    BY <1>2, <2>2 DEF StopService, ChangeTransport, SetNewTorService, IsOnline,
                      LayersAgree, identityVars
  <2>4. /\ Waits(pending') /\ online' \in [Identities -> BOOLEAN]
        /\ IsConnected \/ pending' = pending
    <3>1. CASE IsConnected /\ Stop(i)
      BY <2>2, <3>1, StopEffect
    <3>2. CASE IsConnected /\ pending' = Append(pending, New(i)) /\ online' = online
      <4>1. New(i) \in Commands /\ New(i).kind \in OfService
        BY CommandKinds DEF OfService
      <4>2. Waits(pending')
        BY <2>2, <3>2, <4>1, SentEffect
      <4> QED
        BY <2>2, <3>2, <4>2 DEF TypeOK
    <3>3. CASE pending' = pending /\ online' = online
      BY <2>2, <3>3 DEF TypeOK, Waits, InPlace
    <3> QED
      BY <2>3, <3>1, <3>2, <3>3
  <2>5. pending' \in Seq(Commands)
    BY <2>4 DEF Waits
  <2>6. readable' \in 0..Len(pending')
    BY <2>1, <2>5
  <2>7. /\ owner' \in [Onions -> Identities \cup {Nobody}]
        /\ address' \in [Identities -> Onions \cup {NoOnion}]
    <3>1. \/ owner' = owner /\ address' = address
          \/ \E o \in Onions : /\ owner' = [owner EXCEPT ![o] = i]
                               /\ address' = [address EXCEPT ![i] = o]
      BY <1>2 DEF StopService, ChangeTransport, SetNewTorService, identityVars, torVars
    <3> QED
      BY ZenonT(60), <2>2, <3>1 DEF TypeOK
  <2>8. TypeOK'
    BY ZenonT(60), <2>1, <2>2, <2>4, <2>5, <2>6, <2>7 DEF TypeOK
  <2>9. LayersAgree' /\ RepliesFit'
    BY <2>1, <2>4, LayersLeftAlone
  <2> QED
    BY <2>8, <2>9 DEF IInv
<1> QED
  BY <1>1, <1>2

\* The invariant is inductive.
LEMMA StepKeeps == IInv /\ [Next]_vars => IInv'
<1> SUFFICES ASSUME IInv, [Next]_vars PROVE IInv'
  OBVIOUS
<1>1. CASE GoOnline
  BY <1>1, GoOnlineKeeps
<1>2. CASE StartAuth
  BY <1>2, StartAuthKeeps
<1>3. CASE GoOffline
  BY <1>3, GoOfflineKeeps
<1>4. CASE Lose \/ Quit
  BY <1>4, ClearedKeeps, EndedKeeps DEF Lose, Quit
<1>5. CASE Bootstrap \/ Restart \/ Poll
  BY <1>5, QuietKeeps
<1>6. CASE Reply
  BY <1>6, GreetingKeeps, ReplyAuthenticateKeeps, ReplyClosesKeeps,
     ReplySetEventsKeeps, ReplyGetInfoKeeps, ReplyNewKeeps, FailsKeeps,
     ReplyAddDelKeeps DEF Reply
<1>7. CASE HandlePosted
  <2>1. CASE OnOnlineFails \/ OnErrorFails
    BY <2>1, EndedKeeps DEF OnOnlineFails, OnErrorFails
  <2> QED
    BY <1>7, <2>1, OnOnlineKeeps, OnErrorStopsKeeps, OnErrorRetriesKeeps
    DEF HandlePosted
<1>8. CASE \E i \in Identities :
             \/ CreateIdentity(i) \/ RemoveIdentity(i) \/ SetAutoConnect(i)
             \/ StartService(i) \/ StopService(i)
             \/ ChangeTransport(i) \/ SetNewTorService(i)
  BY <1>8, CreateIdentityKeeps, RowsKeep, StartServiceKeeps, RequestKeeps
<1>9. CASE UNCHANGED vars
  <2>1. UNCHANGED <<engine, pm, slots, whenOnline, posted, ctl, tor, pending, readable,
                    serviceMap, listener, exists, autoConnect, address, online, boot,
                    running, owner, starts, refusals, alive>>
    BY <1>9 DEF vars, engineVars, ctlVars, identityVars, torVars, boundVars
  <2>2. TypeOK'
    BY ZenonT(60), <2>1 DEF IInv, TypeOK
  <2>3. Waits(pending')
    BY <2>1 DEF IInv, RepliesFit, Waits, InPlace
  <2>4. LayersAgree' /\ RepliesFit'
    BY <2>1, <2>3, LayersLeftAlone
  <2> QED
    BY <2>2, <2>4 DEF IInv
<1> QED
  BY <1>1, <1>2, <1>3, <1>4, <1>5, <1>6, <1>7, <1>8, <1>9 DEF Next

(***************************************************************************)
(* The theorems.                                                           *)
(***************************************************************************)

\* The invariant holds in every reachable state.
LEMMA Invariance == Spec => []IInv
<1>1. Init => IInv
  BY InitInvariant
<1>2. IInv /\ [Next]_vars => IInv'
  BY StepKeeps
<1> QED
  BY <1>1, <1>2, PTL DEF Spec

\* Every variable keeps its type: in particular a reply is handled only of a
\* command that was sent, and what is started or stopped is a service.
THEOREM TypeCorrectness == Spec => []TypeOK
<1>1. IInv => TypeOK
  BY DEF IInv
<1> QED
  BY <1>1, Invariance, PTL

\* The states of the five layers agree, whatever Tor answers and whenever the
\* connection or the program ends.
THEOREM Agreement == Spec => []LayersAgree
<1>1. IInv => LayersAgree
  BY DEF IInv
<1> QED
  BY <1>1, Invariance, PTL

(***************************************************************************)
(* Requests for a first service are kept.                                  *)
(***************************************************************************)

\* Queues that only grow keep a request.
LEMMA GrowingKeeps ==
  ASSUME NEW i \in Identities, Requested(i),
         ToSet(pending) \subseteq ToSet(pending'),
         ToSet(whenOnline) \subseteq ToSet(whenOnline'),
         ToSet(posted) \subseteq ToSet(posted')
  PROVE  Requested(i)'
BY DEF Requested, New, HandleError

\* A reply takes a request with it only if it answers that request.
LEMMA AnsweringKeeps ==
  ASSUME IInv, NEW kind \in Greetings \cup OfService, Replying(kind),
         NEW i \in Identities, Requested(i),
         Head(pending) # New(i),
         ToSet(Left) \subseteq ToSet(pending'),
         ToSet(whenOnline) \subseteq ToSet(whenOnline'),
         ToSet(posted) \subseteq ToSet(posted')
  PROVE  Requested(i)'
<1>1. ToSet(pending) = {Head(pending)} \cup ToSet(Left)
  BY Answered
<1> QED
  BY <1>1 DEF Requested, New, HandleError

\* The connection that is cleared was up.
LEMMA ClearedEnds ==
  ASSUME IInv, alive, Cleared,
         ctl \in {"AUTHENTICATING", "CONNECTED", "ONLINE"}
  PROVE  ~Gone /\ Gone'
<1>1. pm \in {"CONNECTING", "CONNECTED", "ONLINE"}
  BY DEF IInv, RepliesFit, LayersAgree, IsConnected
<1>2. pm' = "OFFLINE"
  BY DEF Cleared
<1> QED
  BY <1>1, <1>2 DEF Gone

\* A service made by Tor: the other commands stay, and an identity that still
\* exists has an address.
LEMMA NewSends ==
  ASSUME IInv, ReplyNew
  PROVE  \E j \in Identities :
           /\ Head(pending) = New(j)
           /\ ToSet(Left) \subseteq ToSet(pending')
           /\ exists[j] = "yes" => address'[j] # NoOnion
<1>1. Replying("NEW") /\ "NEW" \in OfService
  BY DEF ReplyNew, OfService
<1>2. /\ Head(pending) \in Commands /\ Head(pending).kind = "NEW"
      /\ Left \in Seq(Commands) /\ Waits(Left) /\ IsConnected
  BY <1>1, Answered DEF Authentication, OfService
<1>3. PICK j \in Identities : j = Head(pending).id /\ Head(pending) = New(j)
  BY <1>1, <1>2, CommandFields DEF OfService
<1>4. PICK o \in Onions :
        /\ address' = IF exists[j] = "yes" THEN [address EXCEPT ![j] = o] ELSE address
        /\ \/ Start(<<j>>, Append(Left, Del(j, o)), [address EXCEPT ![j] = o])
           \/ pending' = Append(Left, Del(j, o))
  BY <1>3, <1>1 DEF ReplyNew
<1>5. address \in [Identities -> Onions \cup {NoOnion}]
  BY DEF IInv, TypeOK
<1>6. PICK addr \in [Identities -> Onions \cup {NoOnion}] :
        addr = [address EXCEPT ![j] = o] /\ addr[j] = o
  <2>1. /\ [address EXCEPT ![j] = o] \in [Identities -> Onions \cup {NoOnion}]
        /\ [address EXCEPT ![j] = o][j] = o
    BY <1>5
  <2> QED
    BY <2>1
<1>7. Del(j, o) \in Commands /\ Del(j, o).kind \in OfService
  BY CommandKinds DEF OfService
<1>8. PICK sent \in Seq(Commands) :
        /\ sent = Append(Left, Del(j, o)) /\ Waits(sent)
        /\ ToSet(Left) \subseteq ToSet(sent)
  <2>1. Append(Left, Del(j, o)) \in Seq(Commands)
    BY <1>2, <1>7
  <2>2. Waits(Append(Left, Del(j, o)))
    BY <1>2, <1>7, WaitsAppend
  <2>3. ToSet(Left) \subseteq ToSet(Append(Left, Del(j, o)))
    BY <1>2, <1>7, ToSetAppend
  <2> QED
    BY <2>1, <2>2, <2>3
<1>9. ToSet(sent) \subseteq ToSet(pending')
  <2>1. CASE pending' = Append(Left, Del(j, o))
    BY <1>8, <2>1
  <2>2. CASE Start(<<j>>, Append(Left, Del(j, o)), [address EXCEPT ![j] = o])
    <3>1. PICK order \in Seq(Identities) : order = <<j>>
      <4>1. <<j>> \in Seq(Identities)
        OBVIOUS
      <4> QED
        BY <4>1
    <3>2. \A i \in ToSet(order) : addr[i] \in Onions
      <4>1. \A i \in ToSet(order) : i = j
        BY <3>1 DEF ToSet
      <4> QED
        BY <1>6, <4>1
    <3>3. Start(order, sent, addr)
      BY <1>6, <1>8, <2>2, <3>1
    <3> QED
      BY <1>2, <1>8, <3>2, <3>3, StartEffect DEF IInv
  <2> QED
    BY <1>4, <2>1, <2>2
<1>10. exists[j] = "yes" => address'[j] # NoOnion
  <2>1. exists[j] = "yes" => address'[j] = o
    BY <1>4, <1>6
  <2> QED
    BY <2>1 DEF Onions, NoOnion
<1> QED
  BY <1>3, <1>8, <1>9, <1>10

\* No reply takes a request along that it does not answer.
LEMMA RepliesKeepRequests ==
  ASSUME IInv, Reply, NEW i \in Identities,
         NeedsTransport(i), Requested(i), NeedsTransport(i)'
  PROVE  Requested(i)' \/ ~alive' \/ (~Gone /\ Gone')
<1>0. /\ pending \in Seq(Commands) /\ posted \in Seq(Events)
      /\ New(i).kind = "NEW"
  BY CommandKinds DEF IInv, TypeOK
<1>1. CASE ReplyProtocolInfo \/ ReplyAuthChallenge \/ ReplySetEvents
  <2>1. PICK kind \in Greetings, sent \in Seq(Commands) : Replying(kind) /\ Proceeds(sent)
    <3>1. /\ <<>> \in Seq(Commands)
          /\ \A kind \in Greetings : <<Command(kind)>> \in Seq(Commands)
      BY CommandKinds
    <3> QED
      BY <1>1, <3>1 DEF ReplyProtocolInfo, ReplyAuthChallenge, ReplySetEvents, Greetings
  <2>2. /\ Left \in Seq(Commands) /\ Head(pending).kind = kind
    BY <2>1, Answered
  <2>3. Head(pending) # New(i)
    BY <1>0, <2>2 DEF Greetings
  <2>4. /\ pending' = Left \o sent
        /\ UNCHANGED <<whenOnline, posted>>
    BY <2>1 DEF Proceeds, engineVars
  <2>5. ToSet(Left) \subseteq ToSet(pending')
    BY <2>1, <2>2, <2>4, ToSetConcat
  <2> QED
    BY <2>1, <2>3, <2>4, <2>5, AnsweringKeeps
<1>2. CASE ReplyAuthenticate
  <2>1. Replying("AUTHENTICATE") /\ "AUTHENTICATE" \in Greetings
    BY <1>2 DEF ReplyAuthenticate, Greetings
  <2>2. Left = <<>> /\ Head(pending).kind = "AUTHENTICATE"
    BY <2>1, Answered DEF Authentication
  <2>3. Head(pending) # New(i)
    BY <1>0, <2>2
  <2>4. /\ posted' = posted \o Ready
        /\ UNCHANGED whenOnline
    BY <1>2 DEF ReplyAuthenticate
  <2>5. Ready \in Seq(Events)
    <3>1. slots \in Nat
      BY DEF IInv, TypeOK
    <3>2. Ready \in [1..slots -> Events]
      BY EventKinds DEF Ready
    <3> QED
      BY <3>1, <3>2
  <2>6. ToSet(posted) \subseteq ToSet(posted')
    BY <1>0, <2>4, <2>5, ToSetConcat
  <2>7. ToSet(Left) = {}
    BY <2>2, ToSetEmpty
  <2> QED
    BY <2>1, <2>3, <2>4, <2>6, <2>7, AnsweringKeeps
<1>3. CASE ReplyCloses
  <2>1. CASE Ended
    BY <2>1 DEF Ended
  <2>2. CASE Cleared
    <3>1. PICK kind \in Greetings : Replying(kind)
      BY <1>3 DEF ReplyCloses
    <3>2. ctl \in {"AUTHENTICATING", "CONNECTED", "ONLINE"}
      BY <3>1, Answered DEF IsConnected
    <3>3. alive
      BY <3>1 DEF Replying
    <3> QED
      BY <2>2, <3>2, <3>3, ClearedEnds
  <2> QED
    BY <1>3, <2>1, <2>2 DEF ReplyCloses
<1>4. CASE ReplyGetInfo \/ ReplyAdd \/ ReplyDel
  <2>1. PICK kind \in {"GETINFO", "ADD", "DEL"} : Replying(kind)
    BY <1>4 DEF ReplyGetInfo, ReplyAdd, ReplyDel
  <2>2. kind \in Greetings \cup OfService
    BY DEF Greetings, OfService
  <2>3. Head(pending) # New(i)
    BY <1>0, <2>1 DEF Replying
  <2>4. pending' = Left /\ UNCHANGED <<whenOnline, posted>>
    BY <1>4 DEF ReplyGetInfo, ReplyAdd, ReplyDel, engineVars
  <2> QED
    BY <2>1, <2>2, <2>3, <2>4, AnsweringKeeps
<1>5. CASE ReplyNew
  <2>1. Replying("NEW") /\ "NEW" \in OfService /\ UNCHANGED <<whenOnline, posted>>
    BY <1>5 DEF ReplyNew, OfService, engineVars
  <2>2. PICK j \in Identities :
          /\ Head(pending) = New(j) /\ ToSet(Left) \subseteq ToSet(pending')
          /\ exists[j] = "yes" => address'[j] # NoOnion
    BY <1>5, NewSends
  <2>3. Head(pending) # New(i)
    BY <2>2 DEF New, NeedsTransport
  <2> QED
    BY <2>1, <2>2, <2>3, AnsweringKeeps
<1>6. CASE NewFails \/ AddFails \/ DelFails
  <2>1. PICK kind \in OfService : Replying(kind)
    BY <1>6 DEF NewFails, AddFails, DelFails, OfService
  <2>2. /\ Head(pending) \in Commands /\ Head(pending).kind = kind
    BY <2>1, Answered
  <2>3. HandleError(Head(pending).id) \in Events
    BY <2>1, <2>2, CommandFields, EventKinds
  <2>4. /\ pending' = Left /\ UNCHANGED whenOnline
        /\ posted' = Append(posted, HandleError(Head(pending).id))
    BY <1>6 DEF NewFails, AddFails, DelFails, Fails, Reported
  <2>5. ToSet(posted') = ToSet(posted) \cup {HandleError(Head(pending).id)}
    BY <1>0, <2>3, <2>4, ToSetAppend
  <2>6. CASE Head(pending) = New(i)
    <3>1. HandleError(i) \in ToSet(posted')
      BY <2>5, <2>6 DEF New
    <3> QED
      BY <3>1 DEF Requested, HandleError
  <2>7. CASE Head(pending) # New(i)
    BY <2>1, <2>4, <2>5, <2>7, AnsweringKeeps
  <2> QED
    BY <2>6, <2>7
<1> QED
  BY <1>1, <1>2, <1>3, <1>4, <1>5, <1>6 DEF Reply

\* What waits is sent when the program is online; an error is answered by another
\* request when the identity still needs a service.
LEMMA PostedKeepRequests ==
  ASSUME IInv, HandlePosted, NEW i \in Identities,
         NeedsTransport(i), Requested(i)
  PROVE  Requested(i)' \/ ~alive'
<1>0. TypeOK /\ LayersAgree /\ Waits(pending)
  BY DEF IInv, RepliesFit
<1>1. CASE OnOnline
  <2>1. Handling("Online")
    BY <1>1 DEF OnOnline
  <2>2. Head(posted) = Online /\ ToSet(posted) = {Head(posted)} \cup ToSet(posted')
    BY <2>1, Handled, EventKinds
  <2>3. ToSet(posted) \ {Online} \subseteq ToSet(posted') /\ HandleError(i) # Online
    BY <2>2, EventKinds
  <2>4. CASE IsConnected
    <3>1. PICK order \in SetToSeqs(Startable) :
            Start(order,
                  pending \o [k \in DOMAIN whenOnline |-> New(whenOnline[k])],
                  address)
      BY <1>1, <2>4 DEF OnOnline
    <3>2. PICK news : news = [k \in DOMAIN whenOnline |-> New(whenOnline[k])]
      OBVIOUS
    <3>3. whenOnline \in Seq(Identities) /\ pending \in Seq(Commands)
      BY <1>0 DEF TypeOK
    <3>4. DOMAIN whenOnline = 1..Len(whenOnline) /\ Len(whenOnline) \in Nat
      BY <3>3
    <3>5. \A k \in DOMAIN whenOnline : news[k] \in Commands /\ news[k].kind = "NEW"
      BY <3>2, <3>3, <3>4, CommandKinds
    <3>6. DOMAIN news = DOMAIN whenOnline
      BY <3>2
    <3>7. news \in Seq(Commands)
      <4>1. news \in [1..Len(whenOnline) -> Commands]
        BY <3>2, <3>4, <3>5
      <4> QED
        BY <3>4, <4>1
    <3>8. \A c \in ToSet(news) : c.kind \in OfService
      BY <3>5, <3>6 DEF ToSet, OfService
    <3>9. PICK sent : sent = pending \o news
      OBVIOUS
    <3>10. Waits(sent) /\ ToSet(sent) = ToSet(pending) \cup ToSet(news)
      BY <1>0, <2>4, <3>3, <3>7, <3>8, <3>9, WaitsConcat, ToSetConcat
    <3>11. order \in Seq(Identities) /\ \A j \in ToSet(order) : address[j] \in Onions
      BY <1>0, OrderOfStartable DEF Startable, TypeOK
    <3>12. Start(order, sent, address)
      BY <3>1, <3>2, <3>9
    <3>13. address \in [Identities -> Onions \cup {NoOnion}]
      BY <1>0 DEF TypeOK
    <3>14. ToSet(sent) \subseteq ToSet(pending')
      BY <1>0, <2>4, <3>10, <3>11, <3>12, <3>13, StartEffect
    <3>15. ASSUME i \in ToSet(whenOnline) PROVE New(i) \in ToSet(news)
      <4>1. PICK k \in DOMAIN whenOnline : whenOnline[k] = i
        BY <3>15 DEF ToSet
      <4>2. news[k] = New(i)
        BY <3>2, <4>1
      <4> QED
        BY <3>6, <4>1, <4>2 DEF ToSet
    <3> QED
      BY <2>3, <3>10, <3>14, <3>15 DEF Requested, New, HandleError
  <2>5. CASE ~IsConnected
    <3>1. UNCHANGED <<pending, whenOnline>>
      BY <1>1, <2>5 DEF OnOnline, ctlVars
    <3> QED
      BY <2>3, <3>1 DEF Requested, New, HandleError
  <2> QED
    BY <2>4, <2>5
<1>2. CASE OnErrorStops \/ OnErrorRetries
  <2>1. Handling("HandleError")
    BY <1>2 DEF OnErrorStops, OnErrorRetries
  <2>2. PICK j \in Identities : j = Head(posted).id /\ Head(posted) = HandleError(j)
    BY <2>1, Handled, EventKinds
  <2>3. ToSet(posted) = {HandleError(j)} \cup ToSet(posted')
    BY <2>1, <2>2, Handled
  <2>4. CASE OnErrorStops
    <3>1. j # i
      BY <2>2, <2>4 DEF OnErrorStops, NeedsTransport
    <3>2. HandleError(i) # HandleError(j)
      BY <3>1, EventKinds
    <3>3. whenOnline' = whenOnline /\ ToSet(pending) \subseteq ToSet(pending')
      <4>1. /\ whenOnline' = whenOnline
            /\ (IsConnected /\ Stop(j)) \/ pending' = pending
        BY <2>2, <2>4 DEF OnErrorStops
      <4> QED
        BY <1>0, <4>1, StopEffect
    <3> QED
      BY <2>3, <3>2, <3>3 DEF Requested, New, HandleError
  <2>5. CASE OnErrorRetries
    <3>1. MakeTransport(j)
      BY <2>2, <2>5 DEF OnErrorRetries
    <3>2. /\ ToSet(pending) \subseteq ToSet(pending')
          /\ ToSet(whenOnline) \subseteq ToSet(whenOnline')
          /\ New(j) \in ToSet(pending') \/ j \in ToSet(whenOnline')
      BY <1>0, <3>1, MakeEffect
    <3>3. CASE i = j
      BY <3>2, <3>3 DEF Requested, New
    <3>4. CASE i # j
      <4>1. HandleError(i) # HandleError(j)
        BY <3>4, EventKinds
      <4> QED
        BY <2>3, <3>2, <4>1 DEF Requested, New, HandleError
    <3> QED
      BY <3>3, <3>4
  <2> QED
    BY <1>2, <2>4, <2>5
<1>3. CASE OnOnlineFails \/ OnErrorFails
  BY <1>3 DEF OnOnlineFails, OnErrorFails, Ended
<1> QED
  BY <1>1, <1>2, <1>3 DEF HandlePosted

\* The user only adds commands, or ends the program.
LEMMA UserKeepsRequests ==
  ASSUME IInv, NEW j \in Identities, NEW i \in Identities, Requested(i),
         \/ CreateIdentity(j) \/ RemoveIdentity(j) \/ SetAutoConnect(j)
         \/ StartService(j) \/ StopService(j)
         \/ ChangeTransport(j) \/ SetNewTorService(j)
  PROVE  Requested(i)' \/ ~alive'
<1>0. TypeOK /\ LayersAgree /\ Waits(pending)
  BY DEF IInv, RepliesFit
<1>1. CASE CreateIdentity(j)
  <2>1. MakeTransport(j) /\ posted' = posted
    BY <1>1 DEF CreateIdentity
  <2> QED
    BY <1>0, <2>1, MakeEffect, GrowingKeeps
<1>2. CASE RemoveIdentity(j) \/ SetAutoConnect(j)
  <2>1. UNCHANGED <<pending, whenOnline, posted>>
    BY <1>2 DEF RemoveIdentity, SetAutoConnect, engineVars, ctlVars
  <2> QED
    BY <2>1, GrowingKeeps
<1>3. CASE StartService(j)
  <2>1. /\ IsOnline /\ address[j] # NoOnion /\ UNCHANGED <<whenOnline, posted>>
        /\ Start(<<j>>, pending, address)
    BY <1>3 DEF StartService, engineVars
  <2>2. IsConnected
    BY <1>0, <2>1 DEF LayersAgree, IsOnline
  <2>3. PICK order \in Seq(Identities) : order = <<j>>
    <3>1. <<j>> \in Seq(Identities)
      OBVIOUS
    <3> QED
      BY <3>1
  <2>4. address \in [Identities -> Onions \cup {NoOnion}]
    BY <1>0 DEF TypeOK
  <2>5. \A k \in ToSet(order) : address[k] \in Onions
    <3>1. \A k \in ToSet(order) : k = j
      BY <2>3 DEF ToSet
    <3> QED
      BY <2>1, <2>4, <3>1
  <2>6. Start(order, pending, address)
    BY <2>1, <2>3
  <2>7. ToSet(pending) \subseteq ToSet(pending')
    BY <1>0, <2>2, <2>4, <2>5, <2>6, StartEffect
  <2> QED
    BY <2>1, <2>7, GrowingKeeps
<1>4. CASE StopService(j) \/ ChangeTransport(j) \/ SetNewTorService(j)
  <2>1. CASE Ended
    BY <2>1 DEF Ended
  <2>2. CASE ~Ended
    <3>1. /\ UNCHANGED <<whenOnline, posted>>
          /\ \/ IsConnected /\ Stop(j)
             \/ IsConnected /\ pending' = Append(pending, New(j))
             \/ pending' = pending
      BY <1>0, <1>4, <2>2 DEF StopService, ChangeTransport, SetNewTorService,
                              IsOnline, LayersAgree, engineVars
    <3>2. ToSet(pending) \subseteq ToSet(pending')
      <4>1. CASE IsConnected /\ Stop(j)
        BY <1>0, <4>1, StopEffect
      <4>2. CASE IsConnected /\ pending' = Append(pending, New(j))
        <5>1. New(j) \in Commands /\ New(j).kind \in OfService
          BY CommandKinds DEF OfService
        <5> QED
          BY <1>0, <4>2, <5>1, SentEffect
      <4>3. CASE pending' = pending
        BY <4>3
      <4> QED
        BY <3>1, <4>1, <4>2, <4>3
    <3> QED
      BY <3>1, <3>2, GrowingKeeps
  <2> QED
    BY <2>1, <2>2
<1> QED
  BY <1>1, <1>2, <1>3, <1>4

\* Nor does any other step, unless it ends the connection or the program.
LEMMA StepKeepsRequests ==
  ASSUME IInv, [Next]_vars, NEW i \in Identities,
         NeedsTransport(i), Requested(i), NeedsTransport(i)'
  PROVE  Requested(i)' \/ ~alive' \/ (~Gone /\ Gone')
<1>1. CASE GoOnline
  <2>1. /\ pm \in {"NONE", "OFFLINE"} /\ pending' = <<>>
        /\ UNCHANGED <<whenOnline, posted>>
    BY <1>1 DEF GoOnline
  <2>2. pending = <<>>
    BY <2>1 DEF IInv, LayersAgree
  <2> QED
    BY <2>1, <2>2, GrowingKeeps
<1>2. CASE StartAuth
  <2>1. ctl = "CONNECTING" /\ UNCHANGED <<whenOnline, posted>>
    BY <1>2 DEF StartAuth, engineVars
  <2>2. ToSet(pending) = {}
    BY <2>1, ToSetEmpty DEF IInv, RepliesFit
  <2> QED
    BY <2>1, <2>2, GrowingKeeps
<1>3. CASE GoOffline
  <2>1. alive /\ pm \in {"CONNECTING", "CONNECTED", "ONLINE"} /\ (~alive' \/ pm' = "NONE")
    BY <1>3 DEF GoOffline, Ended
  <2> QED
    BY <2>1 DEF Gone
<1>4. CASE Lose
  BY <1>4, ClearedEnds DEF Lose
<1>5. CASE Quit
  BY <1>5 DEF Quit, Ended
<1>6. CASE Bootstrap \/ Restart \/ Poll \/ UNCHANGED vars
  <2>1. UNCHANGED <<pending, whenOnline, posted>>
    BY <1>6 DEF Bootstrap, Restart, Poll, vars, engineVars, ctlVars
  <2> QED
    BY <2>1, GrowingKeeps
<1>7. CASE Reply
  BY <1>7, RepliesKeepRequests
<1>8. CASE HandlePosted
  BY <1>8, PostedKeepRequests
<1>9. CASE \E j \in Identities :
             \/ CreateIdentity(j) \/ RemoveIdentity(j) \/ SetAutoConnect(j)
             \/ StartService(j) \/ StopService(j)
             \/ ChangeTransport(j) \/ SetNewTorService(j)
  BY <1>9, UserKeepsRequests
<1> QED
  BY <1>1, <1>2, <1>3, <1>4, <1>5, <1>6, <1>7, <1>8, <1>9 DEF Next

\* The request for the first service of an identity is lost only with the
\* connection or the program: a refusal turns it into an error, and an error
\* into a request.
THEOREM RequestsKept == Spec => RequestsAreKept
<1>1. IInv /\ [Next]_vars =>
        [\A i \in Identities :
           NeedsTransport(i) /\ Requested(i) /\ NeedsTransport(i)'
             => Requested(i)' \/ ~alive' \/ (~Gone /\ Gone')]_vars
  BY StepKeepsRequests
<1> QED
  BY <1>1, Invariance, PTL DEF Spec, RequestsAreKept

(***************************************************************************)
(* An identity that is online is reached.                                  *)
(***************************************************************************)

\* A command for a service is for one made or imported for its identity, which
\* has an address when its service is started.
Owned(s, own, addr) ==
  \A c \in ToSet(s) :
    /\ c.kind \in {"ADD", "DEL"} => own[c.onion] = c.id
    /\ c.kind = "ADD" => addr[c.id] # NoOnion

\* Of several starts of one service, the last is at the port the identity
\* listens on.
Latest(s, ports) ==
  \A k \in DOMAIN s : s[k].kind = "ADD" =>
    \/ s[k].port = ports[s[k].id]
    \/ \E m \in DOMAIN s : m > k /\ s[m].kind = "ADD" /\ s[m].id = s[k].id

\* Addresses and services in the controller's map are the identity's own, and
\* only an identity that has an address is online.
Own(i) ==
  /\ address[i] # NoOnion => owner[address[i]] = i
  /\ serviceMap[i] # NoOnion => owner[serviceMap[i]] = i
  /\ online[i] => exists[i] = "yes" /\ address[i] # NoOnion

\* The controller starts with an empty map: an identity that was left online is
\* not said to be reached before it is started again.
Blank == ctl \in {"CONNECTING", "AUTHENTICATING"} => serviceMap = NoneOf(NoOnion)

\* What OnlineIsReachable rests on.
RInv ==
  /\ Owned(pending, owner, address)
  /\ Latest(pending, listener)
  /\ \A i \in Identities : Own(i)
  /\ Blank
  /\ OnlineIsReachable

\* Commands that were Owned before still are.
LEMMA OwnedStill ==
  ASSUME NEW s, NEW t, NEW own, NEW addr, NEW own1, NEW addr1,
         Owned(s, own, addr), ToSet(t) \subseteq ToSet(s),
         s \in Seq(Commands),
         \A o \in Onions, i \in Identities : own[o] = i => own1[o] = i,
         \A i \in Identities : addr[i] # NoOnion => addr1[i] # NoOnion
  PROVE  Owned(t, own1, addr1)
<1> SUFFICES ASSUME NEW c \in ToSet(t)
             PROVE  /\ c.kind \in {"ADD", "DEL"} => own1[c.onion] = c.id
                    /\ c.kind = "ADD" => addr1[c.id] # NoOnion
  BY DEF Owned
<1>1. c \in ToSet(s) /\ c \in Commands
  BY InToSet
<1>2. /\ c.kind \in OfService => c.id \in Identities
      /\ c.kind \in {"ADD", "DEL"} => c.onion \in Onions
  BY <1>1, CommandFields
<1> QED
  BY <1>1, <1>2 DEF Owned, OfService

\* After the answer to the last start of a service, it is at the right port.
LEMMA LatestTail ==
  ASSUME NEW s \in Seq(Commands), s # <<>>, NEW ports, Latest(s, ports)
  PROVE  /\ Latest(Tail(s), ports)
         /\ Head(s).kind = "ADD" =>
              \/ Head(s).port = ports[Head(s).id]
              \/ \E c \in ToSet(Tail(s)) : c.kind = "ADD" /\ c.id = Head(s).id
<1>0. Tail(s) \in Seq(Commands)
  OBVIOUS
<1>1. PICK t \in Seq(Commands) : t = Tail(s)
  BY <1>0
<1>2. /\ Len(t) \in Nat /\ Len(s) = Len(t) + 1 /\ Head(s) = s[1]
      /\ DOMAIN s = 1..Len(s) /\ DOMAIN t = 1..Len(t)
      /\ \A k \in 1..Len(t) : t[k] = s[k + 1]
  BY <1>1
<1>3. Latest(t, ports)
  <2> SUFFICES ASSUME NEW k \in DOMAIN t, t[k].kind = "ADD",
                      t[k].port # ports[t[k].id]
               PROVE  \E m \in DOMAIN t : m > k /\ t[m].kind = "ADD" /\ t[m].id = t[k].id
    BY DEF Latest
  <2>1. k + 1 \in DOMAIN s /\ s[k + 1] = t[k]
    BY <1>2
  <2>2. PICK m \in DOMAIN s : m > k + 1 /\ s[m].kind = "ADD" /\ s[m].id = s[k + 1].id
    BY <2>1 DEF Latest
  <2>3. m - 1 \in DOMAIN t /\ m - 1 > k /\ t[m - 1] = s[m]
    BY <1>2, <2>2
  <2> QED
    BY <2>1, <2>2, <2>3
<1>4. ASSUME Head(s).kind = "ADD", Head(s).port # ports[Head(s).id]
      PROVE  \E c \in ToSet(t) : c.kind = "ADD" /\ c.id = Head(s).id
  <2>1. PICK m \in DOMAIN s : m > 1 /\ s[m].kind = "ADD" /\ s[m].id = s[1].id
    BY <1>2, <1>4 DEF Latest
  <2>2. m - 1 \in DOMAIN t /\ t[m - 1] = s[m]
    BY <1>2, <2>1
  <2>3. s[m] \in ToSet(t)
    BY <2>2 DEF ToSet
  <2> QED
    BY <1>2, <2>1, <2>3
<1> QED
  BY <1>1, <1>3, <1>4

\* New ports come with commands to use them.
LEMMA LatestConcat ==
  ASSUME NEW s \in Seq(Commands), NEW t \in Seq(Commands), NEW ports, NEW ports1,
         Latest(s, ports), Latest(t, ports1),
         \A i \in Identities : \/ ports1[i] = ports[i]
                               \/ \E m \in DOMAIN t : t[m].kind = "ADD" /\ t[m].id = i
  PROVE  Latest(s \o t, ports1)
<1>1. PICK u \in Seq(Commands) : u = s \o t
  BY ToSetConcat
<1>2. /\ Len(s) \in Nat /\ Len(t) \in Nat /\ Len(u) = Len(s) + Len(t)
      /\ DOMAIN s = 1..Len(s) /\ DOMAIN t = 1..Len(t) /\ DOMAIN u = 1..Len(u)
      /\ \A k \in 1..Len(s) : u[k] = s[k]
      /\ \A k \in 1..Len(t) : u[k + Len(s)] = t[k]
  BY <1>1
<1>3. ASSUME NEW k \in DOMAIN u, u[k].kind = "ADD", u[k].port # ports1[u[k].id]
      PROVE  \E m \in DOMAIN u : m > k /\ u[m].kind = "ADD" /\ u[m].id = u[k].id
  <2>1. CASE k \in DOMAIN s
    <3>1. u[k] = s[k] /\ s[k] \in Commands
      BY <1>2, <2>1
    <3>2. s[k].id \in Identities
      BY <1>3, <3>1, CommandFields DEF OfService
    <3>3. CASE \E m \in DOMAIN t : t[m].kind = "ADD" /\ t[m].id = s[k].id
      <4>1. PICK m \in DOMAIN t : t[m].kind = "ADD" /\ t[m].id = s[k].id
        BY <3>3
      <4>2. m + Len(s) \in DOMAIN u /\ m + Len(s) > k /\ u[m + Len(s)] = t[m]
        BY <1>2, <2>1
      <4> QED
        BY <3>1, <4>1, <4>2
    <3>4. CASE ports1[s[k].id] = ports[s[k].id]
      <4>1. PICK m \in DOMAIN s : m > k /\ s[m].kind = "ADD" /\ s[m].id = s[k].id
        BY <1>3, <2>1, <3>1, <3>4 DEF Latest
      <4>2. m \in DOMAIN u /\ u[m] = s[m]
        BY <1>2
      <4> QED
        BY <3>1, <4>1, <4>2
    <3> QED
      BY <3>2, <3>3, <3>4
  <2>2. CASE k \notin DOMAIN s
    <3>1. PICK j \in DOMAIN t : j = k - Len(s) /\ k = j + Len(s)
      BY <1>2, <2>2
    <3>2. u[k] = t[j]
      BY <1>2, <3>1
    <3>3. PICK m \in DOMAIN t : m > j /\ t[m].kind = "ADD" /\ t[m].id = t[j].id
      BY <1>3, <3>2 DEF Latest
    <3>4. m + Len(s) \in DOMAIN u /\ m + Len(s) > k /\ u[m + Len(s)] = t[m]
      BY <1>2, <3>1, <3>3
    <3> QED
      BY <3>2, <3>3, <3>4
  <2> QED
    BY <2>1, <2>2
<1> QED
  BY <1>1, <1>3 DEF Latest

\* A command that starts nothing.
LEMMA LatestAppend ==
  ASSUME NEW s \in Seq(Commands), NEW c \in Commands, c.kind # "ADD", NEW ports,
         Latest(s, ports)
  PROVE  Latest(Append(s, c), ports)
<1>0. <<c>> \in Seq(Commands)
  OBVIOUS
<1>1. PICK t \in Seq(Commands) : t = <<c>>
  BY <1>0
<1>2. \A k \in DOMAIN t : t[k] = c
  BY <1>1
<1>3. Latest(t, ports)
  BY <1>2 DEF Latest
<1>4. Append(s, c) = s \o t
  BY <1>1
<1> QED
  BY <1>3, <1>4, LatestConcat

\* What is on its way, as a set.
LEMMA UnderwayCommands ==
  ASSUME NEW i
  PROVE  Underway(i) <=>
           \/ \E c \in ToSet(pending) : c.kind \in {"ADD", "DEL"} /\ c.id = i
           \/ HandleError(i) \in ToSet(posted)
BY DEF Underway, ToSet

\* What leaves an identity's service, listener and commands alone leaves it
\* reached.
LEMMA ReachedStill ==
  ASSUME RInv, NEW i \in Identities, IsConnected, online[i], serviceMap[i] # NoOnion,
         listener'[i] = listener[i],
         \A o \in Onions : owner[o] = i => owner'[o] = i /\ running'[o] = running[o],
         \A c \in ToSet(pending) :
           c.kind \in {"ADD", "DEL"} /\ c.id = i => c \in ToSet(pending'),
         HandleError(i) \in ToSet(posted) => HandleError(i) \in ToSet(posted')
  PROVE  Reachable(i)' \/ Underway(i)'
<1>1. Reachable(i) \/ Underway(i)
  BY DEF RInv, OnlineIsReachable
<1>2. CASE Reachable(i)
  BY <1>2 DEF Reachable
<1>3. CASE Underway(i)
  BY <1>3 DEF Underway, ToSet, HandleError
<1> QED
  BY <1>1, <1>2, <1>3

\* Services that are started: their commands are the latest, and the others are
\* left alone.
LEMMA StartAims ==
  ASSUME NEW sent \in Seq(Commands), Latest(sent, listener),
         NEW order \in Seq(Identities), NEW addr, NEW own, Owned(sent, own, addr),
         listener \in [Identities -> Ports \cup {NoPort}],
         \A i \in ToSet(order) : addr[i] \in Onions /\ own[addr[i]] = i,
         Start(order, sent, addr)
  PROVE  /\ Owned(pending', own, addr)
         /\ Latest(pending', listener')
         /\ ToSet(sent) \subseteq ToSet(pending')
         /\ \A i \in ToSet(order) :
              /\ serviceMap'[i] = addr[i]
              /\ \E c \in ToSet(pending') : c.kind = "ADD" /\ c.id = i
         /\ \A i \in Identities \ ToSet(order) :
              serviceMap'[i] = serviceMap[i] /\ listener'[i] = listener[i]
<1>1. PICK port \in [ToSet(order) -> Ports] :
        /\ pending' = sent \o [k \in DOMAIN order |->
                                 Add(order[k], addr[order[k]], port[order[k]])]
        /\ listener' = [i \in Identities |->
                          IF i \in ToSet(order) THEN port[i] ELSE listener[i]]
        /\ serviceMap' = [i \in Identities |->
                            IF i \in ToSet(order) THEN addr[i] ELSE serviceMap[i]]
  BY DEF Start
<1>2. PICK adds : adds = [k \in DOMAIN order |->
                            Add(order[k], addr[order[k]], port[order[k]])]
  OBVIOUS
<1>3. /\ DOMAIN order = 1..Len(order) /\ Len(order) \in Nat
      /\ DOMAIN adds = DOMAIN order
      /\ ToSet(order) \subseteq Identities
  BY <1>2, InToSet
<1>4. \A k \in DOMAIN order : order[k] \in ToSet(order)
  BY DEF ToSet
<1>5. \A k \in DOMAIN adds :
        /\ adds[k] \in Commands /\ adds[k].kind = "ADD" /\ adds[k].id = order[k]
        /\ adds[k].onion = addr[order[k]] /\ adds[k].port = port[order[k]]
  BY <1>2, <1>3, <1>4, CommandKinds DEF Add
<1>6. adds \in Seq(Commands)
  <2>1. adds \in [1..Len(order) -> Commands]
    BY <1>2, <1>3, <1>5
  <2> QED
    BY <1>3, <2>1
<1>7. pending' = sent \o adds
  BY <1>1, <1>2
<1>8. ToSet(pending') = ToSet(sent) \cup ToSet(adds)
  BY <1>6, <1>7, ToSetConcat
<1>9. Owned(adds, own, addr)
  <2> SUFFICES ASSUME NEW c \in ToSet(adds)
               PROVE  own[c.onion] = c.id /\ addr[c.id] # NoOnion
    BY DEF Owned
  <2>1. PICK k \in DOMAIN adds : c = adds[k]
    BY DEF ToSet
  <2> QED
    BY <1>3, <1>4, <1>5, <2>1 DEF Onions, NoOnion
<1>10. Owned(pending', own, addr)
  BY <1>8, <1>9 DEF Owned
<1>11. \A i \in ToSet(order) : \E m \in DOMAIN adds : adds[m].kind = "ADD" /\ adds[m].id = i
  BY <1>3, <1>5 DEF ToSet
<1>12. Latest(adds, listener')
  BY <1>1, <1>3, <1>4, <1>5 DEF Latest
<1>13. \A i \in Identities : i \notin ToSet(order) => listener'[i] = listener[i]
  BY <1>1
<1>14. Latest(pending', listener')
  <2>1. PICK ports : ports = listener'
    OBVIOUS
  <2>2. PICK old : old = listener
    OBVIOUS
  <2>3. Latest(sent, old) /\ Latest(adds, ports)
    BY <1>12, <2>1, <2>2
  <2>4. \A i \in Identities :
          \/ ports[i] = old[i]
          \/ \E m \in DOMAIN adds : adds[m].kind = "ADD" /\ adds[m].id = i
    BY <1>11, <1>13, <2>1, <2>2
  <2>5. Latest(sent \o adds, ports)
    BY <1>6, <2>3, <2>4, LatestConcat
  <2> QED
    BY <1>7, <2>1, <2>5
<1>15. \A i \in ToSet(order) : \E c \in ToSet(adds) : c.kind = "ADD" /\ c.id = i
  BY <1>11 DEF ToSet
<1> QED
  BY <1>1, <1>3, <1>8, <1>10, <1>13, <1>14, <1>15

\* The program or its connection ends, or a new connection begins.
LEMMA DownReaches ==
  ASSUME RInv, owner' = owner, address' = address, exists' = exists,
         \A i \in Identities : online'[i] => online[i],
         serviceMap' \in {serviceMap, NoneOf(NoOnion)},
         ctl' # "ONLINE",
         ctl' \in {"CONNECTING", "AUTHENTICATING", "CONNECTED"} =>
           serviceMap' = NoneOf(NoOnion),
         \A c \in ToSet(pending') : c.kind \notin OfService
  PROVE  RInv'
<1>1. Owned(pending, owner, address)'
  BY DEF Owned, OfService
<1>2. Latest(pending, listener)'
  BY DEF Latest, ToSet, OfService
<1>3. \A i \in Identities : Own(i)'
  BY DEF RInv, Own, NoneOf
<1>4. Blank'
  BY DEF Blank
<1>5. OnlineIsReachable'
  BY DEF OnlineIsReachable, IsConnected, NoneOf
<1> QED
  BY <1>1, <1>2, <1>3, <1>4, <1>5 DEF RInv

\* Commands of an identity, and an error of its service, are not lost.
Kept(i) ==
  /\ \A c \in ToSet(pending) :
       c.kind \in {"ADD", "DEL"} /\ c.id = i => c \in ToSet(pending')
  /\ HandleError(i) \in ToSet(posted) => HandleError(i) \in ToSet(posted')

\* Steps that start and end no service.
LEMMA QuietReaches ==
  ASSUME RInv, IsConnected' = IsConnected, running' = running, listener' = listener,
         serviceMap' = serviceMap,
         ctl' \in {"CONNECTING", "AUTHENTICATING"} => ctl' = ctl,
         Owned(pending', owner', address'), Latest(pending', listener),
         \A i \in Identities : Own(i)',
         \A o \in Onions, i \in Identities : owner[o] = i => owner'[o] = i,
         \A i \in Identities : IsConnected /\ online'[i] /\ serviceMap[i] # NoOnion =>
           (online[i] /\ Kept(i)) \/ Underway(i)'
  PROVE  RInv'
<1>1. Owned(pending, owner, address)' /\ Latest(pending, listener)'
  BY DEF Owned, Latest
<1>2. Blank'
  BY DEF RInv, Blank
<1>3. OnlineIsReachable'
  <2> SUFFICES ASSUME NEW i \in Identities,
                      IsConnected, online'[i], serviceMap[i] # NoOnion
               PROVE  Reachable(i)' \/ Underway(i)'
    BY DEF OnlineIsReachable
  <2>1. CASE online[i] /\ Kept(i)
    BY <2>1, ReachedStill DEF Kept
  <2> QED
    BY <2>1
<1> QED
  BY <1>1, <1>2, <1>3 DEF RInv

\* What RInv and IInv say of the state a step starts from.
LEMMA ReachFacts ==
  ASSUME IInv, RInv
  PROVE  /\ pending \in Seq(Commands) /\ posted \in Seq(Events)
         /\ whenOnline \in Seq(Identities)
         /\ listener \in [Identities -> Ports \cup {NoPort}]
         /\ serviceMap \in [Identities -> Onions \cup {NoOnion}]
         /\ address \in [Identities -> Onions \cup {NoOnion}]
         /\ owner \in [Onions -> Identities \cup {Nobody}]
         /\ running \in [Onions -> 0..Elsewhere]
         /\ Owned(pending, owner, address)
         /\ Latest(pending, listener)
         /\ \A i \in Identities : Own(i)
BY DEF IInv, TypeOK, RInv

\* Starting, stopping, losing the connection, and authenticating: no service is
\* in the map of a connection that is not authenticated.
LEMMA EndedReaches ==
  ASSUME RInv, Ended
  PROVE  RInv'
<1>1. /\ UNCHANGED <<owner, address, exists>>
      /\ \A i \in Identities : ~online'[i]
      /\ serviceMap' = NoneOf(NoOnion) /\ ctl' = "DISCONNECTED"
      /\ ToSet(pending') = {}
  BY ToSetEmpty DEF Ended, NoneOf
<1> QED
  BY <1>1, DownReaches

\* The end of the control connection takes the commands along.
LEMMA ClearedReaches ==
  ASSUME RInv, Cleared
  PROVE  RInv'
<1>1. /\ UNCHANGED <<owner, address, exists, serviceMap>>
      /\ ctl' = "STOPPED" /\ ToSet(pending') = {}
  BY ToSetEmpty DEF Cleared
<1>2. \A i \in Identities : online'[i] => online[i]
  BY DEF Cleared, TakenOffline
<1> QED
  BY <1>1, <1>2, DownReaches

\* A start and a stop empty the map of services.
LEMMA ConnectionReaches ==
  ASSUME IInv, RInv, GoOnline \/ StartAuth \/ GoOffline
  PROVE  RInv'
<1>1. CASE GoOnline
  <2>1. /\ UNCHANGED <<owner, address, exists, online>>
        /\ serviceMap' = NoneOf(NoOnion) /\ ctl' = "CONNECTING"
        /\ ToSet(pending') = {}
    BY <1>1, ToSetEmpty DEF GoOnline, identityVars, torVars
  <2> QED
    BY <2>1, DownReaches
<1>2. CASE StartAuth
  <2>1. /\ UNCHANGED <<owner, address, exists, online, serviceMap>>
        /\ ctl = "CONNECTING" /\ ctl' = "AUTHENTICATING"
        /\ pending' = <<Command("PROTOCOLINFO")>>
    BY <1>2 DEF StartAuth, identityVars
  <2>2. serviceMap' = NoneOf(NoOnion)
    BY <2>1 DEF RInv, Blank
  <2>3. Waits(pending)'
    BY <2>1, OneGreeting DEF Authentication
  <2>4. \A c \in ToSet(pending') : c.kind \notin OfService
    BY <2>1, <2>3 DEF Waits, OfService, IsConnected, Authentication
  <2> QED
    BY <2>1, <2>2, <2>4, DownReaches
<1>3. CASE GoOffline
  <2>1. CASE Ended
    BY <2>1, EndedReaches
  <2>2. CASE ~Ended
    <3>1. /\ UNCHANGED <<owner, address, exists>>
          /\ serviceMap' = NoneOf(NoOnion) /\ ctl' = "DISCONNECTED"
          /\ online' = TakenOffline(Closed)
          /\ ToSet(pending') = {}
      BY <1>3, <2>2, ToSetEmpty DEF GoOffline
    <3>2. \A i \in Identities : online'[i] => online[i]
      BY <3>1 DEF TakenOffline
    <3> QED
      BY <3>1, <3>2, DownReaches
  <2> QED
    BY <2>1, <2>2
<1> QED
  BY <1>1, <1>2, <1>3

\* Authentication sends no command for a service.
LEMMA AuthenticationReaches ==
  ASSUME IInv, IInv', RInv, ReplyProtocolInfo \/ ReplyAuthChallenge \/ ReplyAuthenticate
  PROVE  RInv'
<1>1. PICK kind \in Authentication : Replying(kind)
  BY DEF ReplyProtocolInfo, ReplyAuthChallenge, ReplyAuthenticate, Authentication
<1>2. ctl = "AUTHENTICATING" /\ Left = <<>>
  <2>1. kind \in Greetings \cup OfService
    BY DEF Authentication, Greetings
  <2> QED
    BY <1>1, <2>1, Answered
<1>3. /\ UNCHANGED <<owner, address, exists, online, serviceMap>>
      /\ ctl' \in {ctl, "CONNECTED"}
  BY DEF ReplyProtocolInfo, ReplyAuthChallenge, ReplyAuthenticate, Proceeds,
         identityVars, torVars
<1>4. serviceMap' = NoneOf(NoOnion)
  BY <1>2, <1>3 DEF RInv, Blank
<1>5. \A c \in ToSet(pending') : c.kind \notin OfService
  <2>1. PICK t : /\ pending' = Left \o t
                 /\ \/ \E k \in Greetings : t = <<Command(k)>>
                    \/ \E k, n \in Greetings : t = <<Command(k), Command(n)>>
    BY DEF ReplyProtocolInfo, ReplyAuthChallenge, ReplyAuthenticate, Proceeds, Greetings
  <2>2. \A k \in Greetings : Command(k) \in Commands /\ Command(k).kind \notin OfService
    BY CommandKinds DEF Greetings, OfService
  <2>3. t \in Seq(Commands) /\ \A c \in ToSet(t) : c.kind \notin OfService
    <3>1. CASE \E k \in Greetings : t = <<Command(k)>>
      BY <2>2, <3>1 DEF ToSet
    <3>2. CASE \E k, n \in Greetings : t = <<Command(k), Command(n)>>
      BY <2>2, <3>2 DEF ToSet
    <3> QED
      BY <2>1, <3>1, <3>2
  <2>4. pending' = t
    BY <1>2, <2>1, <2>3
  <2> QED
    BY <2>3, <2>4
<1> QED
  BY <1>2, <1>3, <1>4, <1>5, DownReaches

\* Replies that concern no service, and what the environment does.
LEMMA OtherRepliesReach ==
  ASSUME IInv, RInv, ReplySetEvents \/ ReplyGetInfo
  PROVE  RInv'
<1>0. Owned(pending, owner, address) /\ Latest(pending, listener) /\ pending \in Seq(Commands)
  BY ReachFacts
<1>1. PICK kind \in {"SETEVENTS", "GETINFO"} : Replying(kind)
  BY DEF ReplySetEvents, ReplyGetInfo
<1>2. kind \in Greetings /\ kind \notin Authentication /\ kind \notin OfService
  BY DEF Greetings, Authentication, OfService
<1>3. /\ pending # <<>> /\ Head(pending).kind = kind
      /\ Left \in Seq(Commands) /\ IsConnected
      /\ ToSet(pending) = {Head(pending)} \cup ToSet(Left)
  BY <1>1, <1>2, Answered
<1>4. /\ pending' = Left
      /\ UNCHANGED <<posted, running, owner, listener, serviceMap, address, exists, online>>
      /\ ctl' \in {ctl, "ONLINE"}
  <2>1. Left \o <<>> = Left
    BY <1>3
  <2> QED
    BY <2>1 DEF ReplySetEvents, ReplyGetInfo, Proceeds, engineVars, identityVars, torVars
<1>5. IsConnected' = IsConnected
  BY <1>3, <1>4 DEF IsConnected
<1>6. Owned(pending', owner', address')
  BY <1>0, <1>3, <1>4, OwnedStill
<1>7. Latest(pending', listener)
  BY <1>0, <1>3, <1>4, LatestTail DEF Left
<1>8. \A i \in Identities : Own(i)'
  BY <1>4 DEF RInv, Own
<1>9. \A i \in Identities : Kept(i)
  BY <1>1, <1>2, <1>3, <1>4 DEF Kept, OfService
<1> QED
  BY <1>4, <1>5, <1>6, <1>7, <1>8, <1>9, QuietReaches

\* Steps that touch no service.
LEMMA EnvironmentReaches ==
  ASSUME IInv, RInv,
         UNCHANGED <<ctl, pending, serviceMap, listener, running, owner, address, exists>>,
         ToSet(posted) \subseteq ToSet(posted'),
         \A i \in Identities : online'[i] => online[i]
  PROVE  RInv'
<1>1. \A i \in Identities : Own(i)' /\ Kept(i)
  BY DEF RInv, Own, Kept
<1>2. Owned(pending', owner', address') /\ Latest(pending', listener)
  BY DEF RInv, Owned, Latest
<1>3. IsConnected' = IsConnected
  BY DEF IsConnected
<1> QED
  BY <1>1, <1>2, <1>3, QuietReaches

\* The answers to commands for services.
LEMMA FailsReaches ==
  ASSUME IInv, RInv, NewFails \/ AddFails \/ DelFails
  PROVE  RInv'
<1>0. /\ Owned(pending, owner, address) /\ Latest(pending, listener)
      /\ pending \in Seq(Commands) /\ posted \in Seq(Events)
  BY ReachFacts
<1>1. PICK kind \in OfService : Replying(kind)
  BY DEF NewFails, AddFails, DelFails, OfService
<1>2. /\ pending # <<>> /\ Head(pending) \in Commands /\ Head(pending).kind = kind
      /\ Left \in Seq(Commands) /\ IsConnected
      /\ ToSet(pending) = {Head(pending)} \cup ToSet(Left)
  BY <1>1, Answered DEF Authentication, OfService
<1>3. PICK j \in Identities : j = Head(pending).id
  BY <1>1, <1>2, CommandFields
<1>4. Fails
  BY DEF NewFails, AddFails, DelFails
<1>5. /\ pending' = Left /\ posted' = Append(posted, HandleError(j))
      /\ UNCHANGED <<ctl, serviceMap, listener, exists, address, online, running, owner>>
  BY <1>3, <1>4 DEF Fails, Reported, identityVars, torVars
<1>6. ToSet(posted') = ToSet(posted) \cup {HandleError(j)}
  BY <1>0, <1>5, EventKinds, ToSetAppend
<1>7. IsConnected' = IsConnected
  BY <1>5 DEF IsConnected
<1>8. Owned(pending', owner', address')
  BY <1>0, <1>2, <1>5, OwnedStill
<1>9. Latest(pending', listener)
  BY <1>0, <1>2, <1>5, LatestTail DEF Left
<1>10. \A i \in Identities : Own(i)'
  BY <1>5 DEF RInv, Own
<1>11. \A i \in Identities \ {j} : Kept(i)
  BY <1>2, <1>3, <1>5, <1>6 DEF Kept
<1>12. Underway(j)'
  BY <1>6 DEF Underway, HandleError
<1> QED
  BY <1>5, <1>7, <1>8, <1>9, <1>10, <1>11, <1>12, QuietReaches

\* A service that Tor started runs at the right port, or another start of it waits.
LEMMA ReplyAddReaches ==
  ASSUME IInv, RInv, ReplyAdd
  PROVE  RInv'
<1>0. /\ Owned(pending, owner, address) /\ Latest(pending, listener)
      /\ pending \in Seq(Commands)
      /\ running \in [Onions -> 0..Elsewhere]
      /\ online \in [Identities -> BOOLEAN]
      /\ \A i \in Identities : Own(i)
  BY ReachFacts DEF IInv, TypeOK
<1>1. Replying("ADD") /\ "ADD" \in OfService
  BY DEF ReplyAdd, OfService
<1>2. /\ pending # <<>> /\ Head(pending) \in Commands /\ Head(pending).kind = "ADD"
      /\ Left \in Seq(Commands) /\ IsConnected
      /\ ToSet(pending) = {Head(pending)} \cup ToSet(Left)
  BY <1>1, Answered DEF Authentication, OfService
<1>3. PICK j \in Identities, o \in Onions, p \in Ports :
        j = Head(pending).id /\ o = Head(pending).onion /\ p = Head(pending).port
  BY <1>1, <1>2, CommandFields
<1>4. /\ running[o] = NoPort
      /\ running' = [running EXCEPT ![o] = p]
      /\ online' = [online EXCEPT ![j] = (exists[j] = "yes")]
      /\ pending' = Left
      /\ UNCHANGED <<posted, ctl, serviceMap, listener, exists, address, owner>>
  BY <1>3 DEF ReplyAdd, engineVars
<1>5. owner[o] = j /\ address[j] # NoOnion
  BY <1>0, <1>2, <1>3 DEF Owned
<1>6. Owned(pending, owner, address)'
  <2>1. Owned(Left, owner, address)
    BY <1>0, <1>2, OwnedStill
  <2> QED
    BY <1>4, <2>1 DEF Owned
<1>7. Latest(pending, listener)'
  <2>1. Latest(Left, listener)
    BY <1>0, <1>2, LatestTail DEF Left
  <2> QED
    BY <1>4, <2>1 DEF Latest
<1>8. \A i \in Identities : Own(i)'
  <2>1. online'[j] => exists[j] = "yes"
    BY <1>0, <1>4, ZenonT(60)
  <2>2. \A i \in Identities \ {j} : online'[i] = online[i]
    BY <1>0, <1>4
  <2> QED
    BY <1>0, <1>4, <1>5, <2>1, <2>2 DEF Own
<1>9. Blank'
  BY <1>4 DEF RInv, Blank
<1>10. OnlineIsReachable'
  <2> SUFFICES ASSUME NEW i \in Identities, IsConnected', online'[i],
                      serviceMap'[i] # NoOnion
               PROVE  Reachable(i)' \/ Underway(i)'
    BY DEF OnlineIsReachable
  <2>1. CASE i = j
    <3>1. CASE p = listener[j]
      <4>1. running'[o] = p /\ p # NoPort
        BY <1>0, <1>4 DEF Ports, NoPort
      <4> QED
        BY <1>4, <1>5, <2>1, <3>1, <4>1 DEF Reachable
    <3>2. CASE p # listener[j]
      <4>1. \E c \in ToSet(Left) : c.kind = "ADD" /\ c.id = j
        BY <1>0, <1>2, <1>3, <3>2, LatestTail DEF Left
      <4>2. \E c \in ToSet(pending') : c.kind = "ADD" /\ c.id = j
        BY <1>4, <4>1
      <4> QED
        BY <2>1, <4>2 DEF Underway, ToSet
    <3> QED
      BY <3>1, <3>2
  <2>2. CASE i # j
    <3>1. IsConnected /\ online[i]
      BY <1>2, <1>0, <1>4, <2>2
    <3>2. \A x \in Onions : owner[x] = i => owner'[x] = i /\ running'[x] = running[x]
      BY <1>0, <1>4, <1>5, <2>2
    <3>3. \A c \in ToSet(pending) :
            c.kind \in {"ADD", "DEL"} /\ c.id = i => c \in ToSet(pending')
      BY <1>2, <1>3, <1>4, <2>2
    <3> QED
      BY <1>4, <3>1, <3>2, <3>3, ReachedStill
  <2> QED
    BY <2>1, <2>2
<1> QED
  BY <1>6, <1>7, <1>8, <1>9, <1>10 DEF RInv

\* A service that Tor ended was of the identity that is told.
LEMMA ReplyDelReaches ==
  ASSUME IInv, RInv, ReplyDel
  PROVE  RInv'
<1>0. /\ Owned(pending, owner, address) /\ Latest(pending, listener)
      /\ pending \in Seq(Commands)
      /\ running \in [Onions -> 0..Elsewhere]
      /\ online \in [Identities -> BOOLEAN]
      /\ \A i \in Identities : Own(i)
  BY ReachFacts DEF IInv, TypeOK
<1>1. Replying("DEL") /\ "DEL" \in OfService
  BY DEF ReplyDel, OfService
<1>2. /\ pending # <<>> /\ Head(pending) \in Commands /\ Head(pending).kind = "DEL"
      /\ Left \in Seq(Commands) /\ IsConnected
      /\ ToSet(pending) = {Head(pending)} \cup ToSet(Left)
  BY <1>1, Answered DEF Authentication, OfService
<1>3. PICK j \in Identities, o \in Onions :
        j = Head(pending).id /\ o = Head(pending).onion
  BY <1>1, <1>2, CommandFields
<1>4. /\ running' = [running EXCEPT ![o] = NoPort]
      /\ online' = TakenOffline({j})
      /\ pending' = Left
      /\ UNCHANGED <<posted, ctl, serviceMap, listener, exists, address, owner>>
  BY <1>3 DEF ReplyDel, engineVars
<1>5. owner[o] = j
  BY <1>0, <1>2, <1>3 DEF Owned
<1>6. Owned(pending, owner, address)'
  <2>1. Owned(Left, owner, address)
    BY <1>0, <1>2, OwnedStill
  <2> QED
    BY <1>4, <2>1 DEF Owned
<1>7. Latest(pending, listener)'
  <2>1. Latest(Left, listener)
    BY <1>0, <1>2, LatestTail DEF Left
  <2> QED
    BY <1>4, <2>1 DEF Latest
<1>8. \A i \in Identities : online'[i] => online[i] /\ i # j
  BY <1>4 DEF TakenOffline
<1>9. \A i \in Identities : Own(i)'
  BY <1>0, <1>4, <1>8 DEF Own
<1>10. Blank'
  BY <1>4 DEF RInv, Blank
<1>11. OnlineIsReachable'
  <2> SUFFICES ASSUME NEW i \in Identities, IsConnected', online'[i],
                      serviceMap'[i] # NoOnion
               PROVE  Reachable(i)' \/ Underway(i)'
    BY DEF OnlineIsReachable
  <2>1. IsConnected /\ online[i] /\ i # j
    BY <1>2, <1>8
  <2>2. \A x \in Onions : owner[x] = i => owner'[x] = i /\ running'[x] = running[x]
    BY <1>0, <1>4, <1>5, <2>1
  <2>3. \A c \in ToSet(pending) :
          c.kind \in {"ADD", "DEL"} /\ c.id = i => c \in ToSet(pending')
    BY <1>2, <1>3, <1>4, <2>1
  <2> QED
    BY <1>4, <2>1, <2>2, <2>3, ReachedStill
<1> QED
  BY <1>6, <1>7, <1>9, <1>10, <1>11 DEF RInv

\* A service that was nobody's becomes j's.
LEMMA NextOnion ==
  ASSUME owner \in [Onions -> Identities \cup {Nobody}], NEW o \in Onions, IsNext(o),
         NEW j \in Identities, owner' = [owner EXCEPT ![o] = j]
  PROVE  /\ owner'[o] = j
         /\ \A x \in Onions : x # o => owner'[x] = owner[x]
         /\ \A x \in Onions, i \in Identities : owner[x] = i => owner'[x] = i /\ x # o
<1>1. owner[o] = Nobody /\ \A i \in Identities : i # Nobody
  BY IdentitiesAssumption DEF IsNext
<1> QED
  BY <1>1

\* A command to end a service that is the identity's own.
LEMMA DelAims ==
  ASSUME NEW s \in Seq(Commands), NEW own, NEW addr, NEW ports,
         Owned(s, own, addr), Latest(s, ports),
         NEW i \in Identities, NEW o \in Onions, own[o] = i
  PROVE  /\ Append(s, Del(i, o)) \in Seq(Commands)
         /\ Owned(Append(s, Del(i, o)), own, addr)
         /\ Latest(Append(s, Del(i, o)), ports)
         /\ ToSet(Append(s, Del(i, o))) = ToSet(s) \cup {Del(i, o)}
<1>1. /\ Del(i, o) \in Commands /\ Del(i, o).kind = "DEL"
      /\ Del(i, o).id = i /\ Del(i, o).onion = o
  BY CommandKinds DEF Del
<1>2. ToSet(Append(s, Del(i, o))) = ToSet(s) \cup {Del(i, o)}
  BY <1>1, ToSetAppend
<1>3. Owned(Append(s, Del(i, o)), own, addr)
  BY <1>1, <1>2 DEF Owned
<1>4. Latest(Append(s, Del(i, o)), ports)
  BY <1>1, LatestAppend
<1>5. Append(s, Del(i, o)) \in Seq(Commands)
  BY <1>1
<1> QED
  BY <1>2, <1>3, <1>4, <1>5

\* A service that Tor made replaces the one in the map, and is stopped first.
LEMMA ReplyNewReaches ==
  ASSUME IInv, RInv, ReplyNew
  PROVE  RInv'
<1>0. /\ Owned(pending, owner, address) /\ Latest(pending, listener)
      /\ pending \in Seq(Commands)
      /\ listener \in [Identities -> Ports \cup {NoPort}]
      /\ serviceMap \in [Identities -> Onions \cup {NoOnion}]
      /\ address \in [Identities -> Onions \cup {NoOnion}]
      /\ owner \in [Onions -> Identities \cup {Nobody}]
      /\ running \in [Onions -> 0..Elsewhere]
      /\ \A i \in Identities : Own(i)
  BY ReachFacts
<1>1. Replying("NEW") /\ "NEW" \in OfService
  BY DEF ReplyNew, OfService
<1>2. /\ pending # <<>> /\ Head(pending) \in Commands /\ Head(pending).kind = "NEW"
      /\ Left \in Seq(Commands) /\ IsConnected
      /\ ToSet(pending) = {Head(pending)} \cup ToSet(Left)
  BY <1>1, Answered DEF Authentication, OfService
<1>3. PICK j \in Identities : j = Head(pending).id
  BY <1>1, <1>2, CommandFields
<1>4. PICK o \in Onions :
        /\ IsNext(o)
        /\ owner' = [owner EXCEPT ![o] = j]
        /\ running' = [running EXCEPT ![o] = Elsewhere]
        /\ address' = IF exists[j] = "yes" THEN [address EXCEPT ![j] = o] ELSE address
        /\ \/ /\ Start(<<j>>, Append(Left, Del(j, o)), [address EXCEPT ![j] = o])
              /\ exists[j] = "yes"
           \/ /\ pending' = Append(Left, Del(j, o))
              /\ serviceMap' = [serviceMap EXCEPT ![j] = o]
              /\ listener' = listener
  BY <1>3 DEF ReplyNew
<1>5. UNCHANGED <<posted, ctl, exists, online>>
  BY DEF ReplyNew, engineVars
<1>6. /\ owner'[o] = j
      /\ \A x \in Onions, i \in Identities : owner[x] = i => owner'[x] = i /\ x # o
  BY <1>0, <1>4, NextOnion
<1>7. /\ address' \in [Identities -> Onions \cup {NoOnion}]
      /\ address'[j] = address[j] \/ address'[j] = o
      /\ \A i \in Identities \ {j} : address'[i] = address[i]
      /\ \A i \in Identities : address[i] # NoOnion => address'[i] # NoOnion
  <2>1. /\ [address EXCEPT ![j] = o] \in [Identities -> Onions \cup {NoOnion}]
        /\ [address EXCEPT ![j] = o][j] = o
        /\ \A i \in Identities \ {j} : [address EXCEPT ![j] = o][i] = address[i]
    BY <1>0
  <2>2. address' = address \/ address' = [address EXCEPT ![j] = o]
    BY <1>4
  <2>3. o # NoOnion
    BY DEF Onions, NoOnion
  <2> QED
    BY <1>0, <2>1, <2>2, <2>3
<1>8. Owned(Left, owner', address') /\ Latest(Left, listener)
  BY SMTT(30), <1>0, <1>2, <1>6, <1>7, OwnedStill, LatestTail DEF Left
<1>9. PICK sent \in Seq(Commands) :
        /\ sent = Append(Left, Del(j, o))
        /\ Owned(sent, owner', address') /\ Latest(sent, listener)
        /\ ToSet(sent) = ToSet(Left) \cup {Del(j, o)}
  <2>1. PICK addr, own : addr = address' /\ own = owner'
    OBVIOUS
  <2>2. Owned(Left, own, addr) /\ own[o] = j
    BY <1>6, <1>8, <2>1
  <2>3. /\ Append(Left, Del(j, o)) \in Seq(Commands)
        /\ Owned(Append(Left, Del(j, o)), own, addr)
        /\ Latest(Append(Left, Del(j, o)), listener)
        /\ ToSet(Append(Left, Del(j, o))) = ToSet(Left) \cup {Del(j, o)}
    BY <1>2, <1>8, <2>2, DelAims
  <2> QED
    BY <2>1, <2>3
<1>10. /\ Owned(pending', owner', address') /\ Latest(pending', listener')
       /\ ToSet(sent) \subseteq ToSet(pending')
       /\ serviceMap'[j] = o
       /\ \A i \in Identities \ {j} :
            serviceMap'[i] = serviceMap[i] /\ listener'[i] = listener[i]
  <2>1. CASE /\ Start(<<j>>, Append(Left, Del(j, o)), [address EXCEPT ![j] = o])
             /\ exists[j] = "yes"
    <3>1. <<j>> \in Seq(Identities) /\ ToSet(<<j>>) = {j}
      BY DEF ToSet
    <3>2. PICK order \in Seq(Identities) : order = <<j>> /\ ToSet(order) = {j}
      BY <3>1
    <3>3. PICK addr, own : addr = address' /\ own = owner'
      OBVIOUS
    <3>4. address' = [address EXCEPT ![j] = o] /\ address'[j] = o
      BY <1>0, <1>4, <2>1
    <3>5. Start(order, sent, addr)
      BY <1>9, <2>1, <3>2, <3>3, <3>4
    <3>6. Owned(sent, own, addr) /\ \A i \in ToSet(order) : addr[i] \in Onions /\ own[addr[i]] = i
      BY <1>6, <1>9, <3>2, <3>3, <3>4
    <3>66. Latest(sent, listener) /\ listener \in [Identities -> Ports \cup {NoPort}]
      BY <1>0, <1>9
    <3>7. /\ Owned(pending', own, addr) /\ Latest(pending', listener')
          /\ ToSet(sent) \subseteq ToSet(pending')
          /\ \A i \in ToSet(order) :
               /\ serviceMap'[i] = addr[i]
               /\ \E c \in ToSet(pending') : c.kind = "ADD" /\ c.id = i
          /\ \A i \in Identities \ ToSet(order) :
               serviceMap'[i] = serviceMap[i] /\ listener'[i] = listener[i]
      BY <3>5, <3>6, <3>66, StartAims
    <3> QED
      BY <3>2, <3>3, <3>4, <3>7
  <2>2. CASE /\ pending' = Append(Left, Del(j, o))
             /\ serviceMap' = [serviceMap EXCEPT ![j] = o]
             /\ listener' = listener
    BY <1>0, <1>9, <2>2
  <2> QED
    BY <1>4, <2>1, <2>2
<1>11. Owned(pending, owner, address)' /\ Latest(pending, listener)'
  BY <1>10 DEF Owned, Latest
<1>12. \A i \in Identities : Own(i)'
  <2>1. \A i \in Identities : online'[i] = online[i] /\ exists'[i] = exists[i]
    BY <1>5
  <2>2. Own(j)'
    <3>1. address'[j] # NoOnion => owner'[address'[j]] = j
      <4>1. address[j] \in Onions => owner'[address[j]] = j
        BY <1>0, <1>6 DEF Own, Onions, NoOnion
      <4> QED
        BY <1>0, <1>6, <1>7, <4>1
    <3>2. online'[j] => exists'[j] = "yes" /\ address'[j] # NoOnion
      BY <1>0, <1>7, <2>1, Zenon DEF Own
    <3> QED
      BY <1>6, <1>10, <3>1, <3>2 DEF Own
  <2>3. \A i \in Identities \ {j} : Own(i)'
    BY <1>0, <1>6, <1>7, <1>10, <2>1 DEF Own
  <2> QED
    BY <2>2, <2>3
<1>13. Blank'
  BY <1>2, <1>5 DEF Blank, IsConnected
<1>14. OnlineIsReachable'
  <2> SUFFICES ASSUME NEW i \in Identities, IsConnected', online'[i],
                      serviceMap'[i] # NoOnion
               PROVE  Reachable(i)' \/ Underway(i)'
    BY DEF OnlineIsReachable
  <2>1. CASE i = j
    <3>1. Del(j, o) \in ToSet(pending') /\ Del(j, o).kind = "DEL" /\ Del(j, o).id = j
      BY <1>9, <1>10 DEF Del
    <3>2. \E c \in ToSet(pending') : c.kind = "DEL" /\ c.id = j
      BY <3>1
    <3> QED
      BY <2>1, <3>2 DEF Underway, ToSet
  <2>2. CASE i # j
    <3>1. \A x \in Onions : owner[x] = i => owner'[x] = i /\ running'[x] = running[x]
      BY <1>0, <1>4, <1>6
    <3>2. \A c \in ToSet(pending) :
            c.kind \in {"ADD", "DEL"} /\ c.id = i => c \in ToSet(pending')
      BY <1>2, <1>9, <1>10
    <3>3. serviceMap'[i] = serviceMap[i] /\ listener'[i] = listener[i]
      BY <1>10, <2>2
    <3> QED
      BY <1>2, <1>5, <3>1, <3>2, <3>3, ReachedStill
  <2> QED
    BY <2>1, <2>2
<1> QED
  BY <1>11, <1>12, <1>13, <1>14 DEF RInv

\* Services that are started, after a number of requests.
LEMMA StartReaches ==
  ASSUME IInv, RInv, IsConnected,
         UNCHANGED <<ctl, running, owner, address, exists, online>>,
         NEW news \in Seq(Commands), \A c \in ToSet(news) : c.kind = "NEW",
         NEW order \in Seq(Identities), \A i \in ToSet(order) : address[i] # NoOnion,
         Start(order, pending \o news, address),
         \A i \in Identities :
           HandleError(i) \in ToSet(posted) => HandleError(i) \in ToSet(posted')
  PROVE  RInv'
<1>0. /\ Owned(pending, owner, address) /\ Latest(pending, listener)
      /\ pending \in Seq(Commands)
      /\ listener \in [Identities -> Ports \cup {NoPort}]
      /\ address \in [Identities -> Onions \cup {NoOnion}]
      /\ \A i \in Identities : Own(i)
  BY ReachFacts
<1>1. Latest(news, listener)
  BY DEF Latest, ToSet
<1>2. Latest(pending \o news, listener)
  BY <1>0, <1>1, LatestConcat
<1>3. PICK sent \in Seq(Commands) :
        /\ sent = pending \o news /\ Latest(sent, listener)
        /\ ToSet(sent) = ToSet(pending) \cup ToSet(news)
  BY ZenonT(40), <1>0, <1>2, ToSetConcat
<1>4. Owned(sent, owner, address)
  BY <1>0, <1>3 DEF Owned
<1>5. ToSet(order) \subseteq Identities
  BY InToSet
<1>6. \A i \in ToSet(order) : address[i] \in Onions /\ owner[address[i]] = i
  BY <1>0, <1>5 DEF Own
<1>66. Start(order, sent, address)
  BY <1>3
<1>67. Latest(sent, listener) /\ listener \in [Identities -> Ports \cup {NoPort}]
  BY <1>0, <1>3
<1>7. /\ Owned(pending', owner, address) /\ Latest(pending', listener')
      /\ ToSet(sent) \subseteq ToSet(pending')
      /\ \A i \in ToSet(order) :
           /\ serviceMap'[i] = address[i]
           /\ \E c \in ToSet(pending') : c.kind = "ADD" /\ c.id = i
      /\ \A i \in Identities \ ToSet(order) :
           serviceMap'[i] = serviceMap[i] /\ listener'[i] = listener[i]
  BY <1>4, <1>6, <1>66, <1>67, StartAims
<1>8. Owned(pending, owner, address)' /\ Latest(pending, listener)'
  BY <1>7 DEF Owned, Latest
<1>9. \A i \in Identities : Own(i)'
  BY <1>0, <1>6, <1>7 DEF Own
<1>10. Blank'
  BY DEF Blank, IsConnected
<1>11. OnlineIsReachable'
  <2> SUFFICES ASSUME NEW i \in Identities, IsConnected', online'[i],
                      serviceMap'[i] # NoOnion
               PROVE  Reachable(i)' \/ Underway(i)'
    BY DEF OnlineIsReachable
  <2>1. CASE i \in ToSet(order)
    <3>1. \E c \in ToSet(pending') : c.kind = "ADD" /\ c.id = i
      BY <1>7, <2>1
    <3> QED
      BY <3>1 DEF Underway, ToSet
  <2>2. CASE i \notin ToSet(order)
    <3>1. serviceMap'[i] = serviceMap[i] /\ listener'[i] = listener[i]
      BY <1>7, <2>2
    <3>2. \A c \in ToSet(pending) : c \in ToSet(pending')
      BY <1>3, <1>7
    <3> QED
      BY <3>1, <3>2, ReachedStill
  <2> QED
    BY <2>1, <2>2
<1> QED
  BY <1>8, <1>9, <1>10, <1>11 DEF RInv

\* A service told to stop: the command names one of the identity's own.
LEMMA StopAims ==
  ASSUME IInv, RInv, NEW i \in Identities, Stop(i)
  PROVE  /\ Owned(pending', owner, address) /\ Latest(pending', listener)
         /\ ToSet(pending) \subseteq ToSet(pending')
         /\ \A j \in Identities : online'[j] => online[j]
         /\ serviceMap[i] # NoOnion /\ online'[i] => Underway(i)'
<1>0. /\ Owned(pending, owner, address) /\ Latest(pending, listener)
      /\ pending \in Seq(Commands)
      /\ serviceMap \in [Identities -> Onions \cup {NoOnion}]
      /\ Own(i)
  BY ReachFacts
<1>1. CASE serviceMap[i] = NoOnion
  <2>1. online' = TakenOffline({i}) /\ pending' = pending
    BY <1>1 DEF Stop
  <2>2. \A j \in Identities : online'[j] => online[j]
    BY <2>1 DEF TakenOffline
  <2> QED
    BY <1>0, <1>1, <2>1, <2>2
<1>2. CASE serviceMap[i] # NoOnion
  <2>1. PICK o \in Onions : o = serviceMap[i] /\ owner[o] = i
    BY <1>0, <1>2 DEF Own
  <2>2. pending' = Append(pending, Del(i, o)) /\ online' = online
    BY <1>2, <2>1 DEF Stop
  <2>3. /\ Owned(pending', owner, address) /\ Latest(pending', listener)
        /\ ToSet(pending') = ToSet(pending) \cup {Del(i, o)}
    BY <1>0, <2>1, <2>2, DelAims
  <2>4. \E c \in ToSet(pending') : c.kind \in {"ADD", "DEL"} /\ c.id = i
    <3>1. Del(i, o).kind = "DEL" /\ Del(i, o).id = i
      BY DEF Del
    <3> QED
      BY <2>3, <3>1
  <2>5. Underway(i)'
    BY <2>4 DEF Underway, ToSet
  <2> QED
    BY <2>2, <2>3, <2>5
<1> QED
  BY <1>1, <1>2

\* A service asked for concerns none that there is.
LEMMA NewAims ==
  ASSUME IInv, RInv, NEW i \in Identities,
         pending' = pending \/ pending' = Append(pending, New(i))
  PROVE  /\ Owned(pending', owner, address) /\ Latest(pending', listener)
         /\ ToSet(pending) \subseteq ToSet(pending')
<1>0. /\ Owned(pending, owner, address) /\ Latest(pending, listener)
      /\ pending \in Seq(Commands)
  BY ReachFacts
<1>1. CASE pending' = pending
  BY <1>0, <1>1
<1>2. CASE pending' = Append(pending, New(i))
  <2>1. New(i) \in Commands /\ New(i).kind = "NEW"
    BY CommandKinds
  <2>2. ToSet(pending') = ToSet(pending) \cup {New(i)}
    BY <1>0, <1>2, <2>1, ToSetAppend
  <2>3. Owned(pending', owner, address)
    BY <1>0, <2>1, <2>2 DEF Owned
  <2>4. Latest(pending', listener)
    BY <1>0, <1>2, <2>1, LatestAppend
  <2> QED
    BY <2>2, <2>3, <2>4
<1> QED
  BY <1>1, <1>2

\* online() starts services only while it is connected.
LEMMA OnOnlineReaches ==
  ASSUME IInv, RInv, OnOnline
  PROVE  RInv'
<1>1. Handling("Online")
  BY DEF OnOnline
<1>2. /\ ToSet(posted) = {Head(posted)} \cup ToSet(posted')
      /\ Head(posted) \in Events /\ Head(posted).kind = "Online"
  BY <1>1, Handled
<1>3. \A i \in Identities : HandleError(i) \in ToSet(posted) => HandleError(i) \in ToSet(posted')
  BY <1>2 DEF HandleError
<1>4. UNCHANGED <<ctl, running, owner, address, exists, online>>
  BY DEF OnOnline, ctlVars, identityVars, torVars
<1>5. CASE IsConnected
  <2>1. PICK order \in SetToSeqs(Startable) :
          Start(order,
                pending \o [k \in DOMAIN whenOnline |-> New(whenOnline[k])],
                address)
    BY <1>5 DEF OnOnline
  <2>2. PICK news : news = [k \in DOMAIN whenOnline |-> New(whenOnline[k])]
    OBVIOUS
  <2>3. news \in Seq(Commands) /\ \A c \in ToSet(news) : c.kind = "NEW"
    <3>1. whenOnline \in Seq(Identities)
      BY ReachFacts
    <3>2. DOMAIN whenOnline = 1..Len(whenOnline) /\ Len(whenOnline) \in Nat
      BY <3>1
    <3>3. \A k \in DOMAIN whenOnline :
            news[k] \in Commands /\ news[k].kind = "NEW"
      BY <2>2, <3>1, <3>2, CommandKinds
    <3>4. news \in [1..Len(whenOnline) -> Commands]
      BY <2>2, <3>2, <3>3
    <3>5. news \in Seq(Commands)
      BY <3>2, <3>4
    <3>6. DOMAIN news = DOMAIN whenOnline
      BY <2>2
    <3> QED
      BY <3>3, <3>5, <3>6 DEF ToSet
  <2>4. order \in Seq(Identities) /\ \A i \in ToSet(order) : address[i] # NoOnion
    BY OrderOfStartable DEF Startable
  <2>5. Start(order, pending \o news, address)
    BY <2>1, <2>2
  <2> QED
    BY <1>3, <1>4, <1>5, <2>3, <2>4, <2>5, StartReaches
<1>6. CASE ~IsConnected
  <2>1. UNCHANGED <<pending, serviceMap, listener>>
    BY <1>6 DEF OnOnline, ctlVars
  <2>2. \A i \in Identities : Own(i)' /\ (IsConnected => Kept(i))
    BY <1>4, <1>6, <2>1 DEF RInv, Own
  <2>3. Owned(pending', owner', address') /\ Latest(pending', listener)
    BY <1>4, <2>1 DEF RInv, Owned, Latest
  <2>4. IsConnected' = IsConnected
    BY <1>4 DEF IsConnected
  <2> QED
    BY <1>4, <1>6, <2>1, <2>2, <2>3, <2>4, QuietReaches
<1> QED
  BY <1>5, <1>6

\* The error of an identity that is online ends its service, or finds that the
\* controller knows of none.
LEMMA OnErrorReaches ==
  ASSUME IInv, RInv, OnErrorStops \/ OnErrorRetries
  PROVE  RInv'
<1>1. Handling("HandleError")
  BY DEF OnErrorStops, OnErrorRetries
<1>2. PICK j \in Identities : j = Head(posted).id /\ Head(posted) = HandleError(j)
  BY <1>1, Handled, EventKinds
<1>3. \A i \in Identities \ {j} :
        HandleError(i) \in ToSet(posted) => HandleError(i) \in ToSet(posted')
  <2>1. ToSet(posted) = {Head(posted)} \cup ToSet(posted')
    BY <1>1, Handled
  <2> QED
    BY <1>2, <2>1 DEF HandleError
<1>4. UNCHANGED <<ctl, serviceMap, listener, exists, address, running, owner>>
  BY DEF OnErrorStops, OnErrorRetries, identityVars, torVars
<1>5. IsConnected' = IsConnected
  BY <1>4 DEF IsConnected
<1>6. \A i \in Identities : Own(i)
  BY ReachFacts
<1>7. /\ Owned(pending', owner, address) /\ Latest(pending', listener)
      /\ ToSet(pending) \subseteq ToSet(pending')
      /\ \A i \in Identities : online'[i] => online[i]
      /\ online'[j] /\ serviceMap[j] # NoOnion => Underway(j)'
  <2>1. CASE Stop(j)
    BY <2>1, StopAims
  <2>2. CASE ~Stop(j) /\ OnErrorStops
    <3>1. pending' = pending /\ online' = online /\ ~online[j]
      BY <1>2, <2>2 DEF OnErrorStops
    <3> QED
      BY <3>1, ReachFacts
  <2>3. CASE OnErrorRetries
    <3>1. (exists[j] # "yes" \/ address[j] = NoOnion) /\ MakeTransport(j) /\ online' = online
      BY <1>2, <2>3 DEF OnErrorRetries, identityVars
    <3>2. ~online[j]
      BY <1>6, <3>1 DEF Own
    <3>3. pending' = pending \/ pending' = Append(pending, New(j))
      BY <3>1 DEF MakeTransport
    <3> QED
      BY <3>1, <3>2, <3>3, NewAims
  <2> QED
    BY <2>1, <2>2, <2>3
<1>8. \A i \in Identities : Own(i)'
  BY <1>4, <1>6, <1>7 DEF Own
<1>9. \A i \in Identities \ {j} : Kept(i)
  BY <1>3, <1>7 DEF Kept
<1>10. Owned(pending', owner', address')
  BY <1>4, <1>7
<1> QED
  BY <1>4, <1>5, <1>7, <1>8, <1>9, <1>10, QuietReaches

\* What the user does.
LEMMA CreateReaches ==
  ASSUME IInv, RInv, NEW i \in Identities, CreateIdentity(i)
  PROVE  RInv'
<1>1. /\ exists[i] = "not yet" /\ exists' = [exists EXCEPT ![i] = "yes"]
      /\ MakeTransport(i)
      /\ UNCHANGED <<posted, ctl, serviceMap, listener, address, online, running, owner>>
  BY DEF CreateIdentity, torVars
<1>2. pending' = pending \/ pending' = Append(pending, New(i))
  BY <1>1 DEF MakeTransport
<1>3. /\ Owned(pending', owner', address') /\ Latest(pending', listener)
      /\ ToSet(pending) \subseteq ToSet(pending')
  BY <1>1, <1>2, NewAims
<1>4. \A j \in Identities : Own(j)'
  <2>1. exists \in [Identities -> {"not yet", "yes", "removed"}] /\ \A j \in Identities : Own(j)
    BY ReachFacts DEF IInv, TypeOK
  <2>2. \A j \in Identities : exists[j] = "yes" => exists'[j] = "yes"
    BY <1>1, <2>1
  <2> QED
    BY <1>1, <2>1, <2>2 DEF Own
<1>5. \A j \in Identities : Kept(j)
  BY <1>1, <1>3 DEF Kept
<1>6. IsConnected' = IsConnected
  BY <1>1 DEF IsConnected
<1> QED
  BY <1>1, <1>3, <1>4, <1>5, <1>6, QuietReaches

\* An identity that is removed goes offline.
LEMMA RowsReach ==
  ASSUME IInv, RInv, NEW i \in Identities, RemoveIdentity(i) \/ SetAutoConnect(i)
  PROVE  RInv'
<1>0. /\ exists \in [Identities -> {"not yet", "yes", "removed"}]
      /\ online \in [Identities -> BOOLEAN]
      /\ \A j \in Identities : Own(j)
  BY ReachFacts DEF IInv, TypeOK
<1>1. /\ UNCHANGED <<posted, ctl, pending, serviceMap, listener, address, running, owner>>
      /\ \/ exists' = exists /\ online' = online
         \/ /\ exists' = [exists EXCEPT ![i] = "removed"]
            /\ online' = [online EXCEPT ![i] = FALSE]
  BY DEF RemoveIdentity, SetAutoConnect, engineVars, ctlVars, torVars
<1>2. \A j \in Identities : online'[j] => online[j] /\ exists'[j] = exists[j]
  BY <1>0, <1>1
<1>3. \A j \in Identities : Own(j)' /\ Kept(j)
  BY <1>0, <1>1, <1>2 DEF Own, Kept
<1>4. Owned(pending', owner', address') /\ Latest(pending', listener)
  BY <1>1 DEF RInv, Owned, Latest
<1>5. IsConnected' = IsConnected
  BY <1>1 DEF IsConnected
<1> QED
  BY <1>1, <1>2, <1>3, <1>4, <1>5, QuietReaches

\* One service is started.
LEMMA StartServiceReaches ==
  ASSUME IInv, RInv, NEW i \in Identities, StartService(i)
  PROVE  RInv'
<1>1. /\ IsOnline /\ address[i] # NoOnion
      /\ Start(<<i>>, pending, address)
      /\ UNCHANGED <<posted, ctl, running, owner, address, exists, online>>
  BY DEF StartService, engineVars, identityVars, torVars
<1>2. IsConnected /\ pending \in Seq(Commands)
  BY <1>1 DEF IInv, TypeOK, LayersAgree, IsOnline
<1>3. PICK order \in Seq(Identities) : order = <<i>> /\ ToSet(order) = {i}
  <2>1. <<i>> \in Seq(Identities) /\ ToSet(<<i>>) = {i}
    BY DEF ToSet
  <2> QED
    BY <2>1
<1>4. PICK news \in Seq(Commands) : news = <<>> /\ pending \o news = pending
  <2>1. <<>> \in Seq(Commands) /\ pending \o <<>> = pending
    BY <1>2
  <2> QED
    BY <2>1
<1>5. ToSet(news) = {}
  BY <1>4, ToSetEmpty
<1>6. Start(order, pending \o news, address)
  BY <1>1, <1>3, <1>4
<1> QED
  BY <1>1, <1>2, <1>3, <1>5, <1>6, StartReaches

\* A service is stopped, asked for or imported.
LEMMA RequestReaches ==
  ASSUME IInv, RInv, NEW i \in Identities,
         StopService(i) \/ ChangeTransport(i) \/ SetNewTorService(i)
  PROVE  RInv'
<1>0. /\ address \in [Identities -> Onions \cup {NoOnion}]
      /\ owner \in [Onions -> Identities \cup {Nobody}]
      /\ pending \in Seq(Commands)
      /\ \A j \in Identities : Own(j)
  BY ReachFacts
<1>1. CASE Ended
  BY <1>1, EndedReaches
<1>2. CASE ~Ended
  <2>1. UNCHANGED <<posted, ctl, serviceMap, listener, exists, running>>
    BY <1>2 DEF StopService, ChangeTransport, SetNewTorService, engineVars,
                identityVars, torVars
  <2>2. \/ Stop(i)
        \/ /\ online' = online
           /\ pending' = pending \/ pending' = Append(pending, New(i))
    BY <1>2 DEF StopService, ChangeTransport, SetNewTorService, identityVars
  <2>3. /\ Owned(pending', owner, address) /\ Latest(pending', listener)
        /\ ToSet(pending) \subseteq ToSet(pending')
        /\ \A j \in Identities : online'[j] => online[j]
    <3>1. CASE Stop(i)
      BY <3>1, StopAims
    <3>2. CASE ~Stop(i)
      BY <2>2, <3>2, NewAims
    <3> QED
      BY <3>1, <3>2
  <2>4. \/ owner' = owner /\ address' = address
        \/ \E o \in Onions : /\ IsNext(o)
                             /\ owner' = [owner EXCEPT ![o] = i]
                             /\ address' = [address EXCEPT ![i] = o]
    BY <1>2 DEF StopService, ChangeTransport, SetNewTorService, identityVars, torVars
  <2>5. /\ \A x \in Onions, j \in Identities : owner[x] = j => owner'[x] = j
        /\ \A j \in Identities : address[j] # NoOnion => address'[j] # NoOnion
        /\ \A j \in Identities : address'[j] # NoOnion => owner'[address'[j]] = j
    <3>1. CASE owner' = owner /\ address' = address
      BY <1>0, <3>1 DEF Own
    <3>2. ASSUME NEW o \in Onions, IsNext(o), owner' = [owner EXCEPT ![o] = i],
                 address' = [address EXCEPT ![i] = o]
          PROVE  /\ \A x \in Onions, j \in Identities : owner[x] = j => owner'[x] = j
                 /\ \A j \in Identities : address[j] # NoOnion => address'[j] # NoOnion
                 /\ \A j \in Identities : address'[j] # NoOnion => owner'[address'[j]] = j
      <4>1. /\ owner'[o] = i
            /\ \A x \in Onions, j \in Identities : owner[x] = j => owner'[x] = j
        BY <1>0, <3>2, NextOnion
      <4>2. address'[i] = o /\ \A j \in Identities \ {i} : address'[j] = address[j]
        BY <1>0, <3>2
      <4>3. o # NoOnion
        BY DEF Onions, NoOnion
      <4>4. \A j \in Identities \ {i} : address[j] # NoOnion => owner'[address[j]] = j
        BY <1>0, <4>1 DEF Own
      <4> QED
        BY <4>1, <4>2, <4>3, <4>4
    <3> QED
      BY <2>4, <3>1, <3>2
  <2>6. Owned(pending', owner', address')
    <3>1. PICK t : t = pending'
      OBVIOUS
    <3>2. t \in Seq(Commands)
      <4>1. Stop(i) => pending' = pending \/ \E o \in Onions : pending' = Append(pending, Del(i, o))
        BY ReachFacts DEF Stop
      <4> QED
        BY SMTT(30), <1>0, <2>2, <3>1, <4>1, CommandKinds
    <3>3. Owned(t, owner, address)
      BY <2>3, <3>1
    <3>4. Owned(t, owner', address')
      BY <2>5, <3>2, <3>3, OwnedStill
    <3> QED
      BY <3>1, <3>4
  <2>7. \A j \in Identities : Own(j)'
    <3> SUFFICES ASSUME NEW j \in Identities
                 PROVE  Own(j)'
      OBVIOUS
    <3>1. serviceMap[j] # NoOnion => owner'[serviceMap[j]] = j
      <4>1. serviceMap[j] # NoOnion => serviceMap[j] \in Onions
        BY ReachFacts
      <4> QED
        BY <1>0, <2>5, <4>1 DEF Own
    <3>2. online'[j] => exists[j] = "yes" /\ address'[j] # NoOnion
      BY <1>0, <2>3, <2>5 DEF Own
    <3> QED
      BY <2>1, <2>5, <3>1, <3>2 DEF Own
  <2>8. \A j \in Identities : Kept(j)
    BY <2>1, <2>3 DEF Kept
  <2>9. IsConnected' = IsConnected
    BY <2>1 DEF IsConnected
  <2> QED
    BY <2>1, <2>3, <2>5, <2>6, <2>7, <2>8, <2>9, QuietReaches
<1> QED
  BY <1>1, <1>2

(***************************************************************************)
(* The invariant, and the theorem.                                         *)
(***************************************************************************)

\* No command, no service, nobody online.
LEMMA InitReaches == Init => RInv
<1> SUFFICES ASSUME Init
             PROVE  RInv
  OBVIOUS
<1>1. /\ pending = <<>> /\ ctl = "DISCONNECTED"
      /\ serviceMap = NoneOf(NoOnion) /\ address = NoneOf(NoOnion)
      /\ online = NoneOf(FALSE)
  BY DEF Init
<1>2. Owned(pending, owner, address) /\ Latest(pending, listener)
  BY <1>1, ToSetEmpty DEF Owned, Latest
<1>3. \A i \in Identities : Own(i)
  BY <1>1 DEF Own, NoneOf
<1>4. Blank
  BY <1>1 DEF Blank
<1>5. OnlineIsReachable
  BY <1>1 DEF OnlineIsReachable, NoneOf
<1> QED
  BY <1>2, <1>3, <1>4, <1>5 DEF RInv

\* Every step keeps what is online reached.
LEMMA StepReaches == IInv /\ RInv /\ [Next]_vars => RInv'
<1> SUFFICES ASSUME IInv, RInv, [Next]_vars
             PROVE  RInv'
  OBVIOUS
<1>0. IInv'
  BY StepKeeps
<1>1. CASE GoOnline \/ StartAuth \/ GoOffline
  BY <1>1, ConnectionReaches
<1>2. CASE Lose \/ Quit
  BY <1>2, ClearedReaches, EndedReaches DEF Lose, Quit
<1>3. CASE Bootstrap \/ Restart \/ Poll \/ UNCHANGED vars
  <2>1. UNCHANGED <<ctl, pending, serviceMap, listener, running, owner, address, exists,
                    posted, online>>
    BY <1>3 DEF Bootstrap, Restart, Poll, vars, engineVars, ctlVars, identityVars, torVars
  <2> QED
    BY <2>1, EnvironmentReaches
<1>4. CASE Reply
  BY <1>0, <1>4, AuthenticationReaches, OtherRepliesReach, ReplyNewReaches,
     FailsReaches, ReplyAddReaches, ReplyDelReaches, ClearedReaches, EndedReaches
  DEF Reply, ReplyCloses
<1>5. CASE HandlePosted
  BY <1>5, OnOnlineReaches, OnErrorReaches, EndedReaches
  DEF HandlePosted, OnOnlineFails, OnErrorFails
<1>6. CASE \E i \in Identities :
             \/ CreateIdentity(i) \/ RemoveIdentity(i) \/ SetAutoConnect(i)
             \/ StartService(i) \/ StopService(i)
             \/ ChangeTransport(i) \/ SetNewTorService(i)
  BY <1>6, CreateReaches, RowsReach, StartServiceReaches, RequestReaches
<1> QED
  BY <1>1, <1>2, <1>3, <1>4, <1>5, <1>6 DEF Next

\* An identity shown as online, whose service the controller knows, is reached
\* through a service of its own at the port it listens on, or the command or the
\* error that corrects that is on its way: whatever the user starts, stops,
\* replaces and imports, and whatever Tor refuses.
THEOREM OnlineIsReached == Spec => []OnlineIsReachable
<1>1. Init => IInv /\ RInv
  BY InitInvariant, InitReaches
<1>2. IInv /\ RInv /\ [Next]_vars => IInv' /\ RInv'
  BY StepKeeps, StepReaches
<1>3. RInv => OnlineIsReachable
  BY DEF RInv
<1> QED
  BY <1>1, <1>2, <1>3, PTL DEF Spec
=============================================================================
