---------------------------- MODULE ServicesProofs ----------------------------
(* Theorems about the service manager, for any services with any lists of   *)
(* ports.                                                                  *)
EXTENDS Services, TLAPS

-----------------------------------------------------------------------------
(* Services have ports of their own, and definitions that change have no    *)
(* ICMP in them.                                                           *)
Apart ==
  /\ \A s, t \in Services : s # t => Own(s) \intersect Own(t) = {}
  /\ "new_ports" \in Hazards => \A s \in Services : ICMP \notin Own(s)

Calls == {"data_ready", "service_restart", "data_lost", "close_old", "manage_ports", "save_lost"}

TypeOK ==
  /\ charm \in SUBSET Hazards
  /\ avail \in SUBSET Services /\ ready \in SUBSET Services /\ running \in SUBSET Services
  /\ configured \in SUBSET Services
  /\ ports = [s \in Services |-> ports[s]] /\ portFile = [s \in Services |-> portFile[s]]
  /\ \A s \in Services : ports[s] \in PortLists[s] /\ portFile[s] \in PortLists[s] \union {<< >>}
  /\ opened \subseteq UNION {Own(s) : s \in Services}
  /\ pending \subseteq UNION {Own(s) : s \in Services}
  /\ phase \in {"idle", "managing", "failed"}
  /\ hook \in {"stop", "other"}
  /\ todo \in Seq(Services) /\ IsInjective(todo)
  /\ phase # "managing" => todo = << >> /\ pending = opened
  /\ todo # << >> => call \in Calls /\ left \in Seq(Own(Head(todo)))

Converging == charm # {"failure", "new_ports"}
Open(s) == pending \intersect Own(s)

(* What is open, or will be, is on file; only a definition that changes    *)
(* leaves another list there.                                              *)
Filed(s) ==
  /\ Open(s) \subseteq ToSet(portFile[s])
  /\ "failure" \in charm => opened \intersect Own(s) \subseteq ToSet(portFile[s])
  /\ "new_ports" \notin charm => portFile[s] \in {<< >>, ports[s]}

(* A service that manage() is through with is as its data says.            *)
Settled(s) ==
  /\ s \in running <=> Starts(s)
  /\ Open(s) = IF Starts(s) THEN ToSet(ports[s]) ELSE {}
  /\ "failure" \notin charm /\ hook = "other" /\ s \in configured => s \in avail

(* What has been done for the service that manage() is at.                 *)
Halfway(s) ==
  /\ call \in {"data_ready", "service_restart"} => Starts(s)
  /\ call \in {"data_lost", "save_lost"} => ~Starts(s) /\ hook = "other"
  /\ call \in {"data_ready", "service_restart", "data_lost"} => left = portFile[s]
  /\ call \in {"close_old", "manage_ports"} /\ Starts(s) => s \in running
  /\ call = "close_old" =>
       /\ ToSet(left) \subseteq ToSet(portFile[s])
       /\ Open(s) \subseteq ToSet(ports[s]) \union ToSet(left)
  /\ call = "manage_ports" =>
       /\ portFile[s] = ports[s] /\ ToSet(left) \subseteq ToSet(ports[s])
       /\ IF Starts(s) THEN ToSet(ports[s]) \subseteq Open(s) \union ToSet(left)
          ELSE Open(s) \subseteq ToSet(left)
  /\ call = "save_lost" => s \notin running /\ Open(s) = {}
  /\ "failure" \notin charm /\ hook = "other" /\ ~Starts(s)
       /\ call \in {"close_old", "manage_ports", "save_lost"} => s \notin configured

(* Without failures a service that was told its data is ready is in the    *)
(* ready file, or it is the one that manage() is at.                       *)
Told(s) ==
  "failure" \notin charm /\ s \in configured => s \in ready \/ (todo # << >> /\ s = Head(todo) /\ Starts(s))

IInv ==
  /\ TypeOK
  /\ Converging =>
       /\ \A s \in Services : Filed(s) /\ Told(s)
       /\ phase = "managing" => \A s \in Services \ ToSet(todo) : Settled(s)
       /\ todo # << >> => Halfway(Head(todo))

-----------------------------------------------------------------------------
LEMMA ListTypes ==
  \A s \in Services : PortLists[s] \subseteq Seq(Own(s)) /\ \A list \in PortLists[s] : ToSet(list) \subseteq Own(s)
BY PortListsAssumption DEF Own

LEMMA TailOf ==
  ASSUME NEW S, NEW list \in Seq(S), list # << >>
  PROVE  /\ Head(list) \in S /\ Tail(list) \in Seq(S)
         /\ ToSet(list) = ToSet(Tail(list)) \union {Head(list)}
         /\ IsInjective(list) => IsInjective(Tail(list)) /\ Head(list) \notin ToSet(Tail(list))
<1>1. /\ Len(list) \in Nat \ {0} /\ Head(list) = list[1] /\ Tail(list) \in Seq(S)
      /\ DOMAIN list = 1..Len(list) /\ DOMAIN Tail(list) = 1..(Len(list) - 1)
      /\ \A i \in 1..(Len(list) - 1) : Tail(list)[i] = list[i + 1]
  OBVIOUS
<1>2. list[1] \in S
  BY <1>1
<1>3. \A x : x \in ToSet(list) <=> x \in ToSet(Tail(list)) \union {Head(list)}
  <2>1. ASSUME NEW i \in 1..Len(list) PROVE list[i] \in ToSet(Tail(list)) \union {Head(list)}
    <3>1. CASE i = 1
      BY <1>1, <3>1
    <3>2. CASE i # 1
      <4>1. i - 1 \in 1..(Len(list) - 1) /\ (i - 1) + 1 = i
        BY <1>1, <3>2
      <4>2. Tail(list)[i - 1] = list[i]
        BY <1>1, <4>1
      <4> QED  BY <1>1, <4>1, <4>2 DEF ToSet
    <3> QED  BY <3>1, <3>2
  <2>2. ASSUME NEW i \in 1..(Len(list) - 1) PROVE Tail(list)[i] \in ToSet(list)
    <3>1. i + 1 \in 1..Len(list)
      BY <1>1
    <3> QED  BY <1>1, <3>1 DEF ToSet
  <2>3. Head(list) \in ToSet(list)
    BY <1>1 DEF ToSet
  <2> QED  BY <1>1, <2>1, <2>2, <2>3 DEF ToSet
<1>4. ASSUME IsInjective(list) PROVE IsInjective(Tail(list)) /\ Head(list) \notin ToSet(Tail(list))
  <2>1. \A i, j \in 1..Len(list) : list[i] = list[j] => i = j
    BY <1>1, <1>4 DEF IsInjective
  <2>2. \A i \in 1..(Len(list) - 1) : i + 1 \in 1..Len(list) /\ i + 1 # 1 /\ 1 \in 1..Len(list)
    BY <1>1
  <2>3. IsInjective(Tail(list))
    <3> SUFFICES ASSUME NEW i \in 1..(Len(list) - 1), NEW j \in 1..(Len(list) - 1), Tail(list)[i] = Tail(list)[j]
                 PROVE  i = j
      BY <1>1 DEF IsInjective
    <3>1. i + 1 = j + 1
      BY <1>1, <2>1, <2>2
    <3> QED  BY <3>1
  <2>4. Head(list) \notin ToSet(Tail(list))
    BY <1>1, <2>1, <2>2 DEF ToSet
  <2> QED  BY <2>3, <2>4
<1> QED  BY <1>1, <1>2, <1>3, <1>4

LEMMA EmptyList == ToSet(<< >>) = {} /\ \A S : << >> \in Seq(S)
BY DEF ToSet

LEMMA OrderType == Order \in Seq(Services) /\ IsInjective(Order) /\ ToSet(Order) = Services
BY OrderAssumption DEF Services

LEMMA InvInit == Init => IInv
BY EmptyList DEF Init, IInv, TypeOK, Filed, Told, Open, IsInjective

-----------------------------------------------------------------------------
(* A step for one service changes nothing of the others.                   *)
Others(s) ==
  \A t \in Services \ {s} :
    /\ (t \in running') = (t \in running) /\ (t \in configured') = (t \in configured)
    /\ (t \in ready') = (t \in ready)
    /\ portFile'[t] = portFile[t] /\ Open(t)' = Open(t)

At1(s) == s \in Services /\ phase = "managing" /\ todo # << >> /\ s = Head(todo) /\ GivenUnchanged

LEMMA OthersKept ==
  ASSUME NEW s \in Services, At1(s), Others(s), NEW t \in Services \ {s}
  PROVE  /\ Filed(t) => Filed(t)'
         /\ Settled(t) => Settled(t)'
         /\ Told(t) => Told(t)'
<1>1. UNCHANGED <<charm, avail, ports, opened, hook>>
  BY DEF At1, GivenUnchanged
<1>2. Starts(t)' = Starts(t)
  BY <1>1 DEF Starts
<1>3. Filed(t) => Filed(t)'
  BY <1>1 DEF Others, Filed
<1>4. Settled(t) => Settled(t)'
  BY <1>1, <1>2 DEF Others, Settled
<1>5. Told(t) => Told(t)'
  <2>1. Told(t) => ("failure" \notin charm /\ t \in configured => t \in ready)
    BY DEF Told, At1
  <2> QED  BY <1>1, <2>1 DEF Others, Told
<1> QED  BY <1>3, <1>4, <1>5

LEMMA Stays ==
  ASSUME IInv, NEW s \in Services, At1(s), Others(s), UNCHANGED todo, TypeOK',
         Converging => Filed(s)' /\ Told(s)' /\ Halfway(s)'
  PROVE  IInv'
<1>1. Converging' = Converging /\ phase' = phase
  BY DEF At1, GivenUnchanged, Converging
<1>2. s \in ToSet(todo)
  BY TailOf DEF IInv, TypeOK, At1
<1>3. ASSUME Converging, NEW t \in Services PROVE Filed(t)' /\ Told(t)'
  BY <1>3, OthersKept DEF IInv
<1>4. ASSUME Converging, NEW t \in Services \ ToSet(todo) PROVE Settled(t)'
  BY <1>2, <1>4, OthersKept DEF IInv, At1
<1> QED  BY <1>1, <1>3, <1>4 DEF IInv, At1

(* The loop comes to the next service, or to its end.                      *)
LEMMA Begins ==
  ASSUME TypeOK, NEW name \in {"stop", "other"}, NEW services \in Seq(Services), Begin(name, services),
         hook' = name, UNCHANGED <<avail, ports, charm>>,
         services # << >> => LET t == Head(services) IN
            portFile'[t] = portFile[t] /\ Open(t)' = Open(t) /\ (t \in configured') = (t \in configured)
  PROVE  /\ todo' = services
         /\ services # << >> =>
              LET t == Head(services) IN
              /\ call' \in Calls /\ left' \in Seq(Own(t))
              /\ Filed(t) /\ ("failure" \notin charm /\ t \in configured => t \in ready) => Halfway(t)'
<1> SUFFICES ASSUME services # << >>
             PROVE  LET t == Head(services) IN
                    /\ call' \in Calls /\ left' \in Seq(Own(t))
                    /\ Filed(t) /\ ("failure" \notin charm /\ t \in configured => t \in ready) => Halfway(t)'
  BY DEF Begin
<1> DEFINE t == Head(services)
<1>1. t \in Services
  BY TailOf
<1>2. call' = FirstCall(name, t) /\ left' = portFile[t]
  BY DEF Begin
<1> HIDE DEF t
<1>3. call' \in Calls
  BY <1>2 DEF FirstCall, Calls
<1>4. left' \in Seq(Own(t))
  BY <1>1, <1>2, ListTypes, EmptyList DEF TypeOK
<1>5. Starts(t)' = (name # "stop" /\ t \in avail)
  BY DEF Starts
<1>6. ASSUME Filed(t), "failure" \notin charm /\ t \in configured => t \in ready PROVE Halfway(t)'
  <2>1. portFile'[t] = portFile[t] /\ Open(t)' = Open(t) /\ (t \in configured') = (t \in configured)
    BY DEF t
  <2>2. Open(t) \subseteq ToSet(left')
    BY <1>2, <1>6 DEF Filed
  <2>3. /\ call' \in {"data_ready", "service_restart"} => Starts(t)'
        /\ call' \in {"data_lost", "save_lost"} => ~Starts(t)' /\ hook' = "other"
        /\ call' = "close_old" => ~Starts(t)' /\ (hook' = "other" => t \notin ready)
        /\ call' \notin {"manage_ports", "save_lost"}
    BY <1>2, <1>5 DEF FirstCall
  <2> QED  BY <1>2, <1>6, <2>1, <2>2, <2>3 DEF Halfway
<1> QED  BY <1>3, <1>4, <1>6 DEF t

LEMMA AtHead ==
  ASSUME TypeOK, todo # << >>
  PROVE  /\ Head(todo) \in Services /\ Head(todo) \in ToSet(todo)
         /\ Tail(todo) \in Seq(Services) /\ IsInjective(Tail(todo))
         /\ Head(todo) \notin ToSet(Tail(todo))
         /\ ToSet(todo) = ToSet(Tail(todo)) \union {Head(todo)}
         /\ Tail(todo) # << >> =>
              Head(Tail(todo)) \in Services \ {Head(todo)} /\ Head(Tail(todo)) \in ToSet(Tail(todo))
<1>1. todo \in Seq(Services) /\ IsInjective(todo)
  BY DEF TypeOK
<1>2. /\ Head(todo) \in Services /\ Tail(todo) \in Seq(Services) /\ IsInjective(Tail(todo))
      /\ ToSet(todo) = ToSet(Tail(todo)) \union {Head(todo)} /\ Head(todo) \notin ToSet(Tail(todo))
  BY <1>1, TailOf
<1>3. ASSUME NEW rest \in Seq(Services), rest # << >>
      PROVE  Head(rest) \in Services /\ Head(rest) \in ToSet(rest)
  BY <1>3, TailOf
<1> QED  BY <1>2, <1>3

LEMMA Moves ==
  ASSUME IInv, NEW s \in Services, At1(s), Others(s), Begin(hook, Tail(todo)),
         running' \in SUBSET Services, ready' \in SUBSET Services,
         UNCHANGED <<configured, portFile, pending>>,
         Converging => Settled(s)' /\ ("failure" \notin charm /\ s \in configured => s \in ready')
  PROVE  IInv'
<1>1. /\ UNCHANGED <<charm, avail, ports, opened, told, phase, hook>>
      /\ phase = "managing" /\ Converging' = Converging /\ TypeOK
  BY DEF At1, GivenUnchanged, Converging, IInv
<1>2. /\ Tail(todo) \in Seq(Services) /\ IsInjective(Tail(todo)) /\ s \notin ToSet(Tail(todo))
      /\ ToSet(todo) = ToSet(Tail(todo)) \union {s}
      /\ Tail(todo) # << >> => Head(Tail(todo)) \in Services \ {s} /\ Head(Tail(todo)) \in ToSet(Tail(todo))
  BY <1>1, AtHead DEF At1
<1> PICK rest : rest = Tail(todo)
  OBVIOUS
<1>3. /\ todo' = rest
      /\ rest # << >> =>
           LET t == Head(rest) IN
           /\ call' \in Calls /\ left' \in Seq(Own(t))
           /\ Filed(t) /\ ("failure" \notin charm /\ t \in configured => t \in ready) => Halfway(t)'
  <2>1. hook \in {"stop", "other"} /\ TypeOK
    BY DEF IInv, TypeOK
  <2>2. hook' = hook /\ UNCHANGED <<avail, ports, charm>>
    BY <1>1
  <2>3. \A t \in Services \ {s} :
            portFile'[t] = portFile[t] /\ Open(t)' = Open(t) /\ (t \in configured') = (t \in configured)
    BY DEF Others
  <2>4. rest \in Seq(Services) /\ Begin(hook, rest) /\ (rest # << >> => Head(rest) \in Services \ {s})
    BY <1>2
  <2> HIDE DEF IInv
  <2> QED  BY <2>1, <2>2, <2>3, <2>4, Begins
<1>4. TypeOK'
  BY <1>1, <1>2, <1>3 DEF IInv, TypeOK
<1>5. ASSUME Converging, NEW t \in Services PROVE Filed(t)'
  <2>1. Filed(t) /\ UNCHANGED Open(t)
    BY <1>5 DEF IInv, Open
  <2> QED  BY <1>1, <2>1 DEF Filed
<1>6. ASSUME Converging, NEW t \in Services PROVE Told(t)'
  <2>1. CASE t = s
    BY <1>6, <1>1, <2>1 DEF Told
  <2>2. CASE t # s
    BY <1>6, OthersKept, <2>2 DEF IInv
  <2> QED  BY <2>1, <2>2
<1>7. ASSUME Converging, NEW t \in Services \ ToSet(todo') PROVE Settled(t)'
  <2>1. CASE t = s
    BY <1>7, <2>1
  <2>2. CASE t # s
    <3>1. Settled(t)
      BY <1>1, <1>2, <1>3, <1>7, <2>2 DEF IInv
    <3> QED  BY <3>1, OthersKept, <2>2
  <2> QED  BY <2>1, <2>2
<1>8. ASSUME Converging, todo' # << >> PROVE Halfway(Head(todo))'
  <2> PICK t : t = Head(rest)
    OBVIOUS
  <2>1. t \in Services \ {s} /\ Filed(t) /\ Told(t)
    BY <1>2, <1>3, <1>8 DEF IInv
  <2>2. "failure" \notin charm /\ t \in configured => t \in ready
    BY <2>1 DEF Told, At1
  <2>3. Halfway(t)' /\ t = Head(todo')
    BY <1>3, <1>8, <2>1, <2>2
  <2> QED  BY <2>3
<1> QED  BY <1>1, <1>3, <1>4, <1>5, <1>6, <1>7, <1>8 DEF IInv

-----------------------------------------------------------------------------
(* What is known of the service that manage() is at.                       *)
LEMMA AtHand ==
  ASSUME IInv, NEW s \in Services, NEW c, At(s, c), GivenUnchanged
  PROVE  /\ At1(s) /\ TypeOK /\ call = c
         /\ left \in Seq(Own(s))
         /\ left # << >> => Head(left) \in Own(s) /\ Tail(left) \in Seq(Own(s))
                            /\ ToSet(left) = ToSet(Tail(left)) \union {Head(left)}
         /\ ports[s] \in PortLists[s] /\ ports[s] \in Seq(Own(s)) /\ ToSet(ports[s]) \subseteq Own(s)
         /\ Converging => Filed(s) /\ Told(s) /\ Halfway(s)
         /\ Starts(s)' = Starts(s) /\ Converging' = Converging
<1>1. At1(s) /\ TypeOK /\ call = c /\ s = Head(todo)
  BY DEF At, At1, IInv
<1>2. left \in Seq(Own(s)) /\ ports[s] \in PortLists[s]
  BY <1>1 DEF TypeOK, At1
<1>3. left # << >> => Head(left) \in Own(s) /\ Tail(left) \in Seq(Own(s))
                       /\ ToSet(left) = ToSet(Tail(left)) \union {Head(left)}
  BY <1>2, TailOf
<1>4. ports[s] \in Seq(Own(s)) /\ ToSet(ports[s]) \subseteq Own(s)
  BY <1>2, ListTypes
<1>5. Converging => Filed(s) /\ Told(s) /\ Halfway(s)
  BY <1>1 DEF IInv, At1
<1>6. Starts(s)' = Starts(s) /\ Converging' = Converging
  BY DEF GivenUnchanged, Starts, Converging
<1> QED  BY <1>1, <1>2, <1>3, <1>4, <1>5, <1>6

LEMMA InvDataReady ==
  ASSUME IInv, NEW s \in Services, DataReady(s)
  PROVE  IInv'
<1>1. At(s, "data_ready") /\ GivenUnchanged /\ UNCHANGED <<ready, portFile, pending, running, left, todo>>
      /\ configured' = configured \union {s} /\ call' = "service_restart"
  BY DEF DataReady, Then
<1>2. /\ At1(s) /\ TypeOK /\ call = "data_ready" /\ Starts(s)' = Starts(s) /\ Converging' = Converging
      /\ Converging => Filed(s) /\ Halfway(s)
  BY <1>1, AtHand
<1>3. Others(s)
  BY <1>1 DEF Others, Open
<1>4. TypeOK'
  BY <1>1, <1>2 DEF TypeOK, GivenUnchanged, Calls
<1>5. ASSUME Converging PROVE Filed(s)' /\ Told(s)' /\ Halfway(s)'
  <2>1. Starts(s) /\ left = portFile[s]
    BY <1>2, <1>5 DEF Halfway
  <2> QED  BY <1>1, <1>2, <1>5, <2>1 DEF Filed, Told, Halfway, Open, GivenUnchanged, At1
<1> HIDE DEF IInv
<1> QED  BY <1>1, <1>2, <1>3, <1>4, <1>5, Stays

LEMMA InvServiceRestart ==
  ASSUME IInv, NEW s \in Services, ServiceRestart(s)
  PROVE  IInv'
<1>1. At(s, "service_restart") /\ GivenUnchanged
      /\ UNCHANGED <<ready, portFile, pending, left, configured, todo>>
      /\ running' = running \union {s} /\ call' = "close_old"
  BY DEF ServiceRestart, Then
<1>2. /\ At1(s) /\ TypeOK /\ call = "service_restart" /\ Starts(s)' = Starts(s) /\ Converging' = Converging
      /\ Converging => Filed(s) /\ Told(s) /\ Halfway(s)
  BY <1>1, AtHand
<1>3. Others(s)
  BY <1>1 DEF Others, Open
<1>4. TypeOK'
  BY <1>1, <1>2 DEF TypeOK, GivenUnchanged, Calls
<1>5. ASSUME Converging PROVE Filed(s)' /\ Told(s)' /\ Halfway(s)'
  <2>1. Starts(s) /\ left = portFile[s]
    BY <1>2, <1>5 DEF Halfway
  <2> QED  BY <1>1, <1>2, <1>5, <2>1 DEF Filed, Told, Halfway, Open, GivenUnchanged, At1
<1> QED  BY <1>1, <1>2, <1>3, <1>4, <1>5, Stays

LEMMA InvDataLost ==
  ASSUME IInv, NEW s \in Services, DataLost(s)
  PROVE  IInv'
<1>1. At(s, "data_lost") /\ GivenUnchanged /\ UNCHANGED <<ready, portFile, pending, running, left, todo>>
      /\ configured' = configured \ {s} /\ call' = "close_old"
  BY DEF DataLost, Then
<1>2. /\ At1(s) /\ TypeOK /\ call = "data_lost" /\ Starts(s)' = Starts(s) /\ Converging' = Converging
      /\ Converging => Filed(s) /\ Halfway(s)
  BY <1>1, AtHand
<1>3. Others(s)
  BY <1>1 DEF Others, Open
<1>4. TypeOK'
  BY <1>1, <1>2 DEF TypeOK, GivenUnchanged, Calls
<1>5. ASSUME Converging PROVE Filed(s)' /\ Told(s)' /\ Halfway(s)'
  <2>1. ~Starts(s) /\ left = portFile[s]
    BY <1>2, <1>5 DEF Halfway
  <2> QED  BY <1>1, <1>2, <1>5, <2>1 DEF Filed, Told, Halfway, Open, GivenUnchanged, At1
<1> QED  BY <1>1, <1>2, <1>3, <1>4, <1>5, Stays

(* A port of one service is none of another.                               *)
LEMMA PortOfOne ==
  ASSUME Apart, NEW s \in Services, NEW p \in Own(s), pending' \in {pending \ {p}, pending \union {p}}
  PROVE  \A t \in Services \ {s} : Open(t)' = Open(t)
BY DEF Apart, Open

LEMMA InvCloseOld ==
  ASSUME Apart, IInv, NEW s \in Services, CloseOld(s)
  PROVE  IInv'
<1>1. At(s, "close_old") /\ GivenUnchanged
      /\ UNCHANGED <<ready, portFile, running, configured, todo, call>>
      /\ left # << >> /\ left' = Tail(left)
      /\ pending' = IF Head(left) \notin ToSet(ports[s]) THEN pending \ {Head(left)} ELSE pending
  BY DEF CloseOld, Old
<1>2. /\ At1(s) /\ TypeOK /\ call = "close_old" /\ Starts(s)' = Starts(s) /\ Converging' = Converging
      /\ Head(left) \in Own(s) /\ Tail(left) \in Seq(Own(s))
      /\ ToSet(left) = ToSet(Tail(left)) \union {Head(left)}
      /\ Converging => Filed(s) /\ Told(s) /\ Halfway(s)
  BY <1>1, AtHand
<1>3. Others(s)
  <2>1. \A t \in Services \ {s} : Open(t)' = Open(t)
    BY <1>1, <1>2, PortOfOne DEF Open
  <2> QED  BY <1>1, <2>1 DEF Others
<1>4. TypeOK'
  BY <1>1, <1>2 DEF TypeOK, GivenUnchanged, At1
<1>5. ASSUME Converging PROVE Filed(s)' /\ Told(s)' /\ Halfway(s)'
  <2>1. ToSet(left) \subseteq ToSet(portFile[s]) /\ Open(s) \subseteq ToSet(ports[s]) \union ToSet(left)
    BY <1>2, <1>5 DEF Halfway
  <2>2. Open(s)' \subseteq Open(s) /\ Open(s)' \subseteq ToSet(ports[s]) \union ToSet(left')
    BY <1>1, <1>2, <2>1 DEF Open
  <2>3. Filed(s)'
    BY <1>1, <1>2, <1>5, <2>2 DEF Filed, GivenUnchanged
  <2>4. Told(s)'
    BY <1>1, <1>2, <1>5 DEF Told, GivenUnchanged
  <2>5. Halfway(s)'
    BY <1>1, <1>2, <1>5, <2>1, <2>2 DEF Halfway, GivenUnchanged
  <2> QED  BY <2>3, <2>4, <2>5
<1> QED  BY <1>1, <1>2, <1>3, <1>4, <1>5, Stays

LEMMA InvWritePorts ==
  ASSUME IInv, NEW s \in Services, WritePorts(s)
  PROVE  IInv'
<1>1. At(s, "close_old") /\ GivenUnchanged /\ UNCHANGED <<ready, pending, running, configured, todo>>
      /\ left = << >> /\ left' = ports[s] /\ call' = "manage_ports"
      /\ portFile' = [portFile EXCEPT ![s] = ports[s]]
  BY DEF WritePorts, Then
<1>2. /\ At1(s) /\ TypeOK /\ call = "close_old" /\ Starts(s)' = Starts(s) /\ Converging' = Converging
      /\ ports[s] \in PortLists[s] /\ ports[s] \in Seq(Own(s))
      /\ Converging => Filed(s) /\ Told(s) /\ Halfway(s)
  BY <1>1, AtHand
<1>3. portFile' = [t \in Services |-> IF t = s THEN ports[s] ELSE portFile[t]]
  BY <1>1, <1>2 DEF TypeOK
<1>4. Others(s)
  BY <1>1, <1>3 DEF Others, Open
<1>5. TypeOK'
  BY <1>1, <1>2, <1>3 DEF TypeOK, GivenUnchanged, Calls, At1
<1>6. ASSUME Converging PROVE Filed(s)' /\ Told(s)' /\ Halfway(s)'
  <2>1. Open(s) \subseteq ToSet(ports[s])
    BY <1>1, <1>2, <1>6, EmptyList DEF Halfway
  <2>2. "failure" \in charm => opened \intersect Own(s) \subseteq ToSet(ports[s])
    <3>1. ASSUME "failure" \in charm PROVE "new_ports" \notin charm
      BY <1>2, <1>6, <3>1, ServicesHazardsAssumption DEF TypeOK, Converging
    <3> QED  BY <1>2, <1>6, <3>1, EmptyList DEF Filed
  <2>3. Filed(s)'
    BY <1>1, <1>3, <2>1, <2>2 DEF Filed, Open, GivenUnchanged
  <2>4. Told(s)'
    BY <1>1, <1>2, <1>6 DEF Told, GivenUnchanged
  <2>5. Halfway(s)'
    BY <1>1, <1>2, <1>3, <1>6, <2>1 DEF Halfway, Open, GivenUnchanged
  <2> QED  BY <2>3, <2>4, <2>5
<1> QED  BY <1>1, <1>2, <1>4, <1>5, <1>6, Stays

LEMMA InvManagePort ==
  ASSUME Apart, IInv, NEW s \in Services, ManagePort(s)
  PROVE  IInv'
<1>1. At(s, "manage_ports") /\ GivenUnchanged
      /\ UNCHANGED <<ready, portFile, running, configured, todo, call>>
      /\ left # << >> /\ left' = Tail(left)
      /\ pending' = IF Starts(s) THEN pending \union {Head(left)} ELSE pending \ {Head(left)}
  BY DEF ManagePort
<1>2. /\ At1(s) /\ TypeOK /\ call = "manage_ports" /\ Starts(s)' = Starts(s) /\ Converging' = Converging
      /\ Head(left) \in Own(s) /\ Tail(left) \in Seq(Own(s))
      /\ ToSet(left) = ToSet(Tail(left)) \union {Head(left)}
      /\ Converging => Filed(s) /\ Told(s) /\ Halfway(s)
  BY <1>1, AtHand
<1>3. Others(s)
  <2>1. \A t \in Services \ {s} : Open(t)' = Open(t)
    BY <1>1, <1>2, PortOfOne
  <2> QED  BY <1>1, <2>1 DEF Others
<1>4. TypeOK'
  BY <1>1, <1>2 DEF TypeOK, GivenUnchanged, At1
<1>5. ASSUME Converging PROVE Filed(s)' /\ Told(s)' /\ Halfway(s)'
  <2>1. /\ portFile[s] = ports[s] /\ ToSet(left) \subseteq ToSet(ports[s])
        /\ Starts(s) => ToSet(ports[s]) \subseteq Open(s) \union ToSet(left)
        /\ ~Starts(s) => Open(s) \subseteq ToSet(left)
        /\ Open(s) \subseteq ToSet(portFile[s])
    BY <1>2, <1>5 DEF Halfway, Filed
  <2>2. Open(s)' = IF Starts(s) THEN Open(s) \union {Head(left)} ELSE Open(s) \ {Head(left)}
    BY <1>1, <1>2 DEF Open
  <2>3. Filed(s)'
    BY <1>1, <1>2, <1>5, <2>1, <2>2 DEF Filed, GivenUnchanged
  <2>4. Told(s)'
    BY <1>1, <1>2, <1>5 DEF Told, GivenUnchanged
  <2>5. Halfway(s)'
    BY <1>1, <1>2, <1>5, <2>1, <2>2 DEF Halfway, GivenUnchanged
  <2> QED  BY <2>3, <2>4, <2>5
<1> QED  BY <1>1, <1>2, <1>3, <1>4, <1>5, Stays

LEMMA InvSaveReady ==
  ASSUME IInv, NEW s \in Services, SaveReady(s)
  PROVE  IInv'
<1>1. At(s, "manage_ports") /\ GivenUnchanged /\ UNCHANGED <<portFile, pending, running, configured>>
      /\ left = << >> /\ Starts(s) /\ ready' = ready \union {s} /\ Begin(hook, Tail(todo))
  BY DEF SaveReady
<1>2. /\ At1(s) /\ TypeOK /\ call = "manage_ports" /\ Starts(s)' = Starts(s) /\ Converging' = Converging
      /\ Converging => Filed(s) /\ Halfway(s)
  BY <1>1, AtHand
<1>3. Others(s)
  BY <1>1 DEF Others, Open
<1>4. ASSUME Converging PROVE Settled(s)'
  <2>1. s \in running /\ Open(s) = ToSet(ports[s])
    BY <1>1, <1>2, <1>4, EmptyList DEF Halfway, Filed
  <2> QED  BY <1>1, <1>2, <2>1 DEF Settled, Open, GivenUnchanged, Starts
<1>5. running' \in SUBSET Services /\ ready' \in SUBSET Services
  BY <1>1, <1>2 DEF TypeOK
<1> QED  BY <1>1, <1>2, <1>3, <1>4, <1>5, Moves

LEMMA InvServiceStop ==
  ASSUME IInv, NEW s \in Services, ServiceStop(s)
  PROVE  IInv'
<1>1. At(s, "manage_ports") /\ GivenUnchanged /\ UNCHANGED <<ready, portFile, pending, configured>>
      /\ left = << >> /\ ~Starts(s) /\ running' = running \ {s}
  BY DEF ServiceStop
<1>2. /\ At1(s) /\ TypeOK /\ call = "manage_ports" /\ Starts(s)' = Starts(s) /\ Converging' = Converging
      /\ left \in Seq(Own(s))
      /\ Converging => Filed(s) /\ Told(s) /\ Halfway(s)
  BY <1>1, AtHand
<1>3. Others(s)
  BY <1>1 DEF Others, Open
<1>4. running' \in SUBSET Services /\ ready' \in SUBSET Services
  BY <1>1, <1>2 DEF TypeOK
<1>5. Converging => Open(s) = {}
  BY <1>1, <1>2, EmptyList DEF Halfway
<1>6. CASE hook = "stop"
  <2>1. Begin(hook, Tail(todo))
    BY <1>6 DEF ServiceStop
  <2>2. ASSUME Converging PROVE Settled(s)' /\ ("failure" \notin charm /\ s \in configured => s \in ready')
    BY <1>1, <1>2, <1>5, <1>6, <2>2 DEF Settled, Told, Open, GivenUnchanged
  <2> QED  BY <1>1, <1>2, <1>3, <1>4, <2>1, <2>2, Moves
<1>7. CASE hook # "stop"
  <2>1. call' = "save_lost" /\ UNCHANGED <<todo, left>>
    BY <1>7 DEF ServiceStop, Then
  <2>2. TypeOK' /\ hook = "other"
    BY <1>1, <1>2, <1>7, <2>1 DEF TypeOK, GivenUnchanged, Calls
  <2>3. ASSUME Converging PROVE Filed(s)' /\ Told(s)' /\ Halfway(s)'
    <3>1. Filed(s)' /\ Told(s)'
      BY <1>1, <1>2, <2>1, <2>3 DEF Filed, Told, Open, GivenUnchanged
    <3>2. Halfway(s)'
      BY <1>1, <1>2, <1>5, <2>1, <2>2, <2>3 DEF Halfway, Open, GivenUnchanged
    <3> QED  BY <3>1, <3>2
  <2> QED  BY <1>1, <1>2, <1>3, <2>1, <2>2, <2>3, Stays
<1> QED  BY <1>6, <1>7

LEMMA InvSaveLost ==
  ASSUME IInv, NEW s \in Services, SaveLost(s)
  PROVE  IInv'
<1>1. At(s, "save_lost") /\ GivenUnchanged /\ UNCHANGED <<portFile, pending, running, configured>>
      /\ ready' = ready \ {s} /\ Begin(hook, Tail(todo))
  BY DEF SaveLost
<1>2. /\ At1(s) /\ TypeOK /\ call = "save_lost" /\ Starts(s)' = Starts(s) /\ Converging' = Converging
      /\ Converging => Halfway(s)
  BY <1>1, AtHand
<1>3. Others(s)
  BY <1>1 DEF Others, Open
<1>4. ASSUME Converging PROVE Settled(s)' /\ ("failure" \notin charm /\ s \in configured => s \in ready')
  <2>1. ~Starts(s) /\ hook = "other" /\ s \notin running /\ Open(s) = {}
        /\ ("failure" \notin charm => s \notin configured)
    BY <1>2, <1>4 DEF Halfway
  <2> QED  BY <1>1, <1>2, <2>1 DEF Settled, Open, GivenUnchanged
<1>5. running' \in SUBSET Services /\ ready' \in SUBSET Services
  BY <1>1, <1>2 DEF TypeOK
<1> QED  BY <1>1, <1>2, <1>3, <1>4, <1>5, Moves

-----------------------------------------------------------------------------
LEMMA InvStartHook ==
  ASSUME IInv, NEW name \in {"stop", "other"}, StartHook(name)
  PROVE  IInv'
<1>1. /\ phase # "managing" /\ phase' = "managing" /\ hook' = name /\ Begin(name, Order) /\ pending' = opened
      /\ UNCHANGED <<charm, avail, ports, ready, portFile, opened, running, told, configured>>
  BY DEF StartHook
<1>2. TypeOK /\ todo = << >> /\ pending = opened /\ Converging' = Converging
  BY <1>1 DEF IInv, TypeOK, Converging
<1>3. Order \in Seq(Services) /\ IsInjective(Order) /\ ToSet(Order) = Services
      /\ (Order # << >> => Head(Order) \in Services)
  BY OrderType, TailOf
<1>4. \A t \in Services : portFile'[t] = portFile[t] /\ Open(t)' = Open(t) /\ (t \in configured') = (t \in configured)
  BY <1>1, <1>2 DEF Open
<1>5. /\ todo' = Order
      /\ Order # << >> =>
           LET t == Head(Order) IN
           /\ call' \in Calls /\ left' \in Seq(Own(t))
           /\ Filed(t) /\ ("failure" \notin charm /\ t \in configured => t \in ready) => Halfway(t)'
  <2> HIDE DEF IInv
  <2> QED  BY <1>1, <1>2, <1>3, <1>4, Begins
<1>6. TypeOK'
  BY <1>1, <1>2, <1>3, <1>5 DEF TypeOK
<1>7. ASSUME Converging, NEW t \in Services
      PROVE  Filed(t)' /\ Told(t)' /\ Filed(t) /\ ("failure" \notin charm /\ t \in configured => t \in ready)
  <2>1. Filed(t) /\ Told(t)
    BY <1>7 DEF IInv
  <2> QED  BY <1>1, <1>2, <1>4, <2>1 DEF Filed, Told
<1>8. ASSUME Converging, todo' # << >> PROVE Halfway(Head(todo))'
  <2> PICK t : t = Head(Order)
    OBVIOUS
  <2>1. Halfway(t)' /\ t = Head(todo')
    BY <1>3, <1>5, <1>7, <1>8
  <2> QED  BY <2>1
<1> QED  BY <1>2, <1>3, <1>5, <1>6, <1>7, <1>8 DEF IInv

(* No hook fails by itself: a port that is closed for good was in the last *)
(* definition and not in this one, so that it is not ICMP.                 *)
LEMMA NeverRefused ==
  ASSUME Apart, IInv, Converging, "failure" \notin charm
  PROVE  ~Refused
<1> SUFFICES ASSUME NEW s \in Services, At(s, "close_old"), Old(s), Head(left) = ICMP
             PROVE  FALSE
  BY DEF Refused
<1>1. s = Head(todo) /\ phase = "managing" /\ todo # << >> /\ call = "close_old" /\ TypeOK
  BY DEF At, IInv
<1>2. left \in Seq(Own(s)) /\ left # << >> /\ Head(left) \notin ToSet(ports[s]) /\ charm \subseteq Hazards
  BY <1>1 DEF TypeOK, Old
<1>3. Head(left) \in Own(s) /\ Head(left) \in ToSet(left)
  BY <1>2, TailOf
<1>4. ToSet(left) \subseteq ToSet(portFile[s]) /\ Filed(s)
  BY <1>1 DEF IInv, Halfway
<1>5. "new_ports" \notin charm
  BY <1>2, <1>3 DEF Apart
<1> QED  BY <1>2, <1>3, <1>4, <1>5, EmptyList DEF Filed

LEMMA InvFail ==
  ASSUME Apart, IInv, Fail
  PROVE  IInv'
<1>1. /\ phase' = "failed" /\ todo' = << >> /\ call' = "none" /\ left' = << >> /\ pending' = opened
      /\ UNCHANGED <<charm, avail, ports, ready, portFile, opened, running, told, hook, configured>>
  BY DEF Fail
<1>2. TypeOK' /\ Converging' = Converging
  BY <1>1, EmptyList DEF IInv, TypeOK, IsInjective, Converging
<1>3. ASSUME Converging PROVE "failure" \in charm
  BY <1>3, NeverRefused DEF Fail
<1>4. ASSUME Converging, NEW t \in Services PROVE Filed(t)' /\ Told(t)'
  <2>1. Filed(t)
    BY <1>4 DEF IInv
  <2> QED  BY <1>1, <1>3, <1>4, <2>1 DEF Filed, Told, Open
<1> QED  BY <1>1, <1>2, <1>4 DEF IInv

LEMMA InvFinishHook ==
  ASSUME IInv, FinishHook
  PROVE  IInv'
<1>1. /\ todo = << >> /\ phase' = "idle" /\ opened' = pending
      /\ UNCHANGED <<charm, avail, ports, ready, portFile, pending, running, hook, todo, call, left, configured>>
  BY DEF FinishHook
<1>2. TypeOK' /\ Converging' = Converging
  BY <1>1 DEF IInv, TypeOK, Converging
<1>3. ASSUME Converging, NEW t \in Services PROVE Filed(t)' /\ Told(t)'
  <2>1. Filed(t) /\ Told(t)
    BY <1>3 DEF IInv
  <2> QED  BY <1>1, <2>1 DEF Filed, Told, Open
<1> QED  BY <1>1, <1>2, <1>3 DEF IInv

LEMMA InvChange ==
  ASSUME IInv, NEW s \in Services, ChangeData(s) \/ ChangePorts(s)
  PROVE  IInv'
<1>1. /\ phase # "managing" /\ todo = << >> /\ TypeOK
      /\ UNCHANGED <<charm, ready, portFile, opened, pending, running, told, phase, hook, todo, call, left, configured>>
  BY DEF IInv, TypeOK, ChangeData, ChangePorts
<1>2. Converging' = Converging
  BY <1>1 DEF Converging
<1>3. CASE ChangeData(s)
  <2>1. TypeOK' /\ ports' = ports
    BY <1>1, <1>3 DEF ChangeData, TypeOK
  <2>2. ASSUME Converging, NEW t \in Services PROVE Filed(t)' /\ Told(t)'
    <3>1. Filed(t) /\ Told(t)
      BY <2>2 DEF IInv
    <3> QED  BY <1>1, <2>1, <3>1 DEF Filed, Told, Open
  <2> QED  BY <1>1, <1>2, <2>1, <2>2 DEF IInv
<1>4. CASE ChangePorts(s)
  <2>1. PICK list \in PortLists[s] : ports' = [ports EXCEPT ![s] = list]
    BY <1>4 DEF ChangePorts
  <2>2. ports' = [t \in Services |-> IF t = s THEN list ELSE ports[t]]
    BY <1>1, <2>1 DEF TypeOK
  <2>3. TypeOK'
    BY <1>1, <1>4, <2>2 DEF ChangePorts, TypeOK
  <2>4. ASSUME Converging, NEW t \in Services PROVE Filed(t)' /\ Told(t)'
    <3>1. Filed(t) /\ Told(t) /\ "new_ports" \in charm
      BY <1>4, <2>4 DEF IInv, ChangePorts
    <3> QED  BY <1>1, <3>1 DEF Filed, Told, Open
  <2> QED  BY <1>1, <1>2, <2>3, <2>4 DEF IInv
<1> QED  BY <1>3, <1>4

LEMMA InvStep ==
  ASSUME Apart, IInv, [Next]_vars
  PROVE  IInv'
<1>1. CASE \E s \in Services : ChangeData(s) \/ ChangePorts(s)
  BY <1>1, InvChange
<1>2. CASE \E name \in {"stop", "other"} : StartHook(name)
  BY <1>2, InvStartHook
<1>3. CASE Step
  BY <1>3, InvDataReady, InvServiceRestart, InvDataLost, InvCloseOld, InvWritePorts, InvManagePort,
     InvSaveReady, InvServiceStop, InvSaveLost DEF Step
<1>4. CASE Fail
  BY <1>4, InvFail
<1>5. CASE FinishHook
  BY <1>5, InvFinishHook
<1>6. CASE UNCHANGED vars
  BY <1>6 DEF vars, IInv, TypeOK, Converging, Filed, Told, Settled, Halfway, Open, Starts
<1> QED  BY <1>1, <1>2, <1>3, <1>4, <1>5, <1>6 DEF Next

-----------------------------------------------------------------------------
(* What the hooks leave, when manage() is through with every service.      *)
LEMMA LeftInLine ==
  ASSUME IInv, FinishHook
  PROVE  /\ charm # {"failure", "new_ports"} => InLine /\ PortsOnFile
         /\ hook = "other" /\ "failure" \notin charm => configured \subseteq avail
<1> SUFFICES ASSUME Converging
             PROVE  /\ InLine /\ PortsOnFile
                    /\ hook = "other" /\ "failure" \notin charm => configured \subseteq avail
  BY DEF Converging
<1>1. /\ TypeOK /\ todo = << >> /\ opened' = pending /\ told' = (IF hook = "stop" THEN told ELSE avail)
      /\ \A s \in Services : Settled(s) /\ Filed(s)
  BY EmptyList DEF IInv, FinishHook
<1>2. \A s \in Services : Starts(s) <=> s \in Up
  BY DEF Starts, Up
<1>3. Up \subseteq Services /\ running \subseteq Services /\ configured \subseteq Services
      /\ pending \subseteq UNION {Own(s) : s \in Services}
  BY <1>1 DEF Up, TypeOK
<1>4. running = Up
  BY <1>1, <1>2, <1>3 DEF Settled
<1>5. pending = UNION {ToSet(ports[s]) : s \in Up}
  <2>1. \A s \in Services : Open(s) = IF s \in Up THEN ToSet(ports[s]) ELSE {}
    BY <1>1, <1>2 DEF Settled
  <2>2. ASSUME NEW p \in pending PROVE \E s \in Up : p \in ToSet(ports[s])
    BY <1>3, <2>1 DEF Open
  <2>3. ASSUME NEW s \in Up, NEW p \in ToSet(ports[s]) PROVE p \in pending
    BY <1>3, <2>1 DEF Open
  <2> QED  BY <2>2, <2>3
<1>6. PortsOnFile
  <2>1. ASSUME NEW p \in pending PROVE \E s \in Services : p \in ToSet(portFile[s])
    BY <1>1, <1>3 DEF Filed, Open
  <2> QED  BY <2>1 DEF PortsOnFile
<1>7. hook = "other" /\ "failure" \notin charm => configured \subseteq avail
  BY <1>1, <1>3 DEF Settled
<1> QED  BY <1>1, <1>4, <1>5, <1>6, <1>7 DEF InLine, Up

(* The inductive invariant holds, whichever services share no port.        *)
THEOREM Invariance == ASSUME Apart PROVE Spec => []IInv
<1>1. IInv /\ [Next]_vars => IInv'
  BY InvStep
<1> QED  BY InvInit, <1>1, PTL DEF Spec

(* Services whose ports are apart converge: whichever services, lists and  *)
(* hazards, a hook that succeeds leaves all of them as their data says, and *)
(* every open port on file.                                                *)
THEOREM Convergence == ASSUME Apart PROVE Spec => ConvergedUnlessBoth
<1>1. IInv /\ [Next]_vars =>
        [FinishHook =>
           /\ charm # {"failure", "new_ports"} => InLine /\ PortsOnFile
           /\ hook = "other" /\ "failure" \notin charm => configured \subseteq avail]_vars
  BY LeftInLine
<1> QED  BY Invariance, <1>1, PTL DEF Spec, ConvergedUnlessBoth
=============================================================================
