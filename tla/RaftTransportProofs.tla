------------------------- MODULE RaftTransportProofs --------------------------
(***************************************************************************)
(* What the authenticated transport keeps, for any nodes, inventories,     *)
(* certificates, calls and bounds, as long as no two processes listen at   *)
(* one address: what Raft is given is whose it says it is, and what an     *)
(* operator was told about credentials holds for every later connection.   *)
(*                                                                         *)
(* The invariant follows a connection from end to end: what was told when  *)
(* a connection came to an end never exceeds what that process holds, as   *)
(* long as it lives, and a process that ends takes its connections with    *)
(* it, so that no connection meets the restarted one.                      *)
(***************************************************************************)
EXTENDS RaftTransport, TLAPS

\* A process binds its address, so that no two of them share one.
AddressesDistinct ==
    \A m, n \in Nodes : Config[m].listen = Config[n].listen => m = n

NodeFields == DOMAIN Down
ConnFields == DOMAIN Idle
EndFields == DOMAIN NoEnd

\* A process that is down holds nothing; an operator was told of no generation that is
\* not there yet, and neither does the reply under way.
NodeOK(x) ==
    /\ DOMAIN x = NodeFields
    /\ ~x.up => x.permits = 0 /\ x.reply = {}
    /\ x.tls.generation \in Nat
    /\ x.told \in 0..x.tls.generation
    /\ \A g \in x.reply : g \in 0..x.tls.generation /\ x.reply = {g}

\* Neither end of a connection used less than its operator had been told of.
EndOK(end) ==
    /\ end.tls.generation \in Nat
    /\ end.told \in 0..end.tls.generation

Live == {"backlog", "accepted", "admitted", "reading", "delivering"}
Reached(k, c, dl) ==
    /\ Config[The(c.to)].canonical = Peer(c).canonical
    /\ \E d \in dl : d.call = k

\* Connection c of call k, while the processes are nd and Raft was given dl.
ConnOK(k, c, nd, dl) ==
    /\ DOMAIN c = ConnFields /\ DOMAIN c.caller = EndFields /\ DOMAIN c.callee = EndFields
    /\ c.client = "idle" => c = Idle
    /\ c.client = "begun" =>
         /\ c.server = "none" /\ c.to = {}
         /\ \E n \in Nodes : /\ c.from = {n} /\ nd[n].up
                             /\ c.caller.told \in 0..nd[n].tls.generation
    /\ c.server \in Live =>
         /\ EndOK(c.caller)
         /\ \E m \in Nodes : /\ c.to = {m} /\ nd[m].up
                             /\ c.server = "accepted" => c.callee.told \in 0..nd[m].tls.generation
    /\ c.server \in {"admitted", "reading", "delivering"} => EndOK(c.callee)
    /\ c.server \in {"reading", "delivering"} =>
         Verifies(The(c.callee.tls.files), The(c.caller.tls.files).leaf)
    /\ c.server = "delivering" \/ c.client = "answered" => Reached(k, c, dl)

\* What Raft was given.
Genuine(d) ==
    /\ Allows(d.at, d.source, Config[d.from].canonical)
    /\ Config[d.from].cluster = Config[d.at].cluster /\ Config[d.from].shard = Config[d.at].shard
    /\ EndOK(d.caller) /\ EndOK(d.callee)
    /\ Verifies(The(d.callee.tls.files), d.leaf)

TransportInv ==
    /\ DOMAIN node = Nodes /\ \A n \in Nodes : NodeOK(node[n])
    /\ DOMAIN conn = Calls /\ \A k \in Calls : ConnOK(k, conn[k], node, delivered)
    /\ \A d \in delivered : Genuine(d)

\* Processes that were up still are, with credentials that are no older.
Carries(nd, nd2) ==
    \A n \in Nodes : nd[n].up => /\ nd2[n].up
                                 /\ nd2[n].tls.generation >= nd[n].tls.generation

\* The element of a singleton.
LEMMA TheOne == ASSUME NEW x PROVE The({x}) = x
  BY DEF The

\* The fields of the records.
LEMMA FieldNames ==
    /\ NodeFields = {"up", "gate", "tls", "permits", "told", "reply"}
    /\ ConnFields = {"client", "server", "from", "target", "to", "kind", "caller", "callee"}
    /\ EndFields = {"tls", "told"}
  BY DEF NodeFields, Down, ConnFields, Idle, EndFields, NoEnd

\* A connection stays sound while processes go on and Raft is given more.
LEMMA ConnCarries ==
    ASSUME NEW k, NEW c, NEW nd, NEW nd2, NEW dl, NEW dl2,
           ConnOK(k, c, nd, dl), Carries(nd, nd2), dl \subseteq dl2,
           \A n \in Nodes : nd[n].tls.generation \in Nat /\ nd2[n].tls.generation \in Nat
    PROVE  ConnOK(k, c, nd2, dl2)
<1>1. ASSUME NEW n \in Nodes, nd[n].up, NEW g \in 0..nd[n].tls.generation
      PROVE  nd2[n].up /\ g \in 0..nd2[n].tls.generation
  BY <1>1 DEF Carries
<1>2. \A n \in Nodes : nd[n].up => nd2[n].up
  BY DEF Carries
<1>3. Reached(k, c, dl) => Reached(k, c, dl2)
  BY DEF Reached
<1> QED BY <1>1, <1>2, <1>3 DEF ConnOK

\* The initial state.
LEMMA TransportInit == Init => TransportInv
<1> SUFFICES ASSUME Init PROVE TransportInv
  OBVIOUS
<1>1. DOMAIN node = Nodes /\ DOMAIN conn = Calls /\ delivered = {}
  BY DEF Init
<1>2. ASSUME NEW n \in Nodes PROVE NodeOK(node[n])
  <2>1. node[n] = Down
    BY DEF Init
  <2> QED BY <2>1 DEF NodeOK, NodeFields, Down, NoTls
<1>3. ASSUME NEW k \in Calls PROVE ConnOK(k, conn[k], node, delivered)
  <2>1. conn[k] = Idle
    BY DEF Init
  <2>2. ConnOK(k, Idle, node, delivered)
    BY DEF ConnOK, ConnFields, EndFields, Idle, NoEnd, Live
  <2> QED BY <2>1, <2>2
<1> QED BY <1>1, <1>2, <1>3 DEF TransportInv

\* A process changes while it lives, or starts.
LEMMA NodeChange ==
    ASSUME TransportInv, NEW n \in Nodes, NEW x, node' = [node EXCEPT ![n] = x], NodeOK(x),
           node[n].up => x.up /\ x.tls.generation >= node[n].tls.generation,
           UNCHANGED <<conn, delivered>>
    PROVE  TransportInv'
<1>1. DOMAIN node' = Nodes /\ node'[n] = x /\ \A m \in Nodes \ {n} : node'[m] = node[m]
  BY DEF TransportInv
<1>2. \A m \in Nodes : NodeOK(node'[m])
  BY <1>1 DEF TransportInv
<1>3. \A m \in Nodes : node[m].tls.generation \in Nat /\ node'[m].tls.generation \in Nat
  BY <1>2 DEF TransportInv, NodeOK
<1>4. Carries(node, node')
  <2> SUFFICES ASSUME NEW m \in Nodes, node[m].up
               PROVE  node'[m].up /\ node'[m].tls.generation >= node[m].tls.generation
    BY DEF Carries
  <2>1. CASE m = n
    BY <1>1, <2>1
  <2>2. CASE m # n
    BY <1>1, <1>3, <2>2
  <2> QED BY <2>1, <2>2
<1>5. ASSUME NEW k \in Calls PROVE ConnOK(k, conn'[k], node', delivered')
  <2>1. ConnOK(k, conn[k], node, delivered) /\ delivered \subseteq delivered
    BY DEF TransportInv
  <2>2. ConnOK(k, conn[k], node', delivered)
    BY <1>3, <1>4, <2>1, ConnCarries
  <2> QED BY <2>2
<1> QED BY <1>1, <1>2, <1>5 DEF TransportInv

\* A connection changes, with the process it came to and what Raft was given.
LEMMA ConnChange ==
    ASSUME TransportInv, NEW k \in Calls, NEW c, conn' = [conn EXCEPT ![k] = c],
           DOMAIN node' = Nodes, \A n \in Nodes : NodeOK(node'[n]), Carries(node, node'),
           delivered \subseteq delivered', \A d \in delivered' : Genuine(d),
           ConnOK(k, c, node', delivered')
    PROVE  TransportInv'
<1>1. DOMAIN conn' = Calls /\ conn'[k] = c /\ \A j \in Calls \ {k} : conn'[j] = conn[j]
  BY DEF TransportInv
<1>2. \A m \in Nodes : node[m].tls.generation \in Nat /\ node'[m].tls.generation \in Nat
  BY DEF TransportInv, NodeOK
<1>3. ASSUME NEW j \in Calls PROVE ConnOK(j, conn'[j], node', delivered')
  <2>1. CASE j = k
    BY <1>1, <2>1
  <2>2. CASE j # k
    <3>1. ConnOK(j, conn[j], node, delivered)
      BY DEF TransportInv
    <3>2. ConnOK(j, conn[j], node', delivered')
      BY <1>2, <3>1, ConnCarries
    <3> QED BY <1>1, <2>2, <3>2
  <2> QED BY <2>1, <2>2
<1> QED BY <1>1, <1>3 DEF TransportInv

\* A connection changes alone.
LEMMA ConnAlone ==
    ASSUME TransportInv, NEW k \in Calls, NEW c, conn' = [conn EXCEPT ![k] = c],
           UNCHANGED <<node, delivered>>, ConnOK(k, c, node, delivered)
    PROVE  TransportInv'
<1>1. Carries(node, node')
  BY DEF Carries, TransportInv, NodeOK
<1>2. DOMAIN node' = Nodes /\ (\A n \in Nodes : NodeOK(node'[n])) /\ \A d \in delivered' : Genuine(d)
  BY DEF TransportInv
<1>3. delivered \subseteq delivered' /\ ConnOK(k, c, node', delivered')
  OBVIOUS
<1> QED BY <1>1, <1>2, <1>3, ConnChange

(***************************************************************************)
(* The process and its control loop.                                       *)
(***************************************************************************)

\* A node is started with the first generation of its credentials.
LEMMA StartStep ==
    ASSUME TransportInv, NEW n \in Nodes, Start(n)
    PROVE  TransportInv'
<1>1. PICK files \in Files :
        node' = [node EXCEPT ![n] = [up |-> TRUE, gate |-> TRUE,
                                     tls |-> [generation |-> 1, files |-> {files}],
                                     permits |-> MaxInFlight, told |-> 0, reply |-> {}]]
  BY DEF Start
<1> DEFINE x == [up |-> TRUE, gate |-> TRUE, tls |-> [generation |-> 1, files |-> {files}],
                 permits |-> MaxInFlight, told |-> 0, reply |-> {}]
<1>2. NodeOK(x) /\ x.up
  BY FieldNames DEF NodeOK
<1>3. ~node[n].up /\ UNCHANGED <<conn, delivered>>
  BY DEF Start
<1>4. node' = [node EXCEPT ![n] = x]
  BY <1>1
<1> HIDE DEF x
<1> QED BY <1>2, <1>3, <1>4, NodeChange

\* A command that leaves the credentials alone and replies what the operator may know.
LEMMA AnswerStep ==
    ASSUME TransportInv, NEW n \in Nodes, node[n].up, NEW gate, NEW g \in 0..node[n].tls.generation,
           node' = [node EXCEPT ![n].gate = gate, ![n].reply = {g}], UNCHANGED <<conn, delivered>>
    PROVE  TransportInv'
<1> DEFINE x == [node[n] EXCEPT !.gate = gate, !.reply = {g}]
<1>1. NodeOK(node[n]) /\ DOMAIN node = Nodes
  BY DEF TransportInv
<1>2. NodeOK(x) /\ x.up /\ x.tls.generation >= node[n].tls.generation
  BY <1>1, FieldNames DEF NodeOK
<1>3. node' = [node EXCEPT ![n] = x]
  OBVIOUS
<1> HIDE DEF x
<1> QED BY <1>2, <1>3, NodeChange

\* Status, a refused line and a command that is left to Raft.
LEMMA ReplyStep ==
    ASSUME TransportInv, NEW n \in Nodes, node[n].up, NEW g \in 0..node[n].tls.generation,
           Answer(n, g)
    PROVE  TransportInv'
<1> DEFINE x == [node[n] EXCEPT !.reply = {g}]
<1>1. NodeOK(node[n]) /\ DOMAIN node = Nodes
  BY DEF TransportInv
<1>2. NodeOK(x) /\ x.up /\ x.tls.generation >= node[n].tls.generation
  BY <1>1, FieldNames DEF NodeOK
<1>3. node' = [node EXCEPT ![n] = x] /\ UNCHANGED <<conn, delivered>>
  BY DEF Answer
<1> HIDE DEF x
<1> QED BY <1>2, <1>3, NodeChange

\* rotate publishes the next generation or nothing, and the reply tells which.
LEMMA RotateStep ==
    ASSUME TransportInv, NEW n \in Nodes, RotateCredentials(n)
    PROVE  TransportInv'
<1>1. PICK files \in Files, expected \in {node[n].tls.generation, node[n].told} :
        LET tls == IF Usable(n, files) THEN Rotated(node[n].tls, expected, files) ELSE node[n].tls
        IN  node' = [node EXCEPT ![n].tls = tls,
                                 ![n].reply = {IF tls # node[n].tls THEN tls.generation ELSE node[n].told}]
  BY DEF RotateCredentials
<1> DEFINE tls == IF Usable(n, files) THEN Rotated(node[n].tls, expected, files) ELSE node[n].tls
           g == IF tls # node[n].tls THEN tls.generation ELSE node[n].told
           x == [node[n] EXCEPT !.tls = tls, !.reply = {g}]
<1>2. NodeOK(node[n]) /\ DOMAIN node = Nodes /\ node[n].up /\ UNCHANGED <<conn, delivered>>
  BY DEF TransportInv, RotateCredentials, ControlLine
<1>3. node[n].tls.generation \in Nat /\ node[n].told \in 0..node[n].tls.generation
  BY <1>2 DEF NodeOK
<1>4. tls.generation \in Nat /\ tls.generation >= node[n].tls.generation
  BY <1>3 DEF Rotated
<1>5. node' = [node EXCEPT ![n] = x]
  BY <1>1
<1> HIDE DEF tls
<1>6. g \in 0..tls.generation
  BY <1>3, <1>4
<1> HIDE DEF g
<1>7. NodeOK(x) /\ x.up /\ x.tls = tls
  BY <1>2, <1>3, <1>4, <1>6, FieldNames DEF NodeOK
<1> HIDE DEF x
<1> QED BY <1>2, <1>4, <1>5, <1>7, NodeChange

\* The reply is written: now the operator knows.
LEMMA WriteReplyStep ==
    ASSUME TransportInv, NEW n \in Nodes, WriteReply(n)
    PROVE  TransportInv'
<1>1. NodeOK(node[n]) /\ DOMAIN node = Nodes
  BY DEF TransportInv
<1>2. PICK g \in 0..node[n].tls.generation : node[n].reply = {g}
  BY <1>1 DEF WriteReply, NodeOK
<1> DEFINE x == [node[n] EXCEPT !.told = g, !.reply = {}]
<1>3. node' = [node EXCEPT ![n] = x] /\ UNCHANGED <<conn, delivered>>
  BY <1>2, TheOne DEF WriteReply
<1>4. NodeOK(x) /\ (node[n].up => x.up) /\ x.tls.generation >= node[n].tls.generation
  BY <1>1, <1>2, FieldNames DEF NodeOK
<1> HIDE DEF x
<1> QED BY <1>3, <1>4, NodeChange

\* A process ends, and its ends of the connections with it.
LEMMA StopStep ==
    ASSUME TransportInv, NEW n \in Nodes, Stop(n), UNCHANGED delivered
    PROVE  TransportInv'
<1>1. DOMAIN node' = Nodes /\ node'[n] = Down /\ \A m \in Nodes \ {n} : node'[m] = node[m]
  BY DEF TransportInv, Stop
<1>2. \A m \in Nodes : NodeOK(node'[m])
  BY <1>1 DEF TransportInv, NodeOK, NodeFields, Down, NoTls
<1>3. DOMAIN conn' = Calls /\ \A k \in Calls : conn'[k] = Ended(conn[k], n)
  BY DEF Stop
<1>4. ASSUME NEW k \in Calls
      PROVE  ConnOK(k, conn'[k], node', delivered')
  <2> DEFINE c == conn[k]
             e == Ended(conn[k], n)
  <2>1. ConnOK(k, c, node, delivered)
    BY DEF TransportInv
  <2>2. /\ DOMAIN e = ConnFields /\ e.caller = c.caller /\ e.callee = c.callee
        /\ e.from = c.from /\ e.to = c.to /\ e.target = c.target
        /\ e.client = IF c.client = "idle" THEN c.client
                      ELSE IF c.from = {n} \/ (c.to = {n} /\ c.client # "answered") THEN "failed" ELSE c.client
        /\ e.server = IF c.to = {n} THEN "closed" ELSE c.server
    BY <2>1, FieldNames DEF ConnOK, Ended
  <2>3. DOMAIN c.caller = EndFields /\ DOMAIN c.callee = EndFields
    BY <2>1 DEF ConnOK
  <2> HIDE DEF e, c
  <2>4. e.client = "idle" => e = Idle
    <3>1. e.client = "idle" => c = Idle
      BY <2>1, <2>2 DEF ConnOK
    <3>2. c = Idle => e = Idle
      <4> SUFFICES ASSUME c = Idle PROVE e = Idle
        OBVIOUS
      <4>1. c.client = "idle" /\ c.server = "none" /\ c.to = {} /\ {} # {n}
        BY DEF Idle
      <4>2. e = [c EXCEPT !.client = "idle", !.server = "none"]
        BY <4>1 DEF e, c, Ended
      <4> QED BY <4>2 DEF Idle
    <3> QED BY <3>1, <3>2
  <2>5. e.client = "begun" =>
         /\ e.server = "none" /\ e.to = {}
         /\ \E m \in Nodes : /\ e.from = {m} /\ node'[m].up
                             /\ e.caller.told \in 0..node'[m].tls.generation
    <3> SUFFICES ASSUME e.client = "begun"
                 PROVE  /\ e.server = "none" /\ e.to = {}
                        /\ \E m \in Nodes : /\ e.from = {m} /\ node'[m].up
                                            /\ e.caller.told \in 0..node'[m].tls.generation
      OBVIOUS
    <3>1. c.client = "begun" /\ c.from # {n}
      BY <2>2
    <3>2. PICK m \in Nodes : /\ c.from = {m} /\ node[m].up
                             /\ c.caller.told \in 0..node[m].tls.generation
      BY <2>1, <3>1 DEF ConnOK
    <3>3. c.server = "none" /\ c.to = {}
      BY <2>1, <3>1 DEF ConnOK
    <3>4. m # n /\ node'[m] = node[m]
      BY <1>1, <3>1, <3>2
    <3> QED BY <2>2, <3>2, <3>3, <3>4
  <2>6. e.server \in Live =>
         /\ EndOK(e.caller)
         /\ \E m \in Nodes : /\ e.to = {m} /\ node'[m].up
                             /\ e.server = "accepted" => e.callee.told \in 0..node'[m].tls.generation
    <3> SUFFICES ASSUME e.server \in Live
                 PROVE  /\ EndOK(e.caller)
                        /\ \E m \in Nodes :
                              /\ e.to = {m} /\ node'[m].up
                              /\ e.server = "accepted" => e.callee.told \in 0..node'[m].tls.generation
      OBVIOUS
    <3>1. c.to # {n} /\ e.server = c.server
      BY <2>2 DEF Live
    <3>2. PICK m \in Nodes : /\ c.to = {m} /\ node[m].up
                             /\ c.server = "accepted" => c.callee.told \in 0..node[m].tls.generation
      BY <2>1, <3>1 DEF ConnOK
    <3>3. EndOK(c.caller)
      BY <2>1, <3>1 DEF ConnOK
    <3>4. m # n /\ node'[m] = node[m]
      BY <1>1, <3>1, <3>2
    <3> QED BY <2>2, <3>1, <3>2, <3>3, <3>4
  <2>7. /\ e.server \in {"admitted", "reading", "delivering"} => EndOK(e.callee)
        /\ e.server \in {"reading", "delivering"} =>
             Verifies(The(e.callee.tls.files), The(e.caller.tls.files).leaf)
    BY <2>1, <2>2 DEF ConnOK
  <2>8. e.server = "delivering" \/ e.client = "answered" => Reached(k, e, delivered)
    <3>1. e.server = "delivering" \/ e.client = "answered" => c.server = "delivering" \/ c.client = "answered"
      BY <2>2
    <3>2. Reached(k, c, delivered) => Reached(k, e, delivered)
      BY <2>2 DEF Reached, Peer
    <3> QED BY <2>1, <3>1, <3>2 DEF ConnOK
  <2>9. ConnOK(k, e, node', delivered)
    BY <2>2, <2>3, <2>4, <2>5, <2>6, <2>7, <2>8 DEF ConnOK
  <2> QED BY <1>3, <2>9 DEF e
<1> QED BY <1>1, <1>2, <1>3, <1>4 DEF TransportInv

(***************************************************************************)
(* A call.                                                                 *)
(***************************************************************************)

\* A connection with both ends in a later stage.
Staged(c, client, server) == [c EXCEPT !.client = client, !.server = server]

\* What is to be shown of one whose credentials are as they were.
LEMMA Later ==
    ASSUME NEW k, NEW c, NEW nd, NEW dl, NEW client, NEW server,
           ConnOK(k, c, nd, dl), c.client # "idle",
           client \in {"failed", "sent", "answered"} \/ (client = c.client /\ client # "begun"),
           server \in {"closed", "reading", "delivering"} \/ server = c.server,
           server \in {"reading", "delivering"} =>
              /\ c.server \in {"admitted", "reading", "delivering"}
              /\ Verifies(The(c.callee.tls.files), The(c.caller.tls.files).leaf),
           server = "delivering" \/ client = "answered" => Reached(k, c, dl)
    PROVE  ConnOK(k, Staged(c, client, server), nd, dl)
<1> DEFINE e == Staged(c, client, server)
<1>1. /\ DOMAIN e = ConnFields /\ e.caller = c.caller /\ e.callee = c.callee
      /\ e.from = c.from /\ e.to = c.to /\ e.target = c.target
      /\ e.client = client /\ e.server = server
  BY FieldNames DEF ConnOK, Staged
<1> HIDE DEF e
<1>2. e.client # "idle" /\ e.client # "begun"
  BY <1>1
<1>3. Reached(k, c, dl) => Reached(k, e, dl)
  BY <1>1 DEF Reached, Peer
<1>4. e.server \in Live =>
         /\ EndOK(e.caller)
         /\ \E m \in Nodes : /\ e.to = {m} /\ nd[m].up
                             /\ e.server = "accepted" => e.callee.told \in 0..nd[m].tls.generation
  <2> SUFFICES ASSUME e.server \in Live
               PROVE  /\ EndOK(e.caller)
                      /\ \E m \in Nodes :
                            /\ e.to = {m} /\ nd[m].up
                            /\ e.server = "accepted" => e.callee.told \in 0..nd[m].tls.generation
    OBVIOUS
  <2>1. c.server \in Live /\ (e.server = "accepted" => c.server = "accepted")
    BY <1>1 DEF Live
  <2> QED BY <1>1, <2>1 DEF ConnOK
<1>5. e.server \in {"admitted", "reading", "delivering"} => EndOK(e.callee)
  BY <1>1 DEF ConnOK
<1>6. e.server \in {"reading", "delivering"} =>
        Verifies(The(e.callee.tls.files), The(e.caller.tls.files).leaf)
  BY <1>1 DEF ConnOK
<1>7. e.server = "delivering" \/ e.client = "answered" => Reached(k, e, dl)
  BY <1>1, <1>3
<1>8. DOMAIN e.caller = EndFields /\ DOMAIN e.callee = EndFields
  BY <1>1 DEF ConnOK
<1> QED BY <1>1, <1>2, <1>4, <1>5, <1>6, <1>7, <1>8 DEF ConnOK, e

\* A call begins at a process that is up.
LEMMA BeginStep ==
    ASSUME TransportInv, NEW k \in Calls, Begin(k)
    PROVE  TransportInv'
<1>1. PICK n \in Nodes, kind \in Kinds : \E id \in DOMAIN Config[n].nodes \ {Config[n].id} :
        /\ node[n].up /\ node[n].gate
        /\ conn' = [conn EXCEPT ![k] = [Idle EXCEPT !.client = "begun", !.from = {n}, !.target = id,
                                                    !.kind = {kind}, !.caller.told = node[n].told]]
  BY DEF Begin
<1>2. PICK id : conn' = [conn EXCEPT ![k] = [Idle EXCEPT !.client = "begun", !.from = {n}, !.target = id,
                                                    !.kind = {kind}, !.caller.told = node[n].told]]
  BY <1>1
<1> DEFINE c == [Idle EXCEPT !.client = "begun", !.from = {n}, !.target = id,
                             !.kind = {kind}, !.caller.told = node[n].told]
<1>3. node[n].up /\ node[n].told \in 0..node[n].tls.generation /\ UNCHANGED <<node, delivered>>
  BY <1>1 DEF TransportInv, NodeOK, Begin
<1>4. /\ DOMAIN c = ConnFields /\ DOMAIN c.caller = EndFields /\ DOMAIN c.callee = EndFields
      /\ c.client = "begun" /\ c.server = "none" /\ c.to = {} /\ c.from = {n}
      /\ c.caller.told = node[n].told
  BY DEF ConnFields, EndFields, Idle, NoEnd
<1>5. conn' = [conn EXCEPT ![k] = c]
  BY <1>2
<1> HIDE DEF c
<1>6. ConnOK(k, c, node, delivered)
  BY <1>3, <1>4 DEF ConnOK, Live
<1> QED BY <1>3, <1>5, <1>6, ConnAlone

\* The socket is connected: the caller takes the credentials in force.
LEMMA ConnectStep ==
    ASSUME TransportInv, AddressesDistinct, NEW k \in Calls, Connect(k)
    PROVE  TransportInv'
<1> DEFINE c == conn[k]
<1>0. ConnOK(k, c, node, delivered) /\ c.client = "begun" /\ UNCHANGED <<node, delivered>>
  BY DEF TransportInv, Connect
<1>1. CASE Listeners(c) = {}
  <2> DEFINE e == Staged(c, "failed", c.server)
  <2>1. conn' = [conn EXCEPT ![k] = [c EXCEPT !.client = "failed"]]
    BY <1>1 DEF Connect
  <2>2. [c EXCEPT !.client = "failed"] = e
    <3>1. DOMAIN c = ConnFields
      BY <1>0 DEF ConnOK
    <3> QED BY <3>1, FieldNames DEF Staged
  <2>3. c.server = "none"
    BY <1>0 DEF ConnOK
  <2>4. ConnOK(k, e, node, delivered)
    BY <1>0, <2>3, Later
  <2> QED BY <1>0, <2>1, <2>2, <2>4, ConnAlone
<1>2. CASE Listeners(c) # {}
  <2>1. PICK m \in Nodes : Listeners(c) = {m} /\ node[m].up
    BY <1>2 DEF Listeners, AddressesDistinct
  <2>2. PICK n \in Nodes : /\ c.from = {n} /\ node[n].up
                           /\ c.caller.told \in 0..node[n].tls.generation
    BY <1>0 DEF ConnOK
  <2> DEFINE e == [c EXCEPT !.client = "connected", !.server = "backlog", !.to = {m},
                            !.caller.tls = node[n].tls]
  <2>3. conn' = [conn EXCEPT ![k] = e]
    BY <1>2, <2>1, <2>2, TheOne DEF Connect, ClientConfig
  <2>4. /\ DOMAIN c = ConnFields /\ DOMAIN c.caller = EndFields /\ DOMAIN c.callee = EndFields
        /\ node[n].tls.generation \in Nat
    BY <1>0 DEF ConnOK, TransportInv, NodeOK
  <2>5. /\ DOMAIN e = ConnFields /\ DOMAIN e.caller = EndFields /\ DOMAIN e.callee = EndFields
        /\ e.client = "connected" /\ e.server = "backlog" /\ e.to = {m}
        /\ e.caller.tls = node[n].tls /\ e.caller.told = c.caller.told
    BY <2>4, FieldNames
  <2> HIDE DEF e
  <2>6. EndOK(e.caller)
    BY <2>2, <2>4, <2>5 DEF EndOK
  <2>7. ConnOK(k, e, node, delivered)
    BY <2>1, <2>5, <2>6 DEF ConnOK
  <2> QED BY <1>0, <2>3, <2>7, ConnAlone
<1> QED BY <1>1, <1>2

\* A permit changes hands.
LEMMA PermitStep ==
    ASSUME TransportInv, NEW m \in Nodes, node[m].up, NEW p,
           node' = [node EXCEPT ![m].permits = p]
    PROVE  /\ DOMAIN node' = Nodes /\ \A n \in Nodes : NodeOK(node'[n])
           /\ Carries(node, node') /\ node'[m].up
           /\ \A n \in Nodes : node'[n].told = node[n].told /\ node'[n].tls = node[n].tls
<1>1. DOMAIN node = Nodes /\ NodeOK(node[m])
  BY DEF TransportInv
<1> DEFINE x == [node[m] EXCEPT !.permits = p]
<1>2. NodeOK(x) /\ x.up /\ x.told = node[m].told /\ x.tls = node[m].tls
  BY <1>1, FieldNames DEF NodeOK
<1>3. node' = [node EXCEPT ![m] = x]
  OBVIOUS
<1> HIDE DEF x
<1>4. DOMAIN node' = Nodes /\ node'[m] = x /\ \A n \in Nodes \ {m} : node'[n] = node[n]
  BY <1>1, <1>3
<1>5. \A n \in Nodes : NodeOK(node'[n])
  BY <1>2, <1>4 DEF TransportInv
<1>6. \A n \in Nodes : node'[n].told = node[n].told /\ node'[n].tls = node[n].tls
  BY <1>2, <1>4
<1>7. \A n \in Nodes : node[n].tls.generation \in Nat
  BY DEF TransportInv, NodeOK
<1>8. Carries(node, node')
  BY <1>2, <1>4, <1>6, <1>7 DEF Carries
<1> QED BY <1>2, <1>4, <1>5, <1>6, <1>8

\* A connection is accepted by a process that is up.
LEMMA AcceptStep ==
    ASSUME TransportInv, NEW k \in Calls, Accept(k)
    PROVE  TransportInv'
<1> DEFINE c == conn[k]
<1>1. ConnOK(k, c, node, delivered) /\ c.server = "backlog" /\ UNCHANGED delivered
  BY DEF TransportInv, Accept
<1>2. PICK m \in Nodes : c.to = {m} /\ node[m].up
  BY <1>1 DEF ConnOK, Live
<1> DEFINE e == [c EXCEPT !.server = "accepted", !.callee.told = node[m].told]
<1>3. node' = [node EXCEPT ![m].permits = @ - 1] /\ conn' = [conn EXCEPT ![k] = e]
  BY <1>2, TheOne DEF Accept
<1>4. /\ DOMAIN node' = Nodes /\ \A n \in Nodes : NodeOK(node'[n])
      /\ Carries(node, node') /\ node'[m].up
      /\ \A n \in Nodes : node'[n].told = node[n].told /\ node'[n].tls = node[n].tls
  BY <1>2, <1>3, PermitStep
<1>5. /\ DOMAIN c = ConnFields /\ DOMAIN c.caller = EndFields /\ DOMAIN c.callee = EndFields
      /\ node[m].told \in 0..node[m].tls.generation /\ EndOK(c.caller)
      /\ c.client # "idle" /\ c.client # "begun"
      /\ (c.client = "answered" => Reached(k, c, delivered))
  BY <1>1 DEF ConnOK, TransportInv, NodeOK, Live, Idle
<1>6. /\ DOMAIN e = ConnFields /\ DOMAIN e.caller = EndFields /\ DOMAIN e.callee = EndFields
      /\ e.client = c.client /\ e.server = "accepted" /\ e.to = {m} /\ e.from = c.from
      /\ e.target = c.target /\ e.caller = c.caller /\ e.callee.told = node[m].told
  BY <1>2, <1>5, FieldNames
<1> HIDE DEF e
<1>7. Reached(k, c, delivered) => Reached(k, e, delivered)
  BY <1>2, <1>6 DEF Reached, Peer
<1>8. \E n \in Nodes : /\ e.to = {n} /\ node'[n].up
                       /\ e.server = "accepted" => e.callee.told \in 0..node'[n].tls.generation
  BY <1>4, <1>5, <1>6
<1>9. ConnOK(k, e, node', delivered)
  BY <1>5, <1>6, <1>7, <1>8 DEF ConnOK
<1> QED BY <1>1, <1>3, <1>4, <1>9, ConnChange DEF TransportInv

\* The task that serves a connection ends: an answer is given only once Raft was.
LEMMA CloseStep ==
    ASSUME TransportInv, NEW k \in Calls, NEW client \in {"failed", "answered"}, Serving(conn[k]),
           client = "answered" => conn[k].server = "delivering",
           Close(k, client), UNCHANGED delivered
    PROVE  TransportInv'
<1> DEFINE c == conn[k]
           next == IF Waiting(c) THEN client ELSE c.client
           e == Staged(c, next, "closed")
<1>1. ConnOK(k, c, node, delivered) /\ c.server \in Live
  BY DEF TransportInv, Serving, Live
<1>2. PICK m \in Nodes : c.to = {m} /\ node[m].up
  BY <1>1 DEF ConnOK
<1>3. DOMAIN c = ConnFields /\ c.client # "idle" /\ c.client # "begun"
      /\ (c.client = "answered" => Reached(k, c, delivered))
      /\ (c.server = "delivering" => Reached(k, c, delivered))
  BY <1>1 DEF ConnOK, Live, Idle
<1>4. conn' = [conn EXCEPT ![k] = [c EXCEPT !.server = "closed", !.client = next]]
  BY DEF Close
<1>5. [c EXCEPT !.server = "closed", !.client = next] = e
  BY <1>3, FieldNames DEF Staged
<1>6. node' = [node EXCEPT ![m].permits = @ + 1]
  BY <1>2, TheOne DEF Close
<1>7. /\ DOMAIN node' = Nodes /\ \A n \in Nodes : NodeOK(node'[n]) /\ Carries(node, node')
  BY <1>2, <1>6, PermitStep
<1>8. /\ next \in {"failed", "sent", "answered"} \/ (next = c.client /\ next # "begun")
      /\ next = "answered" => Reached(k, c, delivered)
  BY <1>3 DEF Waiting
<1> HIDE DEF next
<1>9. ConnOK(k, e, node, delivered)
  BY <1>1, <1>3, <1>8, Later
<1>10. ConnOK(k, e, node', delivered')
  <2>1. delivered \subseteq delivered'
    OBVIOUS
  <2>2. \A n \in Nodes : node[n].tls.generation \in Nat /\ node'[n].tls.generation \in Nat
    BY <1>7 DEF TransportInv, NodeOK
  <2> HIDE DEF e
  <2> QED BY <1>2, <1>7, <1>9, <2>1, <2>2, ConnCarries
<1> HIDE DEF e
<1> QED BY <1>2, <1>4, <1>5, <1>7, <1>10, ConnChange DEF TransportInv

\* A connection goes on to a later stage by itself.
LEMMA StageStep ==
    ASSUME TransportInv, NEW k \in Calls, NEW client, NEW server,
           conn' = [conn EXCEPT ![k] = Staged(conn[k], client, server)],
           ConnOK(k, Staged(conn[k], client, server), node, delivered),
           UNCHANGED <<node, delivered>>
    PROVE  TransportInv'
  BY ConnAlone

\* serve_connection: the gate, then the credentials in force.
LEMMA AdmitStep ==
    ASSUME TransportInv, NEW k \in Calls, Admit(k)
    PROVE  TransportInv'
<1> DEFINE c == conn[k]
<1>1. ConnOK(k, c, node, delivered) /\ c.server = "accepted" /\ UNCHANGED delivered
  BY DEF TransportInv, Admit
<1>2. PICK m \in Nodes : /\ c.to = {m} /\ node[m].up
                         /\ c.callee.told \in 0..node[m].tls.generation
  BY <1>1 DEF ConnOK, Live
<1>3. The(c.to) = m
  BY <1>2, TheOne
<1>4. CASE ~node[m].gate
  BY <1>1, <1>3, <1>4, CloseStep DEF Admit, Serving
<1>5. CASE node[m].gate
  <2> DEFINE e == [c EXCEPT !.server = "admitted", !.callee.tls = node[m].tls]
  <2>1. conn' = [conn EXCEPT ![k] = e] /\ UNCHANGED node
    BY <1>3, <1>5 DEF Admit, ServerConfig
  <2>2. /\ DOMAIN c = ConnFields /\ DOMAIN c.caller = EndFields /\ DOMAIN c.callee = EndFields
        /\ EndOK(c.caller) /\ node[m].tls.generation \in Nat
        /\ c.client # "idle" /\ c.client # "begun"
        /\ (c.client = "answered" => Reached(k, c, delivered))
    BY <1>1 DEF ConnOK, TransportInv, NodeOK, Live, Idle
  <2>3. /\ DOMAIN e = ConnFields /\ DOMAIN e.caller = EndFields /\ DOMAIN e.callee = EndFields
        /\ e.client = c.client /\ e.server = "admitted" /\ e.to = {m} /\ e.from = c.from
        /\ e.target = c.target /\ e.caller = c.caller
        /\ e.callee.told = c.callee.told /\ e.callee.tls = node[m].tls
    BY <1>2, <2>2, FieldNames
  <2> HIDE DEF e
  <2>4. Reached(k, c, delivered) => Reached(k, e, delivered)
    BY <1>2, <2>3 DEF Reached, Peer
  <2>5. EndOK(e.callee)
    BY <1>2, <2>2, <2>3 DEF EndOK
  <2>6. ConnOK(k, e, node, delivered)
    BY <1>2, <2>2, <2>3, <2>4, <2>5 DEF ConnOK
  <2> QED BY <1>1, <2>1, <2>6, ConnAlone
<1> QED BY <1>4, <1>5

\* The handshake lets through what both sides verified.
LEMMA HandshakeStep ==
    ASSUME TransportInv, NEW k \in Calls, Handshake(k)
    PROVE  TransportInv'
<1> DEFINE c == conn[k]
<1>1. ConnOK(k, c, node, delivered) /\ c.server = "admitted" /\ UNCHANGED delivered
  BY DEF TransportInv, Handshake
<1>2. CASE Close(k, "failed")
  BY <1>1, <1>2, CloseStep DEF Serving
<1>3. CASE ~Close(k, "failed")
  <2>1. /\ Verifies(The(c.callee.tls.files), The(c.caller.tls.files).leaf) /\ c.client = "connected"
        /\ conn' = [conn EXCEPT ![k].client = "sent", ![k].server = "reading"] /\ UNCHANGED node
    BY <1>3 DEF Handshake
  <2>2. conn' = [conn EXCEPT ![k] = Staged(c, "sent", "reading")]
    BY <2>1 DEF Staged
  <2>3. ConnOK(k, Staged(c, "sent", "reading"), node, delivered)
    BY <1>1, <2>1, Later
  <2> QED BY <1>1, <2>1, <2>2, <2>3, StageStep
<1> QED BY <1>2, <1>3

\* Raft is given what the callee's inventory vouches for.
LEMMA DeliverStep ==
    ASSUME TransportInv, NEW k \in Calls, Deliver(k)
    PROVE  TransportInv'
<1> DEFINE c == conn[k]
           m == The(conn[k].to)
           n == The(conn[k].from)
           e == Envelope(conn[k])
           leaf == The(c.caller.tls.files).leaf
           d == [call |-> k, at |-> m, from |-> n, source |-> e.vote,
                 leaf |-> leaf, caller |-> c.caller, callee |-> c.callee]
<1>1. ConnOK(k, c, node, delivered) /\ c.server = "reading"
  BY DEF TransportInv, Deliver
<1>2. CASE ~EnvelopeValid(e, m, leaf)
  BY <1>1, <1>2, CloseStep DEF Deliver, Serving
<1>3. CASE EnvelopeValid(e, m, leaf)
  <2>1. /\ delivered' = delivered \cup {d} /\ UNCHANGED node
        /\ conn' = [conn EXCEPT ![k].server = "delivering"]
    BY <1>3 DEF Deliver
  <2>2. /\ e.canonical = Config[n].canonical /\ e.vote = Config[n].id /\ e.source = e.vote
        /\ e.cluster = Config[n].cluster /\ e.shard = Config[n].shard
        /\ e.target_canonical = Peer(c).canonical
    BY DEF Envelope
  <2>3. /\ e.cluster = Config[m].cluster /\ e.shard = Config[m].shard
        /\ e.target_canonical = Config[m].canonical /\ Allows(m, e.source, e.canonical)
    BY <1>3 DEF EnvelopeValid
  <2>4. /\ EndOK(c.caller) /\ EndOK(c.callee) /\ Verifies(The(c.callee.tls.files), leaf)
        /\ DOMAIN c = ConnFields /\ c.client # "idle" /\ c.client # "begun"
        /\ (c.client = "answered" => Reached(k, c, delivered))
    BY <1>1 DEF ConnOK, Live, Idle
  <2>5. Genuine(d)
    BY <2>2, <2>3, <2>4 DEF Genuine
  <2>6. Reached(k, c, delivered')
    <3>1. d \in delivered' /\ d.call = k
      BY <2>1
    <3>2. Config[m].canonical = Peer(c).canonical
      BY <2>2, <2>3
    <3> HIDE DEF d
    <3> QED BY <3>1, <3>2 DEF Reached
  <2>7. [c EXCEPT !.server = "delivering"] = Staged(c, c.client, "delivering")
    BY <2>4, FieldNames DEF Staged
  <2>8. conn' = [conn EXCEPT ![k] = Staged(c, c.client, "delivering")]
    BY <2>1, <2>7
  <2>9. \A x \in Nodes : node[x].tls.generation \in Nat
    BY DEF TransportInv, NodeOK
  <2>10. Carries(node, node)
    BY <2>9 DEF Carries
  <2> HIDE DEF d, e, leaf
  <2>11. delivered \subseteq delivered' /\ \A x \in delivered' : Genuine(x)
    BY <2>1, <2>5 DEF TransportInv
  <2>12. ConnOK(k, c, node, delivered')
    BY <1>1, <2>9, <2>10, <2>11, ConnCarries
  <2>13. ConnOK(k, Staged(c, c.client, "delivering"), node, delivered')
    BY <1>1, <2>4, <2>6, <2>12, Later DEF leaf
  <2> QED BY <2>1, <2>8, <2>10, <2>11, <2>13, ConnChange DEF TransportInv
<1> QED BY <1>2, <1>3

\* hard_ttl at the caller; the callee goes on.
LEMMA CallTimeoutStep ==
    ASSUME TransportInv, NEW k \in Calls, CallTimeout(k)
    PROVE  TransportInv'
<1> DEFINE c == conn[k]
           server == IF c.server = "backlog" THEN "closed" ELSE c.server
<1>1. ConnOK(k, c, node, delivered) /\ c.client # "idle" /\ UNCHANGED <<node, delivered>>
  BY DEF TransportInv, CallTimeout, Waiting
<1>2. conn' = [conn EXCEPT ![k] = Staged(c, "failed", server)]
  BY DEF CallTimeout, Staged
<1>3. server = "closed" \/ server = c.server
  OBVIOUS
<1>4. /\ server \in {"reading", "delivering"} =>
           Verifies(The(c.callee.tls.files), The(c.caller.tls.files).leaf) /\ server = c.server
      /\ server = "delivering" => Reached(k, c, delivered)
  BY <1>1 DEF ConnOK
<1> HIDE DEF server
<1>5. ConnOK(k, Staged(c, "failed", server), node, delivered)
  BY <1>1, <1>3, <1>4, Later
<1> QED BY <1>1, <1>2, <1>5, StageStep

\* Every step keeps the invariant.
LEMMA TransportInvInductive ==
    ASSUME AddressesDistinct
    PROVE  Spec => []TransportInv
<1>1. TransportInv /\ UNCHANGED vars => TransportInv'
  BY DEF vars, TransportInv
<1>2. ASSUME TransportInv, Next
      PROVE  TransportInv'
  <2>1. ASSUME NEW n \in Nodes,
               \/ Start(n) \/ Crash(n) \/ SetTransportEnabled(n) \/ RotateCredentials(n)
               \/ Status(n) \/ RefusedLine(n) \/ RaftCommand(n) \/ WriteReply(n) \/ Shutdown(n)
        PROVE  TransportInv'
    <3>1. node[n].told \in 0..node[n].tls.generation /\ node[n].tls.generation \in 0..node[n].tls.generation
      BY <1>2 DEF TransportInv, NodeOK
    <3>2. CASE SetTransportEnabled(n)
      BY <1>2, <3>1, <3>2, AnswerStep DEF SetTransportEnabled, ControlLine
    <3>3. CASE Status(n) \/ RefusedLine(n) \/ RaftCommand(n)
      BY <1>2, <3>1, <3>3, ReplyStep DEF Status, RefusedLine, RaftCommand, ControlLine
    <3>4. CASE Crash(n) \/ Shutdown(n)
      BY <1>2, <3>4, StopStep DEF Crash, Shutdown
    <3> QED BY <1>2, <2>1, <3>2, <3>3, <3>4, StartStep, RotateStep, WriteReplyStep
  <2>2. ASSUME NEW k \in Calls,
               \/ Begin(k) \/ Connect(k) \/ Accept(k) \/ Admit(k) \/ Handshake(k)
               \/ Deliver(k) \/ Respond(k) \/ CallTimeout(k) \/ ServeTimeout(k)
        PROVE  TransportInv'
    <3>1. CASE Respond(k)
      BY <1>2, <3>1, CloseStep DEF Respond, Serving
    <3>2. CASE ServeTimeout(k)
      BY <1>2, <3>2, CloseStep DEF ServeTimeout
    <3> QED BY <1>2, <2>2, <3>1, <3>2, BeginStep, ConnectStep, AcceptStep, AdmitStep, HandshakeStep,
               DeliverStep, CallTimeoutStep
  <2> QED BY <1>2, <2>1, <2>2 DEF Next
<1> QED BY <1>1, <1>2, TransportInit, PTL DEF Spec

\* What a node's Raft is given in the name of a Raft id comes from the process its own
\* inventory calls by that id, and an answer comes from the process the caller's inventory
\* calls the target, which was given the call (WireEnvelope::validate,
\* VyrmRaftNetworkClient::call, serve_connection).
THEOREM Authentic ==
    ASSUME AddressesDistinct
    PROVE  Spec => []CallsAreGenuine
<1>1. TransportInv => CallsAreGenuine
  BY DEF TransportInv, CallsAreGenuine, Genuine, ConnOK, Reached
<1> QED BY <1>1, TransportInvInductive, PTL

\* A call begun or accepted after an operator was told of a generation is verified with
\* that generation or a newer one at both ends, and a leaf that was revoked by then is not
\* delivered from (VyrmTlsReloader::rotate, server_config, client_config).
THEOREM TakesHold ==
    ASSUME AddressesDistinct
    PROVE  Spec => []RepliesTakeHold
<1>1. TransportInv => RepliesTakeHold
  <2> SUFFICES ASSUME TransportInv, NEW d \in delivered
               PROVE  /\ d.caller.tls.generation >= d.caller.told
                      /\ d.callee.tls.generation >= d.callee.told
                      /\ Verifies(The(d.callee.tls.files), d.leaf)
    BY DEF RepliesTakeHold
  <2> QED BY DEF TransportInv, Genuine, EndOK
<1> QED BY <1>1, TransportInvInductive, PTL
=============================================================================
