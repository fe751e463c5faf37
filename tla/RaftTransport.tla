---------------------------- MODULE RaftTransport ----------------------------
(***************************************************************************)
(* The authenticated transport between Raft nodes and the process around a *)
(* node (vyrm-cluster: transport.rs, node_runtime.rs): calls over one TLS  *)
(* connection each, admitted by a bounded number of permits, credentials   *)
(* that an operator replaces while calls are under way, a gate that cuts   *)
(* the node off, and the control loop through which it is told to.         *)
(*                                                                         *)
(* TLS is what the code asks of it: a handshake succeeds when each side's  *)
(* roots and revocation lists admit the other's leaf.  Raft is external:   *)
(* what it is given is recorded in delivered.                              *)
(***************************************************************************)
EXTENDS Naturals, FiniteSets

CONSTANTS Nodes,        \* the node processes
          Config,       \* their VyrmNodeConfig
          Files,        \* sets of TLS files a supervisor may hand over
          Calls,        \* the calls that are made
          Kinds,        \* kinds of RPC
          MaxInFlight,  \* VYRM_RAFT_MAX_IN_FLIGHT_RPCS
          MaxCommands,  \* bound on control lines
          MaxFaults     \* bound on crashes and timeouts

VARIABLES node,         \* what each process holds
          conn,         \* each call's connection, seen from both ends
          delivered,    \* what Raft was given, and over which connection
          commands, faults

vars == <<node, conn, delivered, commands, faults>>

(* What a connection used of one end's credentials, and the generation that *)
(* end's operator had been told of when the connection came to it.          *)
NoTls == [generation |-> 0, files |-> {}]
NoEnd == [tls |-> NoTls, told |-> 0]
Down == [up |-> FALSE, gate |-> FALSE, tls |-> NoTls, permits |-> 0, told |-> 0, reply |-> {}]
Idle == [client |-> "idle", server |-> "none", from |-> {}, target |-> 0, to |-> {}, kind |-> {},
         caller |-> NoEnd, callee |-> NoEnd]

Init == /\ node = [n \in Nodes |-> Down]
        /\ conn = [k \in Calls |-> Idle]
        /\ delivered = {} /\ commands = 0 /\ faults = 0

The(s) == CHOOSE x \in s : TRUE

-----------------------------------------------------------------------------
(* Identities.  A SPIFFE id names the cluster and the node, not the shard; *)
(* a leaf must carry exactly one.                                          *)
SpiffeId(n) == <<Config[n].cluster, Config[n].canonical>>
IdentityIs(leaf, id) == leaf.uris = {id}

(* The inventory names this node and gives no two nodes one canonical id.  *)
ConfigValid(n) ==
  LET nodes == Config[n].nodes IN
  /\ Config[n].id \in DOMAIN nodes /\ Config[n].id # 0
  /\ nodes[Config[n].id].canonical = Config[n].canonical
  /\ \A i, j \in DOMAIN nodes : nodes[i].canonical = nodes[j].canonical => i = j
Allows(n, id, canonical) ==
  id \in DOMAIN Config[n].nodes /\ Config[n].nodes[id].canonical = canonical

(* WebPKI with or without revocation lists: once there are lists, the leaf *)
(* of an issuer without one has an unknown status and is denied.           *)
Verifies(files, leaf) ==
  /\ leaf.root \in files.roots
  /\ DOMAIN files.crls # {} => leaf.root \in DOMAIN files.crls /\ leaf \notin files.crls[leaf.root]

(* load_tls_material and build_tls_state.                                  *)
Usable(n, files) == files.roots # {} /\ IdentityIs(files.leaf, SpiffeId(n))

-----------------------------------------------------------------------------
(* run_vyrm_node: the configured files hold one root and no list, and the  *)
(* node is not ready with a leaf that is not its own.                      *)
Start(n) ==
  /\ ~node[n].up /\ ConfigValid(n)
  /\ \E files \in Files :
       /\ Cardinality(files.roots) = 1 /\ DOMAIN files.crls = {} /\ Usable(n, files)
       /\ node' = [node EXCEPT ![n] = [up |-> TRUE, gate |-> TRUE,
                                       tls |-> [generation |-> 1, files |-> {files}],
                                       permits |-> MaxInFlight, told |-> 0, reply |-> {}]]
  /\ UNCHANGED <<conn, delivered, commands, faults>>

(* A process that ends takes its ends of the connections with it.          *)
Ended(c, n) ==
  [c EXCEPT !.client = IF @ = "idle" THEN @
                       ELSE IF c.from = {n} \/ (c.to = {n} /\ @ # "answered") THEN "failed" ELSE @,
            !.server = IF c.to = {n} THEN "closed" ELSE @]
Stop(n) == /\ node' = [node EXCEPT ![n] = Down]
           /\ conn' = [k \in Calls |-> Ended(conn[k], n)]
Fault == faults < MaxFaults /\ faults' = faults + 1
Crash(n) == node[n].up /\ Fault /\ Stop(n) /\ UNCHANGED <<delivered, commands>>

(* The control loop handles one line at a time: a command has its effect,  *)
(* then the reply is written, and only then is the next line read.         *)
ControlLine(n) == node[n].up /\ node[n].reply = {} /\ commands < MaxCommands /\ commands' = commands + 1
SetTransportEnabled(n) ==
  /\ ControlLine(n)
  /\ \E enabled \in BOOLEAN :
       node' = [node EXCEPT ![n].gate = enabled, ![n].reply = {node[n].told}]
  /\ UNCHANGED <<conn, delivered, faults>>

(* rotate: the new state is built first and published only over the        *)
(* generation the operator expects.                                        *)
Rotated(tls, expected, files) ==
  IF tls.generation = expected THEN [generation |-> expected + 1, files |-> {files}] ELSE tls
RotateCredentials(n) ==
  /\ ControlLine(n)
  /\ \E files \in Files, expected \in {node[n].tls.generation, node[n].told} :
       LET tls == IF Usable(n, files) THEN Rotated(node[n].tls, expected, files) ELSE node[n].tls IN
       node' = [node EXCEPT ![n].tls = tls,
                            ![n].reply = {IF tls # node[n].tls THEN tls.generation ELSE node[n].told}]
  /\ UNCHANGED <<conn, delivered, faults>>

(* Status tells the generation in force.  A line that is too long, empty,  *)
(* undecodable or of another version, and a command that is left to Raft   *)
(* whatever Raft answers, change nothing here.                             *)
Answer(n, told) == node' = [node EXCEPT ![n].reply = {told}] /\ UNCHANGED <<conn, delivered, faults>>
Status(n) == ControlLine(n) /\ Answer(n, node[n].tls.generation)
RefusedLine(n) == ControlLine(n) /\ Answer(n, node[n].told)
RaftCommand(n) == ControlLine(n) /\ Answer(n, node[n].told)
WriteReply(n) ==
  /\ node[n].reply # {}
  /\ node' = [node EXCEPT ![n].told = The(node[n].reply), ![n].reply = {}]
  /\ UNCHANGED <<conn, delivered, commands, faults>>
Shutdown(n) == ControlLine(n) /\ Stop(n) /\ UNCHANGED <<delivered, faults>>

-----------------------------------------------------------------------------
(* A call.  The gate is read when it begins, the credentials once the      *)
(* socket is connected.                                                    *)
Begin(k) ==
  /\ conn[k].client = "idle"
  /\ \E n \in Nodes, kind \in Kinds : \E id \in DOMAIN Config[n].nodes \ {Config[n].id} :
       /\ node[n].up /\ node[n].gate
       /\ conn' = [conn EXCEPT ![k] = [Idle EXCEPT !.client = "begun", !.from = {n}, !.target = id,
                                                   !.kind = {kind}, !.caller.told = node[n].told]]
  /\ UNCHANGED <<node, delivered, commands, faults>>

Peer(c) == Config[The(c.from)].nodes[c.target]
Listeners(c) == {m \in Nodes : node[m].up /\ Config[m].listen = Peer(c).endpoint}
ClientConfig(n) == node[n].tls
Connect(k) ==
  LET c == conn[k] IN
  /\ c.client = "begun"
  /\ conn' = [conn EXCEPT ![k] =
       IF Listeners(c) = {} THEN [c EXCEPT !.client = "failed"]
       ELSE [c EXCEPT !.client = "connected", !.server = "backlog", !.to = Listeners(c),
                      !.caller.tls = ClientConfig(The(c.from))]]
  /\ UNCHANGED <<node, delivered, commands, faults>>

(* serve: a permit is held before a connection is accepted, and dropped    *)
(* with the task that serves it.                                           *)
Accept(k) ==
  /\ conn[k].server = "backlog"
  /\ LET m == The(conn[k].to) IN
     /\ node[m].permits > 0
     /\ node' = [node EXCEPT ![m].permits = @ - 1]
     /\ conn' = [conn EXCEPT ![k].server = "accepted", ![k].callee.told = node[m].told]
  /\ UNCHANGED <<delivered, commands, faults>>

(* The task ends: its end of the connection closes and a caller that still *)
(* waits finds the target unreachable.                                     *)
Serving(c) == c.server \in {"accepted", "admitted", "reading", "delivering"}
Waiting(c) == c.client \in {"begun", "connected", "sent"}
Close(k, client) ==
  /\ conn' = [conn EXCEPT ![k].server = "closed", ![k].client = IF Waiting(conn[k]) THEN client ELSE @]
  /\ node' = [node EXCEPT ![The(conn[k].to)].permits = @ + 1]

(* serve_connection: the gate, then the credentials in force.              *)
ServerConfigAtStart(n) == [node[n].tls EXCEPT !.generation = 1]     \* a mutant
ServerConfig(n) == node[n].tls
Admit(k) ==
  /\ conn[k].server = "accepted"
  /\ LET m == The(conn[k].to) IN
     IF node[m].gate
       THEN /\ conn' = [conn EXCEPT ![k].server = "admitted", ![k].callee.tls = ServerConfig(m)]
            /\ UNCHANGED node
       ELSE Close(k, "failed")
  /\ UNCHANGED <<delivered, commands, faults>>

(* The handshake, the caller's check of whom it reached, and its envelope. *)
Handshake(k) ==
  LET c == conn[k]
      caller == The(c.caller.tls.files)
      callee == The(c.callee.tls.files) IN
  /\ c.server = "admitted"
  /\ IF /\ c.client = "connected"
        /\ Verifies(caller, callee.leaf) /\ Verifies(callee, caller.leaf)
        /\ IdentityIs(callee.leaf, <<Config[The(c.from)].cluster, Peer(c).canonical>>)
       THEN conn' = [conn EXCEPT ![k].client = "sent", ![k].server = "reading"] /\ UNCHANGED node
       ELSE Close(k, "failed")
  /\ UNCHANGED <<delivered, commands, faults>>

(* The envelope, and what the callee requires of it.  The vote inside the  *)
(* request names the node whose Raft sent it.                              *)
Envelope(c) ==
  LET n == The(c.from) IN
  [cluster |-> Config[n].cluster, shard |-> Config[n].shard, source |-> Config[n].id,
   canonical |-> Config[n].canonical, target |-> c.target, target_canonical |-> Peer(c).canonical,
   vote |-> Config[n].id]
EnvelopeBound(e, m, leaf) ==                                        \* a mutant
  /\ e.cluster = Config[m].cluster /\ e.shard = Config[m].shard
  /\ e.target = Config[m].id /\ e.target_canonical = Config[m].canonical
  /\ e.vote = e.source
  /\ IdentityIs(leaf, <<Config[m].cluster, e.canonical>>)
EnvelopeValid(e, m, leaf) ==
  /\ e.cluster = Config[m].cluster /\ e.shard = Config[m].shard
  /\ e.target = Config[m].id /\ e.target_canonical = Config[m].canonical
  /\ e.vote = e.source
  /\ Allows(m, e.source, e.canonical)
  /\ IdentityIs(leaf, <<Config[m].cluster, e.canonical>>)

(* Raft is given the request; a caller that has gone does not stop that.   *)
Deliver(k) ==
  LET c == conn[k]
      e == Envelope(c) IN
  /\ c.server = "reading"
  /\ IF EnvelopeValid(e, The(c.to), The(c.caller.tls.files).leaf)
       THEN /\ delivered' = delivered \cup
                 {[call |-> k, at |-> The(c.to), from |-> The(c.from), source |-> e.vote,
                   leaf |-> The(c.caller.tls.files).leaf, caller |-> c.caller, callee |-> c.callee]}
            /\ conn' = [conn EXCEPT ![k].server = "delivering"]
            /\ UNCHANGED node
       ELSE Close(k, "failed") /\ UNCHANGED delivered
  /\ UNCHANGED <<commands, faults>>
Respond(k) == conn[k].server = "delivering" /\ Close(k, "answered") /\ UNCHANGED <<delivered, commands, faults>>

(* hard_ttl at the caller, VYRM_RAFT_SERVER_RPC_TIMEOUT at the callee.     *)
CallTimeout(k) ==
  /\ Waiting(conn[k]) /\ Fault
  /\ conn' = [conn EXCEPT ![k].client = "failed", ![k].server = IF @ = "backlog" THEN "closed" ELSE @]
  /\ UNCHANGED <<node, delivered, commands>>
ServeTimeout(k) == Serving(conn[k]) /\ Fault /\ Close(k, "failed") /\ UNCHANGED <<delivered, commands>>

Next ==
  \/ \E n \in Nodes : \/ Start(n) \/ Crash(n) \/ SetTransportEnabled(n) \/ RotateCredentials(n)
                      \/ Status(n) \/ RefusedLine(n) \/ RaftCommand(n) \/ WriteReply(n) \/ Shutdown(n)
  \/ \E k \in Calls : \/ Begin(k) \/ Connect(k) \/ Accept(k) \/ Admit(k) \/ Handshake(k)
                      \/ Deliver(k) \/ Respond(k) \/ CallTimeout(k) \/ ServeTimeout(k)

Spec == Init /\ [][Next]_vars

-----------------------------------------------------------------------------
(* Raft's requests and answers are whose they say: what a node's Raft is   *)
(* given in the name of a Raft id comes from the process its own inventory *)
(* calls by that id, and a caller's answer comes from the process its      *)
(* inventory calls the target, which was given the call.                   *)
CallsAreGenuine ==
  /\ \A d \in delivered :
       /\ Allows(d.at, d.source, Config[d.from].canonical)
       /\ Config[d.from].cluster = Config[d.at].cluster /\ Config[d.from].shard = Config[d.at].shard
  /\ \A k \in Calls : conn[k].client = "answered" =>
       /\ Config[The(conn[k].to)].canonical = Peer(conn[k]).canonical
       /\ \E d \in delivered : d.call = k

(* What an operator has been told holds for every later connection: a call *)
(* begun or accepted after the reply that named a generation is verified   *)
(* with that generation or a newer one, at both ends, and so is the leaf   *)
(* its request came with: a revoked leaf stays out from the reply on.      *)
RepliesTakeHold ==
  \A d \in delivered :
    /\ d.caller.tls.generation >= d.caller.told
    /\ d.callee.tls.generation >= d.callee.told
    /\ Verifies(The(d.callee.tls.files), d.leaf)
=============================================================================
