------------------------------- MODULE MCCluster ------------------------------
(***************************************************************************)
(* What replicas send each other, for TLC: the simulated cluster and the   *)
(* transport of the real one.  They share no state, so a behaviour follows *)
(* one of them, the one "part" names.                                      *)
(***************************************************************************)
EXTENDS MCSimCluster

VARIABLES part, node, conn, delivered, commands, faults

transportVars == <<node, conn, delivered, commands, faults>>
allVars == <<part, vars, transportVars>>

\* n1 and n2 know each other; n3 was misconfigured to claim n1's Raft id.
Processes == {"n1", "n2", "n3"}
Peer(process) == [canonical |-> process, endpoint |-> process]
ConfigOf(process) ==
    [cluster |-> "k", shard |-> 7, id |-> IF process = "n2" THEN 2 ELSE 1,
     canonical |-> process, listen |-> process,
     nodes |-> (1 :> Peer(IF process = "n3" THEN "n3" ELSE "n1")) @@ (2 :> Peer("n2"))]

\* The first credentials of each, a list in which n2 is told that those of n1 are
\* revoked, and their replacement.
Leaf(process, serial) == [uris |-> {<<"k", process>>}, root |-> "r", serial |-> serial]
TlsFiles(leaf, crls) == [leaf |-> leaf, roots |-> {"r"}, crls |-> crls]
AllFiles ==
    {TlsFiles(Leaf(process, 1), <<>>) : process \in Processes}
      \cup {TlsFiles(Leaf("n2", 1), "r" :> {Leaf("n1", 1)}), TlsFiles(Leaf("n1", 2), <<>>)}

Transport == INSTANCE RaftTransport
               WITH Nodes <- Processes, Config <- [n \in Processes |-> ConfigOf(n)],
                    Files <- AllFiles, Calls <- {1}, Kinds <- {"append"},
                    MaxInFlight <- 1, MaxCommands <- 2, MaxFaults <- 1

ClusterInit == part \in {"simulator", "transport"} /\ Init /\ Transport!Init

\* The transport stops when its bounds are used up.
AtRest == part = "transport" /\ UNCHANGED <<vars, transportVars>>

ClusterNext ==
    /\ \/ part = "simulator" /\ Next /\ UNCHANGED transportVars
       \/ part = "transport" /\ Transport!Next /\ UNCHANGED vars
       \/ AtRest
    /\ UNCHANGED part

ClusterSpec == ClusterInit /\ [][ClusterNext]_allVars

\* What Raft is given in the name of a Raft id comes from the process its own
\* inventory calls by that id, and an answer from the process the target is called
\* (WireEnvelope::validate, VyrmRaftNetworkClient::call).
CallsAreGenuine == part = "transport" => Transport!CallsAreGenuine

\* Once an operator was told of a rotation, no connection that a node makes or
\* accepts later is verified with what was in force before (VyrmTlsReloader::rotate,
\* server_config, client_config).
RepliesTakeHold == part = "transport" => Transport!RepliesTakeHold
=============================================================================
