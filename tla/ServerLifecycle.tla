-------------------------- MODULE ServerLifecycle --------------------------
(***************************************************************************)
(* How the parts of a server process start and stop (server/server.go,     *)
(* cmd/server/main.go, RaftNode.Start and Stop, GRPCTransport.Start and    *)
(* Close).  A phase names what has started, or stopped, last:              *)
(*                                                                         *)
(*   off         the process does not run                                  *)
(*   grpc        RPCs are accepted; the transport knows no node yet        *)
(*   registered  the transport knows the node, which has no election timer *)
(*   raft        the node's loop runs                                      *)
(*   up          the apply loop runs and HTTP requests are accepted        *)
(*   draining    Stop: Shutdown waits for the HTTP handlers                *)
(*   kvstopped   the apply loop is told to stop                            *)
(*   stopped     the node is stopped and its log closed                    *)
(***************************************************************************)
EXTENDS Naturals

CONSTANTS Node,
          MaxStops,  \* bound: signals to stop a server
          MaxDeaths  \* bound: processes that die of a panic

ASSUME LifecycleAssumption == MaxStops \in Nat /\ MaxDeaths \in Nat

VARIABLES phase, stops, deaths

lifeVars == <<phase, stops, deaths>>

(* The cluster is started: Server.Start has returned everywhere. *)
LifeInit == phase = [n \in Node |-> "up"] /\ stops = 0 /\ deaths = 0

Pass(n, from, to) == /\ phase[n] = from
                     /\ phase' = [phase EXCEPT ![n] = to]
                     /\ UNCHANGED <<stops, deaths>>

(* Server.Start: the process is started again. *)
StartGRPC(n)  == Pass(n, "off", "grpc")
Register(n)   == Pass(n, "grpc", "registered")
StartTimer(n) == Pass(n, "registered", "raft")
StartHTTP(n)  == Pass(n, "raft", "up")

(* A request of a peer is handled before node and timer are there: the     *)
(* handler meets a nil pointer, and the process dies.                      *)
EarlyRPC(n) ==
  /\ phase[n] \in {"grpc", "registered"} /\ deaths < MaxDeaths
  /\ phase' = [phase EXCEPT ![n] = "off"]
  /\ deaths' = deaths + 1
  /\ UNCHANGED stops

(* Server.Stop *)
Shutdown(n) ==
  /\ phase[n] = "up" /\ stops < MaxStops
  /\ phase' = [phase EXCEPT ![n] = "draining"]
  /\ stops' = stops + 1
  /\ UNCHANGED deaths

StopKV(n)   == Pass(n, "draining", "kvstopped")
StopNode(n) == Pass(n, "kvstopped", "stopped")

(* grpc.Close, and main returns. *)
Exit(n) == Pass(n, "stopped", "off")
=============================================================================
