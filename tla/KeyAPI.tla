------------------------------ MODULE KeyAPI ------------------------------
(***************************************************************************)
(* The key endpoints of the servers (server/api.go).  A server whose node  *)
(* does not lead sends the request on to the one it takes for the leader,  *)
(* waits 5 s at most and passes the answer back.  Requests may go round in *)
(* circles, servers stop with handlers under way, and a request that was   *)
(* given up may still be carried out.                                      *)
(*                                                                         *)
(* Who leads is up to the Raft core (module Raft); here leadership comes   *)
(* and goes as it likes.  What becomes of a proposal once the leader has   *)
(* appended it is ApplyPipeline's.                                         *)
(***************************************************************************)
EXTENDS ServerLifecycle, Sequences

CONSTANTS NoNode,
          Known,       \* the nodes whose addresses are in httpPeers
          MaxRequests, \* bound: requests of clients
          MaxHops,     \* bound: handlers of one request
          MaxChanges   \* bound: changes of leadership

ASSUME KeyAssumption ==
  /\ NoNode \notin Node /\ Known \subseteq Node
  /\ MaxRequests \in Nat /\ MaxHops \in Nat \ {0} /\ MaxChanges \in Nat

VARIABLES leads,     \* the nodes that are in state Leader
          leaderID,  \* the node each node takes for the leader
          changes,
          requests,  \* what clients asked
          hops       \* the handlers: hops[i][1] serves request i, hops[i][k + 1] is
                     \* called by hops[i][k]

vars == <<lifeVars, leads, leaderID, changes, requests, hops>>

Kinds == {"put", "get", "delete"}

(* proper: a key is given and, with a put, a value.  proposed and refused  *)
(* are history: how often the request was appended to a leader's log, and  *)
(* whether Propose turned it away.                                         *)
Request == [kind : Kinds, proper : BOOLEAN, proposed : Nat, refused : BOOLEAN]

Steps == {"start", "serve", "propose", "pending", "forward", "waiting", "done"}

(* 200, 404, 400, 503, 502, 500, and a connection that breaks. *)
Statuses == {"none", "ok", "not found", "bad", "no leader", "bad gateway",
             "error", "broken"}

(* body: the request's body has not been read yet. *)
Hop == [node : Node, step : Steps, body : BOOLEAN, status : Statuses]

Handler(n, body) == [node |-> n, step |-> "start", body |-> body, status |-> "none"]

Init ==
  /\ LifeInit
  /\ \E l \in Node : leads = {l} /\ leaderID = [n \in Node |-> l]
  /\ changes = 0 /\ requests = <<>> /\ hops = <<>>

At(i, k) == hops[i][k]

Goto(i, k, step) == hops' = [hops EXCEPT ![i][k].step = step]

Answer(i, k, status) ==
  hops' = [hops EXCEPT ![i][k].step = "done", ![i][k].status = status]

Active(i, k, step) == k \in DOMAIN hops[i] /\ At(i, k).step = step

-----------------------------------------------------------------------------
(* The Raft core: a node wins an election, or follows somebody or nobody.  *)
(* A campaign under way when its node is stopped may still win.            *)
Elect(n) ==
  /\ changes < MaxChanges /\ n \notin leads
  /\ phase[n] \notin {"off", "grpc", "registered"}
  /\ leads' = leads \cup {n}
  /\ leaderID' = [leaderID EXCEPT ![n] = n]
  /\ changes' = changes + 1
  /\ UNCHANGED <<lifeVars, requests, hops>>

Follow(n, l) ==
  /\ changes < MaxChanges
  /\ phase[n] \notin {"off", "grpc", "registered"}
  /\ leads' = leads \ {n}
  /\ leaderID' = [leaderID EXCEPT ![n] = l]
  /\ changes' = changes + 1
  /\ UNCHANGED <<lifeVars, requests, hops>>

(* A client sends a request to a server that takes requests. *)
Send(n, kind, proper) ==
  /\ phase[n] = "up" /\ Len(requests) < MaxRequests
  /\ requests' = Append(requests, [kind |-> kind, proper |-> proper,
                                   proposed |-> 0, refused |-> FALSE])
  /\ hops' = Append(hops, <<Handler(n, kind = "put")>>)
  /\ UNCHANGED <<lifeVars, leads, leaderID, changes>>

-----------------------------------------------------------------------------
(* HandlePut, HandleGet and HandleDelete begin alike. *)
ReadRequestEarly(i, k) ==  \* mutant: the body is read before asking who leads
  /\ Active(i, k, "start")
  /\ hops' = [hops EXCEPT ![i][k].step = IF At(i, k).node \in leads THEN "serve"
                                         ELSE "forward",
                          ![i][k].body = FALSE]
  /\ UNCHANGED <<lifeVars, leads, leaderID, changes, requests>>
IsLeader(i, k) ==
  /\ Active(i, k, "start")
  /\ Goto(i, k, IF At(i, k).node \in leads THEN "serve" ELSE "forward")
  /\ UNCHANGED <<lifeVars, leads, leaderID, changes, requests>>

(* The body is read; one that was read before is empty by now. *)
ReadRequest(i, k) ==
  LET q == requests[i]
      h == At(i, k)
  IN  /\ Active(i, k, "serve")
      /\ IF ~q.proper \/ (q.kind = "put" /\ ~h.body) THEN Answer(i, k, "bad")
         ELSE IF q.kind = "get" THEN \E s \in {"ok", "not found"} : Answer(i, k, s)
         ELSE hops' = [hops EXCEPT ![i][k].step = "propose", ![i][k].body = FALSE]
      /\ UNCHANGED <<lifeVars, leads, leaderID, changes, requests>>

(* Propose checks again under the lock. *)
Refuse(i, k) ==
  /\ Active(i, k, "propose") /\ At(i, k).node \notin leads
  /\ requests' = [requests EXCEPT ![i].refused = TRUE]
  /\ Goto(i, k, "forward")
  /\ UNCHANGED <<lifeVars, leads, leaderID, changes>>

Propose(i, k) ==
  /\ Active(i, k, "propose") /\ At(i, k).node \in leads
  /\ phase[At(i, k).node] # "stopped"
  /\ requests' = [requests EXCEPT ![i].proposed = @ + 1]
  /\ Goto(i, k, "pending")
  /\ UNCHANGED <<lifeVars, leads, leaderID, changes>>

(* The write-ahead log fails, as it must when it is closed. *)
ProposeFails(i, k) ==
  /\ Active(i, k, "propose") /\ At(i, k).node \in leads
  /\ Answer(i, k, "error")
  /\ UNCHANGED <<lifeVars, leads, leaderID, changes, requests>>

Committed(i, k) ==
  /\ Active(i, k, "pending")
  /\ Answer(i, k, "ok")
  /\ UNCHANGED <<lifeVars, leads, leaderID, changes, requests>>

(* "node stopped", whether the entry will be committed or not. *)
ProposeStoppedForwards(i, k) ==  \* mutant: any error sends the request on
  /\ Active(i, k, "pending") /\ phase[At(i, k).node] = "stopped"
  /\ Goto(i, k, "forward")
  /\ UNCHANGED <<lifeVars, leads, leaderID, changes, requests>>
ProposeStopped(i, k) ==
  /\ Active(i, k, "pending") /\ phase[At(i, k).node] = "stopped"
  /\ Answer(i, k, "error")
  /\ UNCHANGED <<lifeVars, leads, leaderID, changes, requests>>

-----------------------------------------------------------------------------
(* proxyToLeader: nobody to send to; the leader does not answer the        *)
(* connection; or the request goes on, with what is left of the body.      *)
Unforwarded(i, k) ==
  LET l == leaderID[At(i, k).node]
  IN  /\ Active(i, k, "forward")
      /\ \/ l \notin Known /\ Answer(i, k, "no leader")
         \/ l \in Known /\ phase[l] # "up" /\ Answer(i, k, "bad gateway")
      /\ UNCHANGED <<lifeVars, leads, leaderID, changes, requests>>

Forward(i, k) ==
  LET l == leaderID[At(i, k).node]
  IN  /\ Active(i, k, "forward") /\ Len(hops[i]) < MaxHops
      /\ l \in Known /\ phase[l] = "up"
      /\ hops' = [hops EXCEPT ![i] = Append([@ EXCEPT ![k].step = "waiting"],
                                            Handler(l, At(i, k).body))]
      /\ UNCHANGED <<lifeVars, leads, leaderID, changes, requests>>

Relay(i, k) ==
  /\ Active(i, k, "waiting") /\ At(i, k + 1).step = "done"
  /\ Answer(i, k, IF At(i, k + 1).status = "broken" THEN "bad gateway"
                                                    ELSE At(i, k + 1).status)
  /\ UNCHANGED <<lifeVars, leads, leaderID, changes, requests>>

(* The client of the forwarding handler gives up after 5 s, or when its    *)
(* own caller has gone.  The next handler goes on.                         *)
GiveUpAsNoLeader(i, k) ==  \* mutant: a timeout is reported as no leader
  /\ \/ Active(i, k, "waiting")
     \/ Active(i, k, "forward") /\ k > 1 /\ At(i, k - 1).step = "done"
  /\ Answer(i, k, "no leader")
  /\ UNCHANGED <<lifeVars, leads, leaderID, changes, requests>>
GiveUpWhenDone(i, k) ==  \* mutant: the client has no timeout
  /\ Active(i, k, "forward") /\ k > 1 /\ At(i, k - 1).step = "done"
  /\ Answer(i, k, "bad gateway")
  /\ UNCHANGED <<lifeVars, leads, leaderID, changes, requests>>
GiveUp(i, k) ==
  /\ \/ Active(i, k, "waiting")
     \/ Active(i, k, "forward") /\ k > 1 /\ At(i, k - 1).step = "done"
  /\ Answer(i, k, "bad gateway")
  /\ UNCHANGED <<lifeVars, leads, leaderID, changes, requests>>

Serve(i, k) ==
  \/ IsLeader(i, k) \/ ReadRequest(i, k) \/ Refuse(i, k) \/ Propose(i, k)
  \/ ProposeFails(i, k) \/ ProposeStopped(i, k) \/ Unforwarded(i, k)
  \/ Forward(i, k) \/ Relay(i, k)

-----------------------------------------------------------------------------
(* A server starts, stops or dies.                                         *)
Begin(n) ==
  /\ StartGRPC(n) \/ Register(n) \/ StartTimer(n) \/ StartHTTP(n) \/ EarlyRPC(n)
  /\ UNCHANGED <<leads, leaderID, changes, requests, hops>>

Stop(n) == Shutdown(n) /\ UNCHANGED <<leads, leaderID, changes, requests, hops>>

Busy(n) == \E i \in DOMAIN hops : \E k \in DOMAIN hops[i] :
             At(i, k).node = n /\ At(i, k).step # "done"

(* Shutdown returns when no handler is left, or after 5 s. *)
DrainAll(n) ==  \* mutant: Shutdown without a deadline
  /\ ~Busy(n) /\ StopKV(n)
  /\ UNCHANGED <<leads, leaderID, changes, requests, hops>>
Drain(n) == StopKV(n) /\ UNCHANGED <<leads, leaderID, changes, requests, hops>>

(* RaftNode.Stop leaves leaderID as it is. *)
Halt(n) == /\ StopNode(n)
           /\ leads' = leads \ {n}
           /\ UNCHANGED <<leaderID, changes, requests, hops>>

(* The process ends, and with it the handlers that still ran. *)
Quit(n) ==
  /\ Exit(n)
  /\ leads' = leads \ {n}
  /\ leaderID' = [leaderID EXCEPT ![n] = NoNode]
  /\ hops' = [i \in DOMAIN hops |-> [k \in DOMAIN hops[i] |->
                IF At(i, k).node = n /\ At(i, k).step # "done"
                THEN [At(i, k) EXCEPT !.step = "done", !.status = "broken"]
                ELSE At(i, k)]]
  /\ UNCHANGED <<changes, requests>>

Next ==
  \/ \E n \in Node :
       \/ \E kind \in Kinds, proper \in BOOLEAN : Send(n, kind, proper)
       \/ Elect(n) \/ \E l \in (Node \ {n}) \cup {NoNode} : Follow(n, l)
       \/ Begin(n) \/ Stop(n) \/ Drain(n) \/ Halt(n) \/ Quit(n)
  \/ \E i \in DOMAIN hops : \E k \in DOMAIN hops[i] :
       Serve(i, k) \/ Committed(i, k) \/ GiveUp(i, k)

Spec == Init /\ [][Next]_vars

(* Handlers run, a forwarding client gives up, and a server that stops     *)
(* goes on stopping.  Nothing makes a proposal commit.                     *)
FairSpec ==
  /\ Spec
  /\ \A i \in 1 .. MaxRequests, k \in 1 .. MaxHops :
       /\ WF_vars(i \in DOMAIN hops /\ Serve(i, k))
       /\ WF_vars(i \in DOMAIN hops /\ GiveUp(i, k))
  /\ \A n \in Node : WF_vars(Drain(n) \/ Halt(n) \/ Quit(n))

-----------------------------------------------------------------------------
(* A request is appended to a leader's log once at most, however many      *)
(* servers it passes, and whoever gives up on it on the way.               *)
AtMostOnce == \A i \in DOMAIN requests : requests[i].proposed <= 1

(* A client that is told 400, 404 or 503 knows that its write is in no     *)
(* log, now or later; a client that is told 200 knows that it got there.   *)
(* After 500 and 502 it knows nothing.                                     *)
AnswersAreTrue ==
  \A i \in DOMAIN requests :
    /\ At(i, 1).status \in {"bad", "not found", "no leader"} => requests[i].proposed = 0
    /\ At(i, 1).status = "ok" /\ requests[i].kind # "get" => requests[i].proposed = 1

(* A proper put is called malformed only if leadership was lost between    *)
(* IsLeader and Propose: the body had been read by then.                   *)
BadOnlyAfterRefusal ==
  \A i \in DOMAIN requests :
    At(i, 1).status = "bad" /\ requests[i].proper => requests[i].refused

(* A handler ends, in whatever circles its request goes and whoever stops, *)
(* unless it waits for its own proposal.                                   *)
HandlersEnd ==
  \A i \in 1 .. MaxRequests :
    Len(hops) >= i ~> (Len(hops) >= i /\ At(i, 1).step \in {"pending", "done"})

(* A server that was told to stop stops, though its handlers wait for      *)
(* proposals that only end when the node is stopped.                       *)
StopEnds == \A n \in Node : phase[n] = "draining" ~> phase[n] = "off"
=============================================================================
