---------------------------- MODULE LiveTimings ----------------------------
(***************************************************************************)
(* Timings that change while a node runs (UpdateTimings, GetTimings and    *)
(* run in raft/node.go).  UpdateTimings sets the configuration under n.mu  *)
(* and, without the lock, hands the heartbeat interval to run() through a  *)
(* channel for one value: when there is a value in the channel already, it *)
(* takes it out and sends its own.                                         *)
(*                                                                         *)
(* An update is named by who asked for it; update[u] says where its call   *)
(* of UpdateTimings is.  Durations are whole numbers, negative ones too.   *)
(***************************************************************************)
EXTENDS Integers, Sequences

CONSTANTS Node,
          Update,      \* the calls of UpdateTimings that may be made
          Initial,     \* election timeout and heartbeat to begin with
          Stoppable    \* bound: the nodes that may be stopped

ASSUME TimingsAssumption == /\ Initial \in [et : Nat \ {0}, hb : Nat \ {0}]
                            /\ Stoppable \subseteq Node
                            /\ "none" \notin Node

VARIABLES config,          \* the timings in each node's configuration
          ticker,          \* the interval run() ticks with
          timingUpdateCh,  \* empty, or one interval
          running,         \* the nodes whose run() has not returned
          update,
          overlapped       \* history: nodes where two updates were under way at once

timingVars == <<config, ticker, timingUpdateCh, running, update, overlapped>>

NotCalled == [step |-> "none", node |-> "none", et |-> 0, hb |-> 0]
Returned  == [NotCalled EXCEPT !.step = "done"]

TimingsInit ==
  /\ config = [n \in Node |-> Initial]
  /\ ticker = [n \in Node |-> Initial.hb]
  /\ timingUpdateCh = [n \in Node |-> <<>>]
  /\ running = Node
  /\ update = [u \in Update |-> NotCalled]
  /\ overlapped = {}

At(u, step) == update[u].step = step

Goto(u, step) == update' = [update EXCEPT ![u].step = step]

UnderWay(n) == {u \in Update : update[u].node = n}

(* The call is made; a second one at the same time is remembered. *)
Call(us, n, et, hb) ==
  /\ update' = [update EXCEPT ![us] = [step |-> "set", node |-> n, et |-> et, hb |-> hb]]
  /\ overlapped' = IF UnderWay(n) = {} THEN overlapped ELSE overlapped \cup {n}
  /\ UNCHANGED <<config, ticker, timingUpdateCh, running>>

(* What is not positive leaves a value unchanged.  From here on hb is what *)
(* will be sent.                                                           *)
SetAnyHeartbeat(u) ==  \* mutant: only zero means unchanged
  LET n == update[u].node
      c == [et |-> IF update[u].et > 0 THEN update[u].et ELSE config[n].et,
            hb |-> IF update[u].hb # 0 THEN update[u].hb ELSE config[n].hb]
  IN  /\ At(u, "set")
      /\ config' = [config EXCEPT ![n] = c]
      /\ update' = [update EXCEPT ![u].step = "send", ![u].hb = c.hb]
      /\ UNCHANGED <<ticker, timingUpdateCh, running, overlapped>>
SetConfig(u) ==
  LET n == update[u].node
      c == [et |-> IF update[u].et > 0 THEN update[u].et ELSE config[n].et,
            hb |-> IF update[u].hb > 0 THEN update[u].hb ELSE config[n].hb]
  IN  /\ At(u, "set")
      /\ config' = [config EXCEPT ![n] = c]
      /\ update' = [update EXCEPT ![u].step = "send", ![u].hb = c.hb]
      /\ UNCHANGED <<ticker, timingUpdateCh, running, overlapped>>

(* The select that does not block. *)
SendOrSkip(u) ==  \* mutant: when the channel is full, the new value is dropped
  LET n == update[u].node
  IN  /\ At(u, "send")
      /\ timingUpdateCh' = [timingUpdateCh EXCEPT ![n] = IF @ = <<>> THEN <<update[u].hb>>
                                                         ELSE @]
      /\ Goto(u, "read")
      /\ UNCHANGED <<config, ticker, running, overlapped>>
Send(u) ==
  LET n == update[u].node
  IN  /\ At(u, "send")
      /\ IF timingUpdateCh[n] = <<>>
         THEN /\ timingUpdateCh' = [timingUpdateCh EXCEPT ![n] = <<update[u].hb>>]
              /\ Goto(u, "read")
         ELSE Goto(u, "drain") /\ UNCHANGED timingUpdateCh
      /\ UNCHANGED <<config, ticker, running, overlapped>>

(* The stale value is taken out, unless run() was faster. *)
DrainBlocking(u) ==  \* mutant: waits for a value to take out
  /\ At(u, "drain")
  /\ timingUpdateCh[update[u].node] # <<>>
  /\ timingUpdateCh' = [timingUpdateCh EXCEPT ![update[u].node] = <<>>]
  /\ Goto(u, "resend")
  /\ UNCHANGED <<config, ticker, running, overlapped>>
Drain(u) ==
  /\ At(u, "drain")
  /\ timingUpdateCh' = [timingUpdateCh EXCEPT ![update[u].node] = <<>>]
  /\ Goto(u, "resend")
  /\ UNCHANGED <<config, ticker, running, overlapped>>

(* This send blocks. *)
Resend(u) ==
  LET n == update[u].node
  IN  /\ At(u, "resend") /\ timingUpdateCh[n] = <<>>
      /\ timingUpdateCh' = [timingUpdateCh EXCEPT ![n] = <<update[u].hb>>]
      /\ Goto(u, "read")
      /\ UNCHANGED <<config, ticker, running, overlapped>>

UpdateTimings(u) == SetConfig(u) \/ Send(u) \/ Drain(u) \/ Resend(u)

(* run() starts a new ticker. *)
Receive(n) ==
  /\ n \in running /\ timingUpdateCh[n] # <<>>
  /\ ticker' = [ticker EXCEPT ![n] = Head(timingUpdateCh[n])]
  /\ timingUpdateCh' = [timingUpdateCh EXCEPT ![n] = <<>>]
  /\ UNCHANGED <<config, running, update, overlapped>>

(* stopCh is closed, and run() returns: nobody receives any more. *)
Stop(n) ==
  /\ n \in running \cap Stoppable
  /\ running' = running \ {n}
  /\ UNCHANGED <<config, ticker, timingUpdateCh, update, overlapped>>
=============================================================================
