-------------------------- MODULE RaftLogMatching --------------------------
(***************************************************************************)
(* Log matching for the Raft core, stated for as long as elections give    *)
(* every term one leader.  (They may not: see ElectionSafety in Raft.)     *)
(* The history variable led remembers who led which term.                  *)
(***************************************************************************)
EXTENDS RaftRestart

VARIABLE led  \* pairs <<term, node>>: node has been leader in that term

historyVars == <<restartVars, led>>

HistoryInit == RestartInit /\ led = {}

HistoryNext ==
  /\ RestartNext
  /\ led' = led \cup {<<currentTerm'[n], n>> :
                        n \in {x \in Node : state'[x] = "Leader"}}

HistorySpec == HistoryInit /\ [][HistoryNext]_historyVars

(* Up to term t every term has had at most one leader. *)
OneLeaderUpTo(t) ==
  \A x, y \in led : x[1] = y[1] /\ x[1] <= t => x[2] = y[2]

(* If two logs hold an entry of the same term at the same index, they are  *)
(* equal up to there: what the PrevLogIndex/PrevLogTerm check and the      *)
(* conflict rule of handleAppendEntries are for.  Delayed, reordered and   *)
(* repeated requests of leaders of several terms must not break it.        *)
LogMatching ==
  \A a \in Node : \A b \in Node \ {a} : \A i \in 1 .. Len(log[a]) :
    (i <= Len(log[b]) /\ log[a][i].term = log[b][i].term)
      => \/ \A j \in 1 .. i : log[a][j] = log[b][j]
         \/ ~OneLeaderUpTo(log[a][i].term)
=============================================================================
