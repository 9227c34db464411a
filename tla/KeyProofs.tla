----------------------------- MODULE KeyProofs -----------------------------
(***************************************************************************)
(* The key endpoints of module KeyAPI, for any number of servers, requests *)
(* and hops of a request: a write is proposed once at most, and what a     *)
(* client is told is true, whoever leads, stops or gives up on the way.    *)
(*                                                                         *)
(* The handlers of a request form a chain in which only the last one is at *)
(* work; all before it wait or are done.  The invariant Served says what   *)
(* the last handler and the answers so far know about the request.         *)
(***************************************************************************)
EXTENDS KeyAPI, SequenceTheorems, TLAPS

(* Answers that deny that anything was written. *)
Denials == {"bad", "not found", "no leader"}

LastOf(hs) == hs[Len(hs)]

Chained(hs) ==
  /\ Len(hs) >= 1
  /\ \A k \in 1 .. Len(hs) - 1 : hs[k].step \in {"waiting", "done"}
  /\ LastOf(hs).step # "waiting"

(* What the step of the last handler, with or without a body to read,      *)
(* tells about the request.                                                *)
AtWork(q, step, body) ==
  /\ q.proposed \in {0, 1}
  /\ q.proposed = 1 => step \in {"pending", "done"}
  /\ step = "pending" => q.proposed = 1
  /\ step \in {"start", "serve", "forward"} /\ q.kind = "put" /\ ~body => q.refused

(* What an answer tells, when the last handler is at step. *)
Truthful(q, step, status) ==
  /\ status \in Denials => q.proposed = 0 /\ step = "done"
  /\ status = "ok" /\ q.kind # "get" => q.proposed = 1
  /\ status = "bad" /\ q.proper => q.refused

Served(q, hs) ==
  /\ Chained(hs)
  /\ AtWork(q, LastOf(hs).step, LastOf(hs).body)
  /\ \A k \in 1 .. Len(hs) : Truthful(q, LastOf(hs).step, hs[k].status)

KeyTypes == /\ requests \in Seq(Request) /\ hops \in Seq(Seq(Hop))
            /\ Len(hops) = Len(requests)

KeyInv == KeyTypes /\ \A i \in 1 .. Len(requests) : Served(requests[i], hops[i])

-----------------------------------------------------------------------------
(* Request i has become q, its handlers hs. *)
Becomes(i, q, hs) ==
  /\ requests' = [requests EXCEPT ![i] = q]
  /\ hops' = [hops EXCEPT ![i] = hs]

LEMMA ReadKeys ==
  ASSUME KeyInv, NEW i \in DOMAIN hops
  PROVE  /\ i \in 1 .. Len(requests) /\ i \in 1 .. Len(hops)
         /\ requests[i] \in Request /\ hops[i] \in Seq(Hop)
         /\ Len(hops[i]) \in Nat /\ DOMAIN hops[i] = 1 .. Len(hops[i])
         /\ Served(requests[i], hops[i])
<1>1. i \in 1 .. Len(requests) /\ i \in 1 .. Len(hops)
  BY LenProperties DEF KeyInv, KeyTypes
<1>2. requests[i] \in Request /\ hops[i] \in Seq(Hop)
  BY <1>1, ElementOfSeq DEF KeyInv, KeyTypes
<1>. QED  BY <1>1, <1>2, LenProperties DEF KeyInv

LEMMA OneRequest ==
  ASSUME KeyInv, NEW i \in DOMAIN hops, NEW q \in Request, NEW hs \in Seq(Hop),
         Served(q, hs), Becomes(i, q, hs)
  PROVE  KeyInv'
<1>1. i \in 1 .. Len(requests) /\ i \in 1 .. Len(hops)
  BY ReadKeys
<1>2. requests' \in Seq(Request) /\ Len(requests') = Len(requests)
  BY <1>1, ExceptSeq DEF Becomes, KeyInv, KeyTypes
<1>3. hops' \in Seq(Seq(Hop)) /\ Len(hops') = Len(hops)
  BY <1>1, ExceptSeq DEF Becomes, KeyInv, KeyTypes
<1>4. ASSUME NEW j \in 1 .. Len(requests) PROVE Served(requests'[j], hops'[j])
  <2>1. requests'[j] = IF j = i THEN q ELSE requests[j]
    BY <1>1, <1>4, ExceptSeq DEF Becomes, KeyInv, KeyTypes
  <2>2. hops'[j] = IF j = i THEN hs ELSE hops[j]
    BY <1>1, <1>4, ExceptSeq DEF Becomes, KeyInv, KeyTypes
  <2>3. Served(requests[j], hops[j])
    BY DEF KeyInv
  <2>. QED  BY <2>1, <2>2, <2>3
<1>. QED  BY <1>2, <1>3, <1>4 DEF KeyInv, KeyTypes

(* A handler at work is the last. *)
LEMMA WorkerIsLast ==
  ASSUME NEW hs \in Seq(Hop), Chained(hs), NEW k \in DOMAIN hs,
         hs[k].step \in {"start", "serve", "propose", "pending", "forward"}
  PROVE  k = Len(hs) /\ LastOf(hs) = hs[k]
<1>1. Len(hs) \in Nat /\ k \in 1 .. Len(hs)
  BY LenProperties
<1>2. k \notin 1 .. Len(hs) - 1
  BY DEF Chained
<1>3. k = Len(hs)
  BY <1>1, <1>2
<1>. QED  BY <1>3 DEF LastOf

(* The last handler moves on, and perhaps the request learns something. *)
LEMMA LastMoves ==
  ASSUME NEW q, NEW hs \in Seq(Hop), Served(q, hs), NEW r, NEW h \in Hop,
         h.step # "waiting", AtWork(r, h.step, h.body),
         Truthful(r, h.step, h.status),
         \A s \in Statuses : Truthful(q, LastOf(hs).step, s) => Truthful(r, h.step, s)
  PROVE  /\ [hs EXCEPT ![Len(hs)] = h] \in Seq(Hop)
         /\ Served(r, [hs EXCEPT ![Len(hs)] = h])
<1>. DEFINE n == Len(hs)
            hh == [hs EXCEPT ![n] = h]
<1>1. n \in Nat /\ n >= 1 /\ n \in 1 .. n
  BY LenProperties DEF Served, Chained
<1>2. /\ hh \in Seq(Hop) /\ Len(hh) = n
      /\ \A j \in 1 .. n : hh[j] = IF j = n THEN h ELSE hs[j]
  BY <1>1, ExceptSeq
<1>. HIDE DEF hh
<1>3. LastOf(hh) = h
  BY <1>1, <1>2 DEF LastOf
<1>4. \A j \in 1 .. n - 1 : hh[j] = hs[j] /\ hs[j].step \in {"waiting", "done"}
  BY <1>1, <1>2 DEF Served, Chained
<1>5. Chained(hh)
  BY <1>1, <1>2, <1>3, <1>4 DEF Chained
<1>6. ASSUME NEW j \in 1 .. n PROVE Truthful(r, h.step, hh[j].status)
  <2>1. CASE j = n
    BY <1>2, <2>1
  <2>2. CASE j # n
    <3>1. hh[j] = hs[j] /\ hs[j] \in Hop
      BY <1>2, <2>2, ElementOfSeq
    <3>2. hs[j].status \in Statuses
      BY <3>1 DEF Hop
    <3>. QED  BY <3>1, <3>2 DEF Served
  <2>. QED  BY <2>1, <2>2
<1>7. Served(r, hh)
  BY <1>2, <1>3, <1>5, <1>6 DEF Served
<1>. QED  BY <1>2, <1>7 DEF hh

(* A handler that waits, or any other, ends with an answer that tells no   *)
(* more than is known.                                                     *)
LEMMA SomeoneEnds ==
  ASSUME NEW q, NEW hs \in Seq(Hop), Served(q, hs), NEW k \in DOMAIN hs, k # Len(hs),
         NEW h \in Hop, h.step = "done", Truthful(q, LastOf(hs).step, h.status)
  PROVE  /\ [hs EXCEPT ![k] = h] \in Seq(Hop)
         /\ Served(q, [hs EXCEPT ![k] = h])
<1>. DEFINE n == Len(hs)
            hh == [hs EXCEPT ![k] = h]
<1>1. n \in Nat /\ n >= 1 /\ k \in 1 .. n
  BY LenProperties DEF Served, Chained
<1>2. /\ hh \in Seq(Hop) /\ Len(hh) = n
      /\ \A j \in 1 .. n : hh[j] = IF j = k THEN h ELSE hs[j]
  BY <1>1, ExceptSeq
<1>. HIDE DEF hh
<1>3. LastOf(hh) = LastOf(hs)
  BY <1>1, <1>2 DEF LastOf
<1>4. \A j \in 1 .. n - 1 : hh[j].step \in {"waiting", "done"}
  BY <1>1, <1>2 DEF Served, Chained
<1>5. Chained(hh)
  BY <1>1, <1>2, <1>3, <1>4 DEF Served, Chained
<1>6. \A j \in 1 .. n : Truthful(q, LastOf(hs).step, hh[j].status)
  BY <1>1, <1>2 DEF Served
<1>7. Served(q, hh)
  BY <1>2, <1>3, <1>5, <1>6 DEF Served
<1>. QED  BY <1>2, <1>7 DEF hh

-----------------------------------------------------------------------------
(* The steps of a handler that is at work. *)

Working == {"start", "serve", "propose", "pending", "forward"}

LEMMA WorkerStep ==
  ASSUME KeyInv, NEW i \in DOMAIN hops, NEW k \in DOMAIN hops[i],
         hops[i][k].step \in Working, NEW r \in Request, NEW h \in Hop,
         h.step # "waiting", AtWork(r, h.step, h.body), Truthful(r, h.step, h.status),
         \A s \in Statuses :
           Truthful(requests[i], hops[i][k].step, s) => Truthful(r, h.step, s),
         Becomes(i, r, [hops[i] EXCEPT ![k] = h])
  PROVE  KeyInv'
<1>. DEFINE hs == hops[i]
<1>1. hs \in Seq(Hop) /\ Served(requests[i], hs)
  BY ReadKeys
<1>2. k = Len(hs) /\ LastOf(hs) = hs[k]
  BY <1>1, WorkerIsLast DEF Served, Working
<1>3. /\ [hs EXCEPT ![k] = h] \in Seq(Hop)
      /\ Served(r, [hs EXCEPT ![k] = h])
  BY <1>1, <1>2, LastMoves
<1>. QED  BY <1>3, OneRequest

(* What is known of a handler at work. *)
LEMMA WorkerKnows ==
  ASSUME KeyInv, NEW i \in DOMAIN hops, NEW k \in DOMAIN hops[i],
         hops[i][k].step \in Working
  PROVE  /\ hops[i][k] \in Hop /\ requests[i] \in Request
         /\ AtWork(requests[i], hops[i][k].step, hops[i][k].body)
         /\ Truthful(requests[i], hops[i][k].step, hops[i][k].status)
<1>1. /\ hops[i] \in Seq(Hop) /\ requests[i] \in Request
      /\ Served(requests[i], hops[i]) /\ k \in 1 .. Len(hops[i])
  BY ReadKeys
<1>2. LastOf(hops[i]) = hops[i][k] /\ hops[i][k] \in Hop
  BY <1>1, WorkerIsLast, ElementOfSeq DEF Served, Working
<1>. QED  BY <1>1, <1>2 DEF Served

(* A handler at another step, with its body read or with an answer. *)
Moved(h, step)   == [h EXCEPT !.step = step]
Read(h, step)    == [h EXCEPT !.step = step, !.body = FALSE]
Ended(h, status) == [h EXCEPT !.step = "done", !.status = status]

LEMMA HopFields ==
  ASSUME NEW h \in Hop
  PROVE  h.body \in BOOLEAN /\ h.status \in Statuses /\ h.node \in Node
BY DEF Hop

LEMMA MovedFields ==
  ASSUME NEW h \in Hop, NEW step \in Steps
  PROVE  /\ Moved(h, step) \in Hop /\ Moved(h, step).step = step
         /\ Moved(h, step).body = h.body /\ Moved(h, step).status = h.status
BY HopFields DEF Hop, Moved

LEMMA ReadFields ==
  ASSUME NEW h \in Hop, NEW step \in Steps
  PROVE  /\ Read(h, step) \in Hop /\ Read(h, step).step = step
         /\ Read(h, step).body = FALSE /\ Read(h, step).status = h.status
BY HopFields DEF Hop, Read

LEMMA EndedFields ==
  ASSUME NEW h \in Hop, NEW status \in Statuses
  PROVE  /\ Ended(h, status) \in Hop /\ Ended(h, status).step = "done"
         /\ Ended(h, status).status = status
BY HopFields DEF Hop, Ended, Steps

LEMMA GotoBecomes ==
  ASSUME KeyInv, NEW i \in DOMAIN hops, NEW k \in DOMAIN hops[i], NEW step,
         Goto(i, k, step)
  PROVE  hops' = [hops EXCEPT ![i] = [hops[i] EXCEPT ![k] = Moved(hops[i][k], step)]]
BY DEF Goto, Moved

LEMMA AnswerBecomes ==
  ASSUME KeyInv, NEW i \in DOMAIN hops, NEW k \in DOMAIN hops[i], NEW status,
         Answer(i, k, status)
  PROVE  hops' = [hops EXCEPT ![i] = [hops[i] EXCEPT ![k] = Ended(hops[i][k], status)]]
BY DEF Answer, Ended

ReadBody(i, k) == hops' = [hops EXCEPT ![i][k].step = "propose", ![i][k].body = FALSE]

LEMMA ReadBecomes ==
  ASSUME NEW i \in DOMAIN hops, NEW k \in DOMAIN hops[i], ReadBody(i, k)
  PROVE  hops' = [hops EXCEPT ![i] = [hops[i] EXCEPT ![k] = Read(hops[i][k], "propose")]]
BY DEF Read, ReadBody

(* A handler at work answers. *)
LEMMA WorkerAnswers ==
  ASSUME KeyInv, NEW i \in DOMAIN hops, NEW k \in DOMAIN hops[i],
         hops[i][k].step \in Working, NEW status \in Statuses, Answer(i, k, status),
         requests' = requests, Truthful(requests[i], "done", status)
  PROVE  KeyInv'
<1>. DEFINE h == Ended(hops[i][k], status)
<1>1. /\ hops[i][k] \in Hop /\ requests[i] \in Request
      /\ AtWork(requests[i], hops[i][k].step, hops[i][k].body)
  BY WorkerKnows
<1>3. h \in Hop /\ h.step = "done" /\ h.status = status
  BY <1>1, EndedFields
<1>4. Becomes(i, requests[i], [hops[i] EXCEPT ![k] = h])
  <2>1. requests' = [requests EXCEPT ![i] = requests[i]]
    BY ReadKeys DEF KeyInv, KeyTypes
  <2>2. hops' = [hops EXCEPT ![i] = [hops[i] EXCEPT ![k] = h]]
    BY AnswerBecomes
  <2>. HIDE DEF h
  <2>. QED  BY <2>1, <2>2 DEF Becomes
<1>. HIDE DEF h
<1>5. AtWork(requests[i], "done", h.body)
  BY <1>1 DEF AtWork
<1>6. \A s \in Statuses : Truthful(requests[i], hops[i][k].step, s)
                            => Truthful(requests[i], "done", s)
  BY DEF Truthful
<1>. QED  BY <1>1, <1>3, <1>4, <1>5, <1>6, WorkerStep

(* It goes on, without or with a change of the request. *)
(* Hop k of request i goes to a step at which what its work knows of the   *)
(* request, now r, still holds.                                            *)
GoesOn(i, k, step, r) ==
  /\ Goto(i, k, step) /\ requests' = [requests EXCEPT ![i] = r]
  /\ AtWork(r, step, hops[i][k].body)
  /\ \A s \in Statuses :
       Truthful(requests[i], hops[i][k].step, s) => Truthful(r, step, s)

LEMMA WorkerGoes ==
  ASSUME KeyInv, NEW i \in DOMAIN hops, NEW k \in DOMAIN hops[i],
         hops[i][k].step \in Working, NEW step \in Working,
         NEW r \in Request, GoesOn(i, k, step, r)
  PROVE  KeyInv'
<1>0. /\ Goto(i, k, step) /\ requests' = [requests EXCEPT ![i] = r]
      /\ AtWork(r, step, hops[i][k].body)
      /\ \A s \in Statuses :
           Truthful(requests[i], hops[i][k].step, s) => Truthful(r, step, s)
  BY DEF GoesOn
<1>. DEFINE h == Moved(hops[i][k], step)
<1>1. /\ hops[i][k] \in Hop /\ requests[i] \in Request
      /\ Truthful(requests[i], hops[i][k].step, hops[i][k].status)
  BY WorkerKnows
<1>2. /\ step \in Steps /\ step # "waiting" /\ hops[i][k].body \in BOOLEAN
      /\ hops[i][k].status \in Statuses
  BY <1>1 DEF Steps, Working, Hop
<1>3. h \in Hop /\ h.step = step /\ h.status = hops[i][k].status
      /\ h.body = hops[i][k].body
  BY <1>1, <1>2, MovedFields
<1>4. Becomes(i, r, [hops[i] EXCEPT ![k] = h])
  BY <1>0, GotoBecomes DEF Becomes
<1>. HIDE DEF h
<1>. QED  BY <1>0, <1>1, <1>2, <1>3, <1>4, WorkerStep

-----------------------------------------------------------------------------
(* The request is refused, or proposed. *)
Refused(q)  == [q EXCEPT !.refused = TRUE]
Proposed(q) == [q EXCEPT !.proposed = @ + 1]

LEMMA RequestFields ==
  ASSUME NEW q \in Request
  PROVE  /\ q.kind \in Kinds /\ q.proper \in BOOLEAN /\ q.proposed \in Nat
         /\ q.refused \in BOOLEAN
BY DEF Request

LEMMA RefusedFields ==
  ASSUME NEW q \in Request
  PROVE  /\ Refused(q) \in Request /\ Refused(q).refused = TRUE
         /\ Refused(q).kind = q.kind /\ Refused(q).proper = q.proper
         /\ Refused(q).proposed = q.proposed
BY RequestFields DEF Request, Refused

LEMMA ProposedFields ==
  ASSUME NEW q \in Request
  PROVE  /\ Proposed(q) \in Request /\ Proposed(q).proposed = q.proposed + 1
         /\ Proposed(q).kind = q.kind /\ Proposed(q).proper = q.proper
         /\ Proposed(q).refused = q.refused
<1>1. q.proposed + 1 \in Nat
  BY RequestFields
<1>. QED  BY <1>1, RequestFields DEF Request, Proposed

LEMMA SameRequests ==
  ASSUME KeyInv, NEW i \in DOMAIN hops, requests' = requests
  PROVE  requests' = [requests EXCEPT ![i] = requests[i]]
BY ReadKeys DEF KeyInv, KeyTypes

LEMMA IsLeaderKeeps ==
  ASSUME KeyInv, NEW i \in DOMAIN hops, NEW k \in DOMAIN hops[i], IsLeader(i, k)
  PROVE  KeyInv'
<1>1. PICK step \in {"serve", "forward"} : Goto(i, k, step)
  BY DEF IsLeader
<1>2. hops[i][k].step = "start" /\ requests' = requests
  BY DEF IsLeader, Active, At
<1>3. "start" \in Working /\ step \in Working
  BY DEF Working
<1>4. /\ requests[i] \in Request
      /\ AtWork(requests[i], "start", hops[i][k].body)
  BY <1>2, <1>3, WorkerKnows
<1>5. AtWork(requests[i], step, hops[i][k].body)
  BY <1>4 DEF AtWork
<1>6. \A s \in Statuses : Truthful(requests[i], "start", s)
                            => Truthful(requests[i], step, s)
  BY DEF Truthful
<1>7. GoesOn(i, k, step, requests[i])
  BY <1>1, <1>2, <1>5, <1>6, SameRequests DEF GoesOn
<1>. QED  BY <1>2, <1>3, <1>4, <1>7, WorkerGoes

LEMMA ReadRequestKeeps ==
  ASSUME KeyInv, NEW i \in DOMAIN hops, NEW k \in DOMAIN hops[i], ReadRequest(i, k)
  PROVE  KeyInv'
<1>. DEFINE q == requests[i]
            h == hops[i][k]
<1>1. h.step = "serve" /\ requests' = requests
  BY DEF ReadRequest, Active, At
<1>2. "serve" \in Working
  BY DEF Working
<1>3. q \in Request /\ h \in Hop /\ AtWork(q, "serve", h.body)
      /\ Truthful(q, "serve", h.status)
  BY <1>1, <1>2, WorkerKnows
<1>4. q.proposed = 0
  BY <1>3 DEF AtWork
<1>5. ASSUME NEW s \in Statuses, Answer(i, k, s), Truthful(q, "done", s) PROVE KeyInv'
  BY <1>1, <1>2, <1>5, WorkerAnswers
<1>6. CASE ~q.proper \/ (q.kind = "put" /\ ~h.body)
  <2>1. Answer(i, k, "bad") /\ "bad" \in Statuses
    BY <1>6 DEF ReadRequest, At, Statuses
  <2>2. q.proper => q.refused
    BY <1>3, <1>6 DEF AtWork
  <2>3. Truthful(q, "done", "bad")
    BY <1>4, <2>2 DEF Truthful
  <2>. QED  BY <1>5, <2>1, <2>3
<1>7. CASE ~(~q.proper \/ (q.kind = "put" /\ ~h.body)) /\ q.kind = "get"
  <2>1. PICK s \in {"ok", "not found"} : Answer(i, k, s)
    BY <1>7 DEF ReadRequest, At
  <2>2. s \in Statuses /\ Truthful(q, "done", s)
    BY <1>4, <1>7 DEF Truthful, Statuses
  <2>. QED  BY <1>5, <2>1, <2>2
<1>8. CASE ~(~q.proper \/ (q.kind = "put" /\ ~h.body)) /\ q.kind # "get"
  <2>. DEFINE g == Read(h, "propose")
  <2>1. ReadBody(i, k)
    BY <1>8 DEF ReadRequest, At, ReadBody
  <2>2. hops' = [hops EXCEPT ![i] = [hops[i] EXCEPT ![k] = g]]
    BY <2>1, ReadBecomes
  <2>3. "propose" \in Steps
    BY DEF Steps
  <2>4. g \in Hop /\ g.step = "propose" /\ g.body = FALSE /\ g.status = h.status
    BY <1>3, <2>3, ReadFields
  <2>. HIDE DEF g
  <2>5. requests' = [requests EXCEPT ![i] = q]
    BY <1>1, SameRequests
  <2>6. Becomes(i, q, [hops[i] EXCEPT ![k] = g])
    BY <2>2, <2>5 DEF Becomes
  <2>7. AtWork(q, "propose", g.body)
    BY <1>4 DEF AtWork
  <2>8. \A s \in Statuses : Truthful(q, "serve", s) => Truthful(q, "propose", s)
    BY DEF Truthful
  <2>9. h.status \in Statuses
    BY <1>3, HopFields
  <2>10. Truthful(q, "propose", g.status) /\ g.step # "waiting"
    BY <1>3, <2>4, <2>8, <2>9
  <2>. QED
    BY <1>1, <1>2, <1>3, <2>4, <2>6, <2>7, <2>8, <2>10, WorkerStep
<1>. QED  BY <1>6, <1>7, <1>8

LEMMA RefuseKeeps ==
  ASSUME KeyInv, NEW i \in DOMAIN hops, NEW k \in DOMAIN hops[i], Refuse(i, k)
  PROVE  KeyInv'
<1>. DEFINE q == requests[i]
            r == Refused(q)
<1>1. hops[i][k].step = "propose" /\ Goto(i, k, "forward")
  BY DEF Refuse, Active, At
<1>2. requests' = [requests EXCEPT ![i] = r]
  BY DEF Refuse, Refused
<1>3. "propose" \in Working /\ "forward" \in Working
  BY DEF Working
<1>4. q \in Request /\ AtWork(q, "propose", hops[i][k].body)
  BY <1>1, <1>3, WorkerKnows
<1>5. /\ r \in Request /\ r.refused = TRUE /\ r.kind = q.kind
      /\ r.proper = q.proper /\ r.proposed = q.proposed
  BY <1>4, RefusedFields
<1>. HIDE DEF r
<1>6. AtWork(r, "forward", hops[i][k].body)
  BY <1>4, <1>5 DEF AtWork
<1>7. \A s \in Statuses : Truthful(q, "propose", s) => Truthful(r, "forward", s)
  BY <1>5 DEF Truthful
<1>8. r \in Request
  BY <1>5
<1>9. GoesOn(i, k, "forward", r)
  BY <1>1, <1>2, <1>6, <1>7 DEF GoesOn
<1>. QED  BY <1>1, <1>3, <1>8, <1>9, WorkerGoes

LEMMA ProposeKeeps ==
  ASSUME KeyInv, NEW i \in DOMAIN hops, NEW k \in DOMAIN hops[i], Propose(i, k)
  PROVE  KeyInv'
<1>. DEFINE q == requests[i]
            r == Proposed(q)
<1>1. hops[i][k].step = "propose" /\ Goto(i, k, "pending")
  BY DEF Propose, Active, At
<1>2. requests' = [requests EXCEPT ![i] = r]
  BY DEF Propose, Proposed
<1>3. "propose" \in Working /\ "pending" \in Working
  BY DEF Working
<1>4. q \in Request /\ AtWork(q, "propose", hops[i][k].body)
  BY <1>1, <1>3, WorkerKnows
<1>5. /\ r \in Request /\ r.proposed = q.proposed + 1 /\ r.kind = q.kind
      /\ r.proper = q.proper /\ r.refused = q.refused
  BY <1>4, ProposedFields
<1>. HIDE DEF r
<1>6. q.proposed = 0 /\ r.proposed = 1
  BY <1>4, <1>5 DEF AtWork
<1>7. AtWork(r, "pending", hops[i][k].body)
  BY <1>6 DEF AtWork
<1>8. \A s \in Statuses : Truthful(q, "propose", s) => Truthful(r, "pending", s)
  BY <1>5, <1>6 DEF Truthful
<1>9. GoesOn(i, k, "pending", r)
  BY <1>1, <1>2, <1>7, <1>8 DEF GoesOn
<1>10. r \in Request
  BY <1>5
<1>. QED  BY <1>1, <1>3, <1>9, <1>10, WorkerGoes

(* The other ways in which a handler at work ends. *)
LEMMA EndKeeps ==
  ASSUME KeyInv, NEW i \in DOMAIN hops, NEW k \in DOMAIN hops[i],
         \/ ProposeFails(i, k) \/ Committed(i, k) \/ ProposeStopped(i, k)
         \/ Unforwarded(i, k)
  PROVE  KeyInv'
<1>1. requests' = requests
  BY DEF ProposeFails, Committed, ProposeStopped, Unforwarded
<1>2. ASSUME NEW step \in Working, hops[i][k].step = step, NEW s \in Statuses,
             Answer(i, k, s),
             AtWork(requests[i], step, hops[i][k].body)
               => Truthful(requests[i], "done", s)
      PROVE  KeyInv'
  BY <1>1, <1>2, WorkerKnows, WorkerAnswers
<1>3. CASE ProposeFails(i, k)
  <2>1. hops[i][k].step = "propose" /\ Answer(i, k, "error")
    BY <1>3 DEF ProposeFails, Active, At
  <2>2. Truthful(requests[i], "done", "error")
    BY DEF Truthful, Denials
  <2>. QED  BY <1>2, <2>1, <2>2 DEF Working, Statuses
<1>4. CASE Committed(i, k)
  <2>1. hops[i][k].step = "pending" /\ Answer(i, k, "ok")
    BY <1>4 DEF Committed, Active, At
  <2>2. AtWork(requests[i], "pending", hops[i][k].body)
          => Truthful(requests[i], "done", "ok")
    BY DEF Truthful, Denials, AtWork
  <2>. QED  BY <1>2, <2>1, <2>2 DEF Working, Statuses
<1>5. CASE ProposeStopped(i, k)
  <2>1. hops[i][k].step = "pending" /\ Answer(i, k, "error")
    BY <1>5 DEF ProposeStopped, Active, At
  <2>2. Truthful(requests[i], "done", "error")
    BY DEF Truthful, Denials
  <2>. QED  BY <1>2, <2>1, <2>2 DEF Working, Statuses
<1>6. CASE Unforwarded(i, k)
  <2>1. hops[i][k].step = "forward" /\ (Answer(i, k, "no leader") \/ Answer(i, k, "bad gateway"))
    BY <1>6 DEF Unforwarded, Active, At
  <2>2. Truthful(requests[i], "done", "bad gateway")
    BY DEF Truthful, Denials
  <2>3. AtWork(requests[i], "forward", hops[i][k].body)
          => Truthful(requests[i], "done", "no leader")
    BY DEF Truthful, Denials, AtWork
  <2>. QED  BY <1>2, <2>1, <2>2, <2>3 DEF Working, Statuses
<1>. QED  BY <1>3, <1>4, <1>5, <1>6

(* A handler that waits ends. *)
LEMMA WaiterEnds ==
  ASSUME KeyInv, NEW i \in DOMAIN hops, NEW k \in DOMAIN hops[i],
         hops[i][k].step = "waiting", NEW s \in Statuses, Answer(i, k, s),
         requests' = requests,
         Truthful(requests[i], LastOf(hops[i]).step, s)
  PROVE  KeyInv'
<1>. DEFINE hs == hops[i]
            h == Ended(hs[k], s)
<1>1. /\ hs \in Seq(Hop) /\ requests[i] \in Request /\ Served(requests[i], hs)
      /\ k \in 1 .. Len(hs)
  BY ReadKeys
<1>2. k # Len(hs)
  BY <1>1 DEF Served, Chained, LastOf
<1>3. hs[k] \in Hop
  BY <1>1, ElementOfSeq
<1>4. h \in Hop /\ h.step = "done" /\ h.status = s
  BY <1>3, EndedFields
<1>5. hops' = [hops EXCEPT ![i] = [hs EXCEPT ![k] = h]]
  BY AnswerBecomes
<1>. HIDE DEF h
<1>6. Becomes(i, requests[i], [hs EXCEPT ![k] = h])
  BY <1>5, SameRequests DEF Becomes
<1>7. /\ [hs EXCEPT ![k] = h] \in Seq(Hop)
      /\ Served(requests[i], [hs EXCEPT ![k] = h])
  BY <1>1, <1>2, <1>4, SomeoneEnds
<1>. QED  BY <1>1, <1>6, <1>7, OneRequest

LEMMA RelayKeeps ==
  ASSUME KeyInv, NEW i \in DOMAIN hops, NEW k \in DOMAIN hops[i], Relay(i, k)
  PROVE  KeyInv'
<1>. DEFINE hs == hops[i]
            s == hs[k + 1].status
<1>1. /\ hs \in Seq(Hop) /\ Served(requests[i], hs) /\ Len(hs) \in Nat
      /\ k \in 1 .. Len(hs)
  BY ReadKeys
<1>2. hs[k].step = "waiting" /\ requests' = requests
      /\ Answer(i, k, IF s = "broken" THEN "bad gateway" ELSE s)
  BY DEF Relay, Active, At
<1>3. k # Len(hs)
  BY <1>1, <1>2 DEF Served, Chained, LastOf
<1>4. k + 1 \in 1 .. Len(hs)
  BY <1>1, <1>3
<1>5. s \in Statuses /\ Truthful(requests[i], LastOf(hs).step, s)
  BY <1>1, <1>4, ElementOfSeq, HopFields DEF Served
<1>6. /\ "bad gateway" \in Statuses
      /\ Truthful(requests[i], LastOf(hs).step, "bad gateway")
  BY DEF Statuses, Truthful, Denials
<1>. HIDE DEF s
<1>. QED  BY <1>2, <1>5, <1>6, WaiterEnds

LEMMA GiveUpKeeps ==
  ASSUME KeyInv, NEW i \in DOMAIN hops, NEW k \in DOMAIN hops[i], GiveUp(i, k)
  PROVE  KeyInv'
<1>1. /\ hops[i][k].step \in {"waiting", "forward"} /\ requests' = requests
      /\ Answer(i, k, "bad gateway")
  BY DEF GiveUp, Active, At
<1>2. "bad gateway" \in Statuses /\ "forward" \in Working
  BY DEF Statuses, Working
<1>3. \A step : Truthful(requests[i], step, "bad gateway")
  BY DEF Truthful, Denials
<1>. QED  BY <1>1, <1>2, <1>3, WaiterEnds, WorkerAnswers

(* The last handler waits and one more begins. *)
LEMMA ChainGrows ==
  ASSUME NEW q, NEW hs \in Seq(Hop), Served(q, hs), NEW h \in Hop, h.step = "waiting",
         NEW g \in Hop, g.step = "start", g.status = "none", h.status = LastOf(hs).status,
         LastOf(hs).step = "forward", g.body = LastOf(hs).body
  PROVE  /\ Append([hs EXCEPT ![Len(hs)] = h], g) \in Seq(Hop)
         /\ Served(q, Append([hs EXCEPT ![Len(hs)] = h], g))
<1>. DEFINE n == Len(hs)
            hh == [hs EXCEPT ![n] = h]
            c == Append(hh, g)
<1>1. n \in Nat /\ n >= 1 /\ n \in 1 .. n
  BY LenProperties DEF Served, Chained
<1>2. /\ hh \in Seq(Hop) /\ Len(hh) = n
      /\ \A j \in 1 .. n : hh[j] = IF j = n THEN h ELSE hs[j]
  BY <1>1, ExceptSeq
<1>. HIDE DEF hh
<1>3. /\ c \in Seq(Hop) /\ Len(c) = n + 1 /\ c[n + 1] = g
      /\ \A j \in 1 .. n : c[j] = hh[j]
  BY <1>2, AppendProperties
<1>. HIDE DEF c
<1>4. \A j \in 1 .. n : c[j].step \in {"waiting", "done"} /\ c[j].status = hs[j].status
  BY <1>1, <1>2, <1>3 DEF Served, Chained, LastOf
<1>5. LastOf(c) = g
  BY <1>3 DEF LastOf
<1>6. Chained(c)
  BY <1>1, <1>3, <1>4, <1>5 DEF Chained
<1>7. AtWork(q, "start", g.body)
  BY DEF Served, AtWork
<1>8. ASSUME NEW j \in 1 .. n + 1 PROVE Truthful(q, "start", c[j].status)
  <2>1. CASE j = n + 1
    BY <1>3, <2>1 DEF Truthful, Denials
  <2>2. CASE j \in 1 .. n
    <3>1. Truthful(q, "forward", hs[j].status)
      BY <2>2 DEF Served
    <3>. QED  BY <1>4, <2>2, <3>1 DEF Truthful
  <2>. QED  BY <1>1, <2>1, <2>2
<1>9. Served(q, c)
  BY <1>3, <1>5, <1>6, <1>7, <1>8 DEF Served
<1>. QED  BY <1>3, <1>9 DEF c, hh

LEMMA ForwardKeeps ==
  ASSUME KeyInv, NEW i \in DOMAIN hops, NEW k \in DOMAIN hops[i], Forward(i, k)
  PROVE  KeyInv'
<1>. DEFINE hs == hops[i]
            l == leaderID[hs[k].node]
            h == Moved(hs[k], "waiting")
            g == Handler(l, hs[k].body)
<1>1. /\ hs \in Seq(Hop) /\ requests[i] \in Request /\ Served(requests[i], hs)
      /\ k \in 1 .. Len(hs)
  BY ReadKeys
<1>2. hs[k].step = "forward" /\ requests' = requests /\ l \in Known
  BY DEF Forward, Active, At
<1>3. k = Len(hs) /\ LastOf(hs) = hs[k] /\ hs[k] \in Hop
  BY <1>1, <1>2, WorkerIsLast, ElementOfSeq DEF Served
<1>4. hops' = [hops EXCEPT ![i] = Append([hs EXCEPT ![k] = h], g)]
  BY DEF Forward, At, Moved
<1>5. "waiting" \in Steps
  BY DEF Steps
<1>6. h \in Hop /\ h.step = "waiting" /\ h.status = hs[k].status
  BY <1>3, <1>5, MovedFields
<1>7. l \in Node /\ hs[k].body \in BOOLEAN
  BY <1>2, <1>3, KeyAssumption, HopFields
<1>. HIDE DEF h, l
<1>8. g \in Hop /\ g.step = "start" /\ g.status = "none" /\ g.body = hs[k].body
  BY <1>7 DEF Handler, Hop, Steps, Statuses
<1>. HIDE DEF g
<1>9. /\ Append([hs EXCEPT ![k] = h], g) \in Seq(Hop)
      /\ Served(requests[i], Append([hs EXCEPT ![k] = h], g))
  BY <1>1, <1>2, <1>3, <1>6, <1>8, ChainGrows
<1>10. Becomes(i, requests[i], Append([hs EXCEPT ![k] = h], g))
  BY <1>2, <1>4, SameRequests DEF Becomes
<1>. QED  BY <1>1, <1>9, <1>10, OneRequest

-----------------------------------------------------------------------------
(* A request arrives. *)
LEMMA SendKeeps ==
  ASSUME KeyInv, NEW n \in Node, NEW kind \in Kinds, NEW proper \in BOOLEAN,
         Send(n, kind, proper)
  PROVE  KeyInv'
<1>. DEFINE q == [kind |-> kind, proper |-> proper, proposed |-> 0, refused |-> FALSE]
            h == Handler(n, kind = "put")
            hs == <<h>>
<1>1. requests' = Append(requests, q) /\ hops' = Append(hops, hs)
  BY DEF Send
<1>2. q \in Request /\ q.proposed = 0 /\ q.kind = kind
  BY DEF Request
<1>3. h \in Hop /\ h.step = "start" /\ h.status = "none" /\ h.body = (kind = "put")
  BY DEF Handler, Hop, Steps, Statuses
<1>. HIDE DEF h, q
<1>4. hs \in Seq(Hop) /\ Len(hs) = 1 /\ hs[1] = h
  BY <1>3
<1>. HIDE DEF hs
<1>5. Chained(hs) /\ LastOf(hs) = h
  BY <1>3, <1>4 DEF Chained, LastOf
<1>6. AtWork(q, "start", h.body)
  <2>1. CASE kind = "put"
    <3>1. h.body = TRUE
      BY <1>3, <2>1
    <3>. QED  BY <1>2, <3>1 DEF AtWork
  <2>2. CASE kind # "put"
    BY <1>2, <2>2 DEF AtWork
  <2>. QED  BY <2>1, <2>2
<1>7. Truthful(q, "start", "none")
  BY DEF Truthful, Denials
<1>8. Served(q, hs)
  BY <1>3, <1>4, <1>5, <1>6, <1>7 DEF Served
<1>9. /\ requests' \in Seq(Request) /\ Len(requests') = Len(requests) + 1
      /\ requests'[Len(requests) + 1] = q
      /\ \A i \in 1 .. Len(requests) : requests'[i] = requests[i]
  BY <1>1, <1>2, AppendProperties DEF KeyInv, KeyTypes
<1>10. /\ hops' \in Seq(Seq(Hop)) /\ Len(hops') = Len(hops) + 1
       /\ hops'[Len(hops) + 1] = hs
       /\ \A i \in 1 .. Len(hops) : hops'[i] = hops[i]
  BY <1>1, <1>4, AppendProperties DEF KeyInv, KeyTypes
<1>11. Len(requests) \in Nat /\ Len(hops) = Len(requests)
  BY LenProperties DEF KeyInv, KeyTypes
<1>12. ASSUME NEW i \in 1 .. Len(requests) + 1 PROVE Served(requests'[i], hops'[i])
  <2>1. CASE i = Len(requests) + 1
    BY <1>8, <1>9, <1>10, <1>11, <2>1
  <2>2. CASE i \in 1 .. Len(requests)
    BY <1>9, <1>10, <1>11, <2>2 DEF KeyInv
  <2>. QED  BY <1>11, <2>1, <2>2
<1>. QED  BY <1>9, <1>10, <1>11, <1>12 DEF KeyInv, KeyTypes

(* A process ends: a handler of its node that was not done breaks off. *)
Broken(h, n) ==
  IF h.node = n /\ h.step # "done"
  THEN [h EXCEPT !.step = "done", !.status = "broken"] ELSE h

LEMMA BrokenFields ==
  ASSUME NEW h \in Hop, NEW n
  PROVE  /\ Broken(h, n) \in Hop
         /\ \/ Broken(h, n) = h
            \/ Broken(h, n).step = "done" /\ Broken(h, n).status = "broken"
<1>1. "broken" \in Statuses
  BY DEF Statuses
<1>2. Broken(h, n) = IF h.node = n /\ h.step # "done" THEN Ended(h, "broken") ELSE h
  BY DEF Broken, Ended
<1>. QED  BY <1>1, <1>2, EndedFields

LEMMA ChainBreaks ==
  ASSUME NEW q, NEW hs \in Seq(Hop), Served(q, hs), NEW n, NEW hh,
         hh = [k \in DOMAIN hs |-> Broken(hs[k], n)]
  PROVE  hh \in Seq(Hop) /\ Served(q, hh)
<1>1. Len(hs) \in Nat /\ DOMAIN hs = 1 .. Len(hs) /\ Len(hs) >= 1
  BY LenProperties DEF Served, Chained
<1>2. \A k \in 1 .. Len(hs) : hs[k] \in Hop
  BY ElementOfSeq
<1>3. ASSUME NEW k \in 1 .. Len(hs)
      PROVE  /\ hh[k] \in Hop
             /\ hh[k] = hs[k] \/ (hh[k].step = "done" /\ hh[k].status = "broken")
  BY <1>1, <1>2, <1>3, BrokenFields
<1>4. hh \in Seq(Hop) /\ Len(hh) = Len(hs)
  BY <1>1, <1>3
<1>5. Len(hs) \in 1 .. Len(hs)
  BY <1>1
<1>6. /\ LastOf(hh) \in Hop
      /\ LastOf(hh) = LastOf(hs) \/ LastOf(hh).step = "done"
  BY <1>3, <1>4, <1>5 DEF LastOf
<1>7. \A k \in 1 .. Len(hs) - 1 : k \in 1 .. Len(hs)
  BY <1>1
<1>8. Chained(hh)
  BY <1>3, <1>4, <1>6, <1>7 DEF Served, Chained
<1>9. AtWork(q, LastOf(hh).step, LastOf(hh).body)
  <2>1. CASE LastOf(hh) = LastOf(hs)
    BY <2>1 DEF Served
  <2>2. CASE LastOf(hh).step = "done"
    BY <2>2 DEF Served, AtWork
  <2>. QED  BY <1>6, <2>1, <2>2
<1>10. ASSUME NEW k \in 1 .. Len(hs) PROVE Truthful(q, LastOf(hh).step, hh[k].status)
  <2>1. Truthful(q, LastOf(hs).step, hs[k].status)
    BY DEF Served
  <2>2. CASE hh[k].status = "broken"
    BY <2>2 DEF Truthful, Denials
  <2>3. CASE hh[k] = hs[k]
    BY <1>6, <2>1, <2>3 DEF Truthful
  <2>. QED  BY <1>3, <2>2, <2>3
<1>. QED  BY <1>4, <1>8, <1>9, <1>10 DEF Served

LEMMA QuitKeeps ==
  ASSUME KeyInv, NEW n \in Node, Quit(n)
  PROVE  KeyInv'
<1>1. requests' = requests
  BY DEF Quit
<1>2. hops' = [i \in DOMAIN hops |-> [k \in DOMAIN hops[i] |-> Broken(hops[i][k], n)]]
  BY DEF Quit, Broken, At
<1>3. Len(hops) \in Nat /\ DOMAIN hops = 1 .. Len(hops) /\ Len(hops) = Len(requests)
  BY LenProperties DEF KeyInv, KeyTypes
<1>4. ASSUME NEW i \in 1 .. Len(hops)
      PROVE  hops'[i] \in Seq(Hop) /\ Served(requests[i], hops'[i])
  <2>1. hops'[i] = [k \in DOMAIN hops[i] |-> Broken(hops[i][k], n)]
    BY <1>2, <1>3
  <2>2. hops[i] \in Seq(Hop) /\ Served(requests[i], hops[i])
    BY <1>3, ReadKeys
  <2>. QED  BY <2>1, <2>2, ChainBreaks
<1>5. hops' \in Seq(Seq(Hop)) /\ Len(hops') = Len(hops)
  BY <1>2, <1>3, <1>4
<1>. QED  BY <1>1, <1>3, <1>4, <1>5 DEF KeyInv, KeyTypes

-----------------------------------------------------------------------------
LEMMA KeyInitially == Init => KeyInv
<1>1. <<>> \in Seq(Request) /\ <<>> \in Seq(Seq(Hop)) /\ Len(<<>>) = 0
  OBVIOUS
<1>. QED  BY <1>1 DEF Init, KeyInv, KeyTypes

LEMMA KeyKept == KeyInv /\ [Next]_vars => KeyInv'
<1>. SUFFICES ASSUME KeyInv, [Next]_vars PROVE KeyInv'
  OBVIOUS
<1>1. CASE UNCHANGED <<requests, hops>>
  BY <1>1 DEF KeyInv, KeyTypes
<1>2. ASSUME NEW n \in Node,
             \/ Elect(n) \/ \E l \in (Node \ {n}) \cup {NoNode} : Follow(n, l)
             \/ Begin(n) \/ Stop(n) \/ Drain(n) \/ Halt(n)
      PROVE  UNCHANGED <<requests, hops>>
  BY <1>2 DEF Elect, Follow, Begin, Stop, Drain, Halt
<1>3. ASSUME NEW i \in DOMAIN hops, NEW k \in DOMAIN hops[i],
             Serve(i, k) \/ Committed(i, k) \/ GiveUp(i, k)
      PROVE  KeyInv'
  BY <1>3, IsLeaderKeeps, ReadRequestKeeps, RefuseKeeps, ProposeKeeps, EndKeeps,
     ForwardKeeps, RelayKeeps, GiveUpKeeps DEF Serve
<1>4. CASE UNCHANGED vars
  BY <1>1, <1>4 DEF vars
<1>. QED  BY <1>1, <1>2, <1>3, <1>4, SendKeeps, QuitKeeps DEF Next

(* The handlers that a request passes through stay one chain, of which the *)
(* last is at work, and what any of them answers is so.                    *)
THEOREM KeyInvariant == Spec => []KeyInv
BY KeyInitially, KeyKept, PTL DEF Spec

(* A request is appended to a leader's log once at most, although servers  *)
(* forward it in circles, lose leadership between IsLeader and Propose,    *)
(* stop, and give up on each other.                                        *)
THEOREM ProposedOnce == Spec => []AtMostOnce
<1>1. KeyInv => AtMostOnce
  <2>. SUFFICES ASSUME KeyInv, NEW i \in DOMAIN requests PROVE requests[i].proposed <= 1
    BY DEF AtMostOnce
  <2>1. i \in 1 .. Len(requests)
    BY LenProperties DEF KeyInv, KeyTypes
  <2>2. requests[i].proposed \in {0, 1}
    BY <2>1 DEF KeyInv, Served, AtWork
  <2>. QED  BY <2>2
<1>. QED  BY <1>1, KeyInvariant, PTL

(* What the first handler of a request knows. *)
LEMMA FirstAnswer ==
  ASSUME KeyInv, NEW i \in DOMAIN requests
  PROVE  \E step : Truthful(requests[i], step, At(i, 1).status)
<1>1. i \in 1 .. Len(requests) /\ i \in DOMAIN hops
  BY LenProperties DEF KeyInv, KeyTypes
<1>2. Served(requests[i], hops[i]) /\ Len(hops[i]) \in Nat
  BY <1>1, ReadKeys
<1>3. 1 \in 1 .. Len(hops[i])
  BY <1>2 DEF Served, Chained
<1>. QED  BY <1>2, <1>3 DEF Served, At

(* A client that is told 400, 404 or 503 can rely on it that its write is  *)
(* in no log; one that is told 200, that it is in one.                     *)
THEOREM AnswersTrue == Spec => []AnswersAreTrue
<1>1. KeyInv => AnswersAreTrue
  BY FirstAnswer DEF AnswersAreTrue, Truthful, Denials
<1>. QED  BY <1>1, KeyInvariant, PTL

(* A proper put is called malformed only if its body was read before a     *)
(* Propose that was refused.                                               *)
THEOREM BadAfterRefusal == Spec => []BadOnlyAfterRefusal
<1>1. KeyInv => BadOnlyAfterRefusal
  BY FirstAnswer DEF BadOnlyAfterRefusal, Truthful
<1>. QED  BY <1>1, KeyInvariant, PTL
=============================================================================
