------------------------------ MODULE Pipelining ------------------------------
(***************************************************************************)
(* TP-6 of dot-functionality-test-plan.ipynb: N queries over one TLS       *)
(* session, one after the other or all at once, or over a session each,    *)
(* and the row that is recorded about it.  The server answers in any       *)
(* order, or not, or badly, or repeats itself, and may hang up.            *)
(***************************************************************************)
EXTENDS Naturals, Sequences, FiniteSets, SequencesExt

CONSTANTS
    N,        \* queries per row (1, 5 and 20 in the notebook)
    MsgIds,   \* message ids: dnspython draws one at random for every query
    Qtypes    \* PIPELINE_QTYPES

VARIABLES
    runner,    \* "sequential", "pipelined" or "fresh"
    sent,      \* the queries written so far
    asked,     \* queries the server has read on this session and not answered, by number
    wire,      \* responses on their way to the client, in the order of the session
    answers,   \* answers[i]: the rcode the server gave query i, or "none"
    rcodes,    \* the rcodes the client has read
    repeated,  \* the server sent some response twice
    hungUp,    \* the server closed the session
    verdict    \* of the row, "none" while the runner is at work

vars == <<runner, sent, asked, wire, answers, rcodes, repeated, hungUp, verdict>>

Runners == {"sequential", "pipelined", "fresh"}

Rcodes == {"NOERROR", "SERVFAIL"}

(* What the session carries: message id and question.                      *)
Message(i) == [id |-> sent[i], qtype |-> Qtypes[(i % Len(Qtypes)) + 1]]

(* sent[q.id] = q: a dict, in which a second query of an id takes the      *)
(* place of the first one.  send_order lists its keys.                     *)
SentUnder(id) == Message(CHOOSE i \in DOMAIN sent : /\ sent[i] = id
                                                   /\ \A j \in DOMAIN sent : sent[j] = id => j <= i)

SendOrder == ToSet(sent)

Matches(r) == r.id \in ToSet(sent) /\ SentUnder(r.id) = [id |-> r.id, qtype |-> r.qtype]

Init ==
    /\ runner \in Runners
    /\ sent = <<>> /\ asked = {} /\ wire = <<>> /\ rcodes = <<>>
    /\ answers = [i \in 1..N |-> "none"]
    /\ repeated = FALSE /\ hungUp = FALSE
    /\ verdict = "none"

-----------------------------------------------------------------------------
(* The client.                                                             *)

(* Anything that raises ends the runner and is recorded.                   *)
Raise ==
    /\ verdict' = "FAIL"
    /\ UNCHANGED <<runner, sent, asked, wire, answers, rcodes, repeated, hungUp>>

(* The next query goes out: at once, or when the one before it was read.   *)
(* A fresh session has nothing left of the one before it.                  *)
MaySend == Len(sent) < N /\ (runner = "pipelined" \/ Len(sent) = Len(rcodes))

Send ==
    /\ verdict = "none" /\ MaySend /\ (~hungUp \/ runner = "fresh")
    /\ \E id \in MsgIds : sent' = Append(sent, id)
    /\ IF runner = "fresh"
       THEN asked' = {Len(sent) + 1} /\ wire' = <<>> /\ hungUp' = FALSE
       ELSE asked' = asked \cup {Len(sent) + 1} /\ UNCHANGED <<wire, hungUp>>
    /\ UNCHANGED <<runner, answers, rcodes, repeated, verdict>>

SendRaises == verdict = "none" /\ MaySend /\ hungUp /\ Raise

Awaits == verdict = "none" /\ ~MaySend /\ Len(rcodes) < N

(* Mutant: responses are taken in the order of the queries only.           *)
AcceptedInOrder(r) == [id |-> r.id, qtype |-> r.qtype] = Message(Len(rcodes) + 1)

(* dns.query.tls takes the next response only for the query it sent last.  *)
(* The pipelined loop looks it up, and then its place in send_order: there *)
(* is none when ids collided.                                              *)
Accepted(r) ==
    IF runner = "pipelined"
    THEN Matches(r) /\ Len(rcodes) < Cardinality(SendOrder)
    ELSE [id |-> r.id, qtype |-> r.qtype] = Message(Len(sent))

Receive ==
    /\ Awaits /\ wire # <<>> /\ Accepted(Head(wire))
    /\ rcodes' = Append(rcodes, Head(wire).rcode)
    /\ wire' = Tail(wire)
    /\ UNCHANGED <<runner, sent, asked, answers, repeated, hungUp, verdict>>

ReceiveUnmatched == Awaits /\ wire # <<>> /\ ~Accepted(Head(wire)) /\ Raise

(* Mutant: no timeout on the read.                                         *)
ReceiveRaisesNever == Awaits /\ wire = <<>> /\ hungUp /\ Raise

(* The timeout of a single read, or the end of the session.                *)
ReceiveRaises == Awaits /\ wire = <<>> /\ Raise

(* Mutant: the loop ends when as many responses were read as the dict has  *)
(* entries.                                                                *)
FinishDict ==
    /\ verdict = "none" /\ Len(sent) = N /\ rcodes # <<>>
    /\ Len(rcodes) >= Cardinality(SendOrder)
    /\ verdict' = IF runner = "fresh" THEN "INFO"
                  ELSE IF ToSet(rcodes) = {"NOERROR"} THEN "PASS" ELSE "FAIL"
    /\ UNCHANGED <<runner, sent, asked, wire, answers, rcodes, repeated, hungUp>>

(* The timing row says nothing about the rcodes.                           *)
Finish ==
    /\ verdict = "none" /\ Len(rcodes) = N
    /\ verdict' = IF runner = "fresh" THEN "INFO"
                  ELSE IF ToSet(rcodes) = {"NOERROR"} THEN "PASS" ELSE "FAIL"
    /\ UNCHANGED <<runner, sent, asked, wire, answers, rcodes, repeated, hungUp>>

Client == Send \/ SendRaises \/ Receive \/ ReceiveUnmatched \/ ReceiveRaises \/ Finish

-----------------------------------------------------------------------------
(* The server.                                                             *)

Answer ==
    /\ verdict = "none" /\ ~hungUp
    /\ \E i \in asked : \E rc \in Rcodes :
          /\ wire' = Append(wire, [id |-> sent[i], qtype |-> Message(i).qtype, rcode |-> rc])
          /\ answers' = [answers EXCEPT ![i] = rc]
          /\ asked' = asked \ {i}
    /\ UNCHANGED <<runner, sent, rcodes, repeated, hungUp, verdict>>

Repeat ==
    /\ verdict = "none" /\ ~hungUp /\ ~repeated
    /\ wire # <<>>
    /\ wire' = Append(wire, Last(wire))
    /\ repeated' = TRUE
    /\ UNCHANGED <<runner, sent, asked, answers, rcodes, hungUp, verdict>>

HangUp ==
    /\ verdict = "none" /\ ~hungUp
    /\ hungUp' = TRUE
    /\ UNCHANGED <<runner, sent, asked, wire, answers, rcodes, repeated, verdict>>

Next == Client \/ Answer \/ Repeat \/ HangUp

Spec == Init /\ [][Next]_vars

(* The cell runs on; the server owes nothing.                              *)
FairSpec == Spec /\ WF_vars(Client)

-----------------------------------------------------------------------------
(* Every response that was counted was sent, and no more than N are.       *)
TypeOK ==
    /\ sent \in Seq(MsgIds) /\ Len(sent) <= N /\ Len(rcodes) <= Len(sent)
    /\ asked \subseteq DOMAIN sent
    /\ answers \in [1..N -> Rcodes \cup {"none"}]
    /\ verdict \in {"none", "PASS", "FAIL", "INFO"}

Distinct == Cardinality(ToSet(sent)) = Len(sent)

(* "PASS all n answered NOERROR": in whatever order the answers come, and  *)
(* whichever ids were drawn.  (A server that repeats a response can have   *)
(* it counted twice.)                                                      *)
PassIsEarned ==
    verdict = "PASS" /\ ~repeated => \A i \in 1..N : answers[i] = "NOERROR"

(* "FAIL premature close, unmatched response, or non-NOERROR": a server    *)
(* that answers everything once, and in time, in any order, is not failed, *)
(* as long as the ids of a session differ.                                 *)
CorrectServerPasses ==
    verdict = "FAIL" /\ Distinct
    => \/ repeated \/ hungUp
       \/ \E i \in DOMAIN sent : answers[i] # "NOERROR"

(* A server that goes silent does not hang the cell.                       *)
CellEnds == <>(verdict # "none")

=============================================================================
