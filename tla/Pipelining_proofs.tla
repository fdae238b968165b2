--------------------------- MODULE Pipelining_proofs ---------------------------
(***************************************************************************)
(* What a PASS and a FAIL of TP-6 are worth, for any number of queries,    *)
(* whichever message ids are drawn and in whatever order the server        *)
(* answers.                                                                *)
(***************************************************************************)
EXTENDS Pipelining, FiniteSetTheorems, TLAPS

Setting == N \in Nat \ {0} /\ Qtypes \in Seq(STRING) /\ Qtypes # <<>>

Response == [id : MsgIds, qtype : STRING, rcode : Rcodes]

(* The j-th rcode of the session: read by the client, or under way to it.  *)
Arrived == Len(rcodes) + Len(wire)
Rcode(j) == IF j <= Len(rcodes) THEN rcodes[j] ELSE wire[j - Len(rcodes)].rcode

Qtype(i) == Qtypes[(i % Len(Qtypes)) + 1]

(* Every rcode is the server's answer to a query of its own, and every     *)
(* answer is among them; what is on the wire carries the query's id and    *)
(* question.  Without pipelining they come in the order of the queries.    *)
Tracks(f) ==
    /\ f \in [1 .. Arrived -> 1 .. Len(sent)]
    /\ \A i, j \in 1 .. Arrived : f[i] = f[j] => i = j
    /\ \A j \in 1 .. Arrived : answers[f[j]] = Rcode(j)
    /\ \A j \in 1 .. Len(wire) : /\ wire[j].id = sent[f[Len(rcodes) + j]]
                                 /\ wire[j].qtype = Qtype(f[Len(rcodes) + j])
    /\ \A i \in 1 .. Len(sent) : answers[i] # "none" => \E j \in 1 .. Arrived : f[j] = i
    /\ runner # "pipelined" => \A j \in 1 .. Arrived : f[j] = j

Traced == \E f : Tracks(f)

Types ==
    /\ runner \in Runners
    /\ wire \in Seq(Response) /\ rcodes \in Seq(Rcodes)
    /\ TypeOK
    /\ asked \subseteq 1 .. Len(sent)

(* What the server has answered was sent, and is not asked any more.       *)
AnsweredOnce == \A i \in 1 .. N : answers[i] # "none" => i \in 1 .. Len(sent) /\ i \notin asked

(* Without pipelining a query is written when the one before it was read.  *)
InTurn == runner # "pipelined" => Len(sent) <= Len(rcodes) + 1

Inv ==
    /\ Types /\ AnsweredOnce /\ InTurn /\ CorrectServerPasses
    /\ ~repeated => Traced
    /\ verdict = "PASS" => runner # "fresh" /\ Len(rcodes) = N /\ ToSet(rcodes) = {"NOERROR"}

-----------------------------------------------------------------------------
(* Types.                                                                  *)

LEMMA QueryTypes ==
  ASSUME Setting, Types, NEW i \in 1 .. Len(sent)
  PROVE  sent[i] \in MsgIds /\ Message(i).qtype \in STRING
  <1>1. sent[i] \in MsgIds
    BY DEF Types, TypeOK
  <1>2. Len(Qtypes) \in Nat \ {0}
    BY DEF Setting
  <1>3. (i % Len(Qtypes)) + 1 \in 1 .. Len(Qtypes)
    BY <1>2 DEF Types, TypeOK
  <1>4. QED
    BY <1>1, <1>3 DEF Message, Setting

LEMMA InitInv == Setting /\ Init => Inv
  <1> SUFFICES ASSUME Setting, Init PROVE Inv
    OBVIOUS
  <1> USE DEF Init, Setting
  <1>1. Types
    BY DEF Types, TypeOK, Rcodes
  <1>2. AnsweredOnce
    BY DEF AnsweredOnce
  <1>3. Traced
    <2> DEFINE f == [j \in 1 .. 0 |-> 1]
    <2>1. Arrived = 0 /\ Len(wire) = 0 /\ Len(sent) = 0
      BY DEF Arrived
    <2>2. f \in [1 .. Arrived -> 1 .. Len(sent)]
      BY <2>1
    <2> HIDE DEF f
    <2>3. Tracks(f)
      BY <2>1, <2>2 DEF Tracks
    <2>4. QED
      BY <2>3 DEF Traced
  <1>4. InTurn /\ CorrectServerPasses
    BY DEF InTurn, CorrectServerPasses
  <1>5. QED
    BY <1>1, <1>2, <1>3, <1>4 DEF Inv

LEMMA NextTypes ==
  ASSUME Setting, Types, AnsweredOnce, [Next]_vars
  PROVE  Types' /\ AnsweredOnce'
  <1> USE DEF Setting, Types, TypeOK, AnsweredOnce
  <1>1. CASE UNCHANGED vars
    BY <1>1 DEF vars
  <1>2. CASE Send
    <2>1. PICK id \in MsgIds : sent' = Append(sent, id)
      BY <1>2 DEF Send
    <2>2. /\ sent' \in Seq(MsgIds) /\ Len(sent') = Len(sent) + 1 /\ Len(sent') <= N
          /\ DOMAIN sent' = 1 .. Len(sent')
      BY <1>2, <2>1 DEF Send, MaySend
    <2>3. asked' \subseteq 1 .. Len(sent') /\ (asked' = {Len(sent')} \/ asked' = asked \cup {Len(sent')})
      BY <1>2, <2>2 DEF Send
    <2>4. UNCHANGED <<runner, answers, rcodes, repeated, verdict>>
      BY <1>2 DEF Send
    <2>5. wire' \in Seq(Response)
      <3>1. wire' = <<>> \/ wire' = wire
        BY <1>2 DEF Send
      <3>2. wire \in Seq(Response) /\ <<>> \in Seq(Response)
        OBVIOUS
      <3>3. QED
        BY <3>1, <3>2
    <2>6. AnsweredOnce'
      <3>1. Len(sent) \in Nat /\ \A i \in 1 .. Len(sent) : i \in 1 .. Len(sent') /\ i # Len(sent')
        BY <2>2
      <3>2. \A i \in 1 .. N : answers'[i] # "none" => i \in 1 .. Len(sent) /\ i \notin asked
        BY <2>4
      <3>3. QED
        BY <2>3, <3>1, <3>2
    <2>7. QED
      BY <2>2, <2>3, <2>4, <2>5, <2>6
  <1>3. CASE Receive
    <2>1. /\ UNCHANGED <<runner, sent, asked, answers, repeated, hungUp, verdict>>
          /\ rcodes' = Append(rcodes, Head(wire).rcode) /\ wire' = Tail(wire) /\ wire # <<>>
      BY <1>3 DEF Receive
    <2>2. Head(wire) \in Response /\ wire' \in Seq(Response)
      BY <2>1
    <2>3. rcodes' \in Seq(Rcodes) /\ Len(rcodes') = Len(rcodes) + 1
      BY <2>1, <2>2 DEF Response
    <2>4. Len(rcodes) + 1 <= Len(sent)
      BY <1>3 DEF Receive, Awaits, MaySend
    <2>5. QED
      BY <2>1, <2>2, <2>3, <2>4
  <1>4. CASE SendRaises \/ ReceiveUnmatched \/ ReceiveRaises
    BY <1>4 DEF SendRaises, ReceiveUnmatched, ReceiveRaises, Raise
  <1>5. CASE Finish
    BY <1>5 DEF Finish
  <1>6. CASE Answer
    <2>1. PICK i \in asked, rc \in Rcodes :
            /\ wire' = Append(wire, [id |-> sent[i], qtype |-> Message(i).qtype, rcode |-> rc])
            /\ answers' = [answers EXCEPT ![i] = rc]
            /\ asked' = asked \ {i}
      BY <1>6 DEF Answer
    <2>2. i \in 1 .. Len(sent) /\ sent[i] \in MsgIds /\ Message(i).qtype \in STRING
      BY QueryTypes
    <2>3. wire' \in Seq(Response)
      BY <2>1, <2>2 DEF Response
    <2>4. UNCHANGED <<runner, sent, rcodes, repeated, hungUp, verdict>>
      BY <1>6 DEF Answer
    <2>5. answers' \in [1 .. N -> Rcodes \cup {"none"}]
      BY <2>1
    <2>6. \A j \in 1 .. N : answers'[j] # "none" => j \in 1 .. Len(sent) /\ j \notin asked'
      BY <2>1, <2>2
    <2>7. QED
      BY <2>1, <2>3, <2>4, <2>5, <2>6
  <1>7. CASE Repeat
    <2>1. wire' = Append(wire, Last(wire)) /\ wire # <<>>
      BY <1>7 DEF Repeat
    <2>2. Last(wire) \in Response
      BY <2>1 DEF Last
    <2>3. wire' \in Seq(Response)
      BY <2>1, <2>2
    <2>4. QED
      BY <1>7, <2>3 DEF Repeat
  <1>8. CASE HangUp
    BY <1>8 DEF HangUp
  <1>9. QED
    BY <1>1, <1>2, <1>3, <1>4, <1>5, <1>6, <1>7, <1>8 DEF Next, Client

-----------------------------------------------------------------------------
(* The traces.                                                             *)

LEMMA SameTrace ==
  ASSUME Traced, UNCHANGED <<runner, sent, wire, rcodes, answers>>
  PROVE  Traced'
  <1>1. Arrived' = Arrived /\ \A j \in 1 .. Arrived : Rcode(j)' = Rcode(j)
    BY DEF Arrived, Rcode
  <1>2. PICK f : Tracks(f)
    BY DEF Traced
  <1>3. Tracks(f)'
    BY <1>1, <1>2 DEF Tracks
  <1>4. QED
    BY <1>3 DEF Traced

(* A session that starts afresh has nothing on the wire.                   *)
LEMMA SendTrace ==
  ASSUME Setting, Types, AnsweredOnce, Traced, Send
  PROVE  Traced'
  <1>1. PICK id \in MsgIds : sent' = Append(sent, id)
    BY DEF Send
  <1>2. /\ UNCHANGED <<runner, answers, rcodes>> /\ MaySend
        /\ runner # "fresh" => wire' = wire
        /\ runner = "fresh" => wire' = <<>>
        /\ sent \in Seq(MsgIds) /\ wire \in Seq(Response) /\ rcodes \in Seq(Rcodes)
        /\ Len(sent) < N
    BY DEF Send, MaySend, Types, TypeOK
  <1>3. PICK f : Tracks(f)
    BY DEF Traced
  <1>4. wire' = wire
    <2> SUFFICES ASSUME runner = "fresh", wire # <<>> PROVE FALSE
      BY <1>2
    <2>1. Len(sent) = Len(rcodes) /\ Arrived > Len(rcodes) /\ Len(rcodes) \in Nat /\ Arrived \in Nat
      BY <1>2 DEF MaySend, Arrived
    <2>2. Arrived \in 1 .. Arrived
      BY <2>1
    <2>3. f[Arrived] = Arrived /\ f[Arrived] \in 1 .. Len(sent)
      BY <1>3, <2>2 DEF Tracks
    <2>4. QED
      BY <2>1, <2>3
  <1>5. Arrived' = Arrived /\ \A j \in 1 .. Arrived : Rcode(j)' = Rcode(j)
    BY <1>2, <1>4 DEF Arrived, Rcode
  <1>6. /\ Len(sent') = Len(sent) + 1 /\ Len(sent) \in Nat
        /\ \A i \in 1 .. Len(sent) : sent'[i] = sent[i] /\ i \in 1 .. Len(sent')
    BY <1>1, <1>2
  <1>7. \A i \in 1 .. Len(sent') : i \in 1 .. Len(sent) \/ answers[i] = "none"
    <2> SUFFICES ASSUME NEW i \in 1 .. Len(sent'), i \notin 1 .. Len(sent) PROVE answers[i] = "none"
      OBVIOUS
    <2>1. i \in 1 .. N
      BY <1>2, <1>6 DEF Setting
    <2>2. QED
      BY <2>1 DEF AnsweredOnce
  <1>8. \A j \in 1 .. Len(wire) : f[Len(rcodes) + j] \in 1 .. Len(sent)
    <2>1. \A j \in 1 .. Len(wire) : Len(rcodes) + j \in 1 .. Arrived
      BY <1>2 DEF Arrived
    <2>2. QED
      BY <1>3, <2>1 DEF Tracks
  <1>9. f \in [1 .. Arrived -> 1 .. Len(sent')]
    <2>1. f \in [1 .. Arrived -> 1 .. Len(sent)]
      BY <1>3 DEF Tracks
    <2>2. QED
      BY <1>6, <2>1
  <1>10. Tracks(f)'
    BY <1>2, <1>3, <1>4, <1>5, <1>6, <1>7, <1>8, <1>9 DEF Tracks
  <1>11. QED
    BY <1>10 DEF Traced

(* What is read was on the wire.                                           *)
LEMMA ReceiveTrace ==
  ASSUME Types, Traced, Receive
  PROVE  Traced'
  <1>1. /\ rcodes' = Append(rcodes, Head(wire).rcode) /\ wire' = Tail(wire) /\ wire # <<>>
        /\ UNCHANGED <<runner, sent, answers>> /\ wire \in Seq(Response) /\ rcodes \in Seq(Rcodes)
    BY DEF Receive, Types
  <1>2. /\ Len(rcodes') = Len(rcodes) + 1 /\ Len(wire') = Len(wire) - 1 /\ Len(wire) \in Nat \ {0}
        /\ Len(rcodes) \in Nat /\ \A j \in 1 .. Len(wire') : wire'[j] = wire[j + 1]
    BY <1>1
  <1>3. Arrived' = Arrived
    BY <1>1, <1>2 DEF Arrived
  <1>4. ASSUME NEW j \in 1 .. Arrived PROVE Rcode(j)' = Rcode(j)
    <2>1. CASE j <= Len(rcodes)
      BY <1>1, <1>2, <2>1 DEF Rcode, Arrived
    <2>2. CASE j = Len(rcodes) + 1
      BY <1>1, <1>2, <2>2 DEF Rcode, Arrived
    <2>3. CASE j > Len(rcodes) + 1
      <3>1. j - Len(rcodes') \in 1 .. Len(wire')
        BY <1>1, <1>2, <2>3 DEF Arrived
      <3>2. wire'[j - Len(rcodes')] = wire[(j - Len(rcodes')) + 1]
        BY <1>1, <3>1
      <3>3. (j - Len(rcodes')) + 1 = j - Len(rcodes)
        BY <1>1, <1>2
      <3>4. ~(j <= Len(rcodes')) /\ ~(j <= Len(rcodes))
        BY <1>1, <1>2, <2>3
      <3>5. QED
        BY <3>2, <3>3, <3>4 DEF Rcode
    <2>4. QED
      BY <1>1, <2>1, <2>2, <2>3 DEF Arrived
  <1>5. PICK f : Tracks(f)
    BY DEF Traced
  <1>6. ASSUME NEW j \in 1 .. Len(wire')
        PROVE  /\ wire'[j].id = sent'[f[Len(rcodes') + j]]
               /\ wire'[j].qtype = Qtype(f[Len(rcodes') + j])
    <2>1. j + 1 \in 1 .. Len(wire) /\ Len(rcodes') + j = Len(rcodes) + (j + 1)
      BY <1>2
    <2>2. /\ wire[j + 1].id = sent[f[Len(rcodes) + (j + 1)]]
          /\ wire[j + 1].qtype = Qtype(f[Len(rcodes) + (j + 1)])
      BY <1>5, <2>1 DEF Tracks
    <2>3. QED
      BY <1>1, <1>2, <2>1, <2>2
  <1>7. Tracks(f)'
    BY <1>1, <1>3, <1>4, <1>5, <1>6 DEF Tracks
  <1>8. QED
    BY <1>7 DEF Traced

(* An answer is one to a query that had none.                              *)
LEMMA AnswerTrace ==
  ASSUME Setting, Types, AnsweredOnce, InTurn, Traced, Answer
  PROVE  Traced'
  <1>1. PICK i \in asked, rc \in Rcodes :
          /\ wire' = Append(wire, [id |-> sent[i], qtype |-> Message(i).qtype, rcode |-> rc])
          /\ answers' = [answers EXCEPT ![i] = rc]
    BY DEF Answer
  <1>2. /\ UNCHANGED <<runner, sent, rcodes>> /\ wire \in Seq(Response) /\ rcodes \in Seq(Rcodes)
        /\ answers \in [1 .. N -> Rcodes \cup {"none"}] /\ i \in 1 .. Len(sent)
        /\ i \in 1 .. N /\ answers[i] = "none"
        /\ Len(sent) \in Nat /\ Len(sent) <= N /\ Len(rcodes) \in Nat /\ Len(rcodes) <= Len(sent)
    BY DEF Answer, Types, TypeOK, AnsweredOnce, Setting
  <1>3. Len(wire') = Len(wire) + 1 /\ Arrived' = Arrived + 1 /\ Arrived \in Nat
    BY <1>1, <1>2 DEF Arrived
  <1>4. PICK f : Tracks(f)
    BY DEF Traced
  <1>5. ASSUME NEW j \in 1 .. Arrived PROVE Rcode(j)' = Rcode(j) /\ Rcode(j) \in Rcodes
    <2>1. CASE j <= Len(rcodes)
      BY <1>2, <2>1 DEF Rcode
    <2>2. CASE j > Len(rcodes)
      <3>1. j - Len(rcodes) \in 1 .. Len(wire)
        BY <1>2, <2>2 DEF Arrived
      <3>2. wire'[j - Len(rcodes)] = wire[j - Len(rcodes)] /\ wire[j - Len(rcodes)] \in Response
        BY <1>1, <1>2, <3>1
      <3>3. QED
        BY <1>2, <2>2, <3>2 DEF Rcode, Response
    <2>3. QED
      BY <1>2, <2>1, <2>2, <1>3
  <1> PICK last \in Nat : last = Arrived + 1
    BY <1>3
  <1>6. Rcode(last)' = rc
    <2>1. last - Len(rcodes') = Len(wire) + 1 /\ ~(last <= Len(rcodes'))
      BY <1>2, <1>3 DEF Arrived
    <2>2. wire'[Len(wire) + 1].rcode = rc
      BY <1>1, <1>2
    <2>3. QED
      BY <2>1, <2>2 DEF Rcode
  <1>g. PICK g : g = [j \in 1 .. Arrived' |-> IF j \in 1 .. Arrived THEN f[j] ELSE i]
    OBVIOUS
  <1>7. g \in [1 .. Arrived' -> 1 .. Len(sent')]
    <2>1. \A j \in 1 .. Arrived : f[j] \in 1 .. Len(sent)
      BY <1>4 DEF Tracks
    <2>2. QED
      BY <1>2, <2>1, <1>g
  <1>8. \A j \in 1 .. Arrived' : j \in 1 .. Arrived \/ j = last
    BY <1>3
  <1>9. \A j \in 1 .. Arrived : /\ g[j] = f[j] /\ f[j] # i /\ f[j] \in 1 .. N /\ f[j] \in 1 .. Len(sent)
                                /\ j \in 1 .. Arrived'
    <2> SUFFICES ASSUME NEW j \in 1 .. Arrived
                 PROVE  /\ g[j] = f[j] /\ f[j] # i /\ f[j] \in 1 .. N /\ f[j] \in 1 .. Len(sent)
                        /\ j \in 1 .. Arrived'
      OBVIOUS
    <2>1. f[j] \in 1 .. Len(sent) /\ j \in 1 .. Arrived' /\ answers[f[j]] = Rcode(j)
      BY <1>3, <1>4 DEF Tracks
    <2>2. answers[f[j]] # "none"
      BY <1>5, <2>1 DEF Rcodes
    <2>3. f[j] \in 1 .. N
      BY <1>2, <2>1 DEF Setting
    <2>4. g[j] = f[j]
      BY <2>1, <1>g
    <2>5. QED
      BY <1>2, <2>1, <2>2, <2>3, <2>4
  <1>10. g[last] = i /\ last \notin 1 .. Arrived /\ last \in 1 .. Arrived'
    BY <1>3, <1>g
  <1>11. \A m, j \in 1 .. Arrived' : g[m] = g[j] => m = j
    <2>1. \A m, j \in 1 .. Arrived : f[m] = f[j] => m = j
      BY <1>4 DEF Tracks
    <2>2. QED
      BY <1>8, <1>9, <1>10, <2>1
  <1>12. \A j \in 1 .. Arrived' : answers'[g[j]] = Rcode(j)'
    <2>1. ASSUME NEW j \in 1 .. Arrived PROVE answers'[g[j]] = Rcode(j)'
      <3>1. answers[f[j]] = Rcode(j)
        BY <1>4 DEF Tracks
      <3>2. QED
        BY <1>1, <1>2, <1>5, <1>9, <3>1
    <2>2. answers'[g[last]] = Rcode(last)'
      BY <1>1, <1>2, <1>6, <1>10
    <2>3. QED
      BY <1>8, <2>1, <2>2
  <1>13. ASSUME NEW j \in 1 .. Len(wire')
         PROVE  /\ wire'[j].id = sent'[g[Len(rcodes') + j]]
                /\ wire'[j].qtype = Qtype(g[Len(rcodes') + j])
    <2>1. CASE j \in 1 .. Len(wire)
      <3>1. wire'[j] = wire[j] /\ Len(rcodes) + j \in 1 .. Arrived
        BY <1>1, <1>2, <2>1 DEF Arrived
      <3>2. /\ wire[j].id = sent[f[Len(rcodes) + j]]
            /\ wire[j].qtype = Qtype(f[Len(rcodes) + j])
        BY <1>4, <2>1 DEF Tracks
      <3>3. QED
        BY <1>2, <1>9, <3>1, <3>2
    <2>2. CASE j = Len(wire) + 1
      <3>1. Len(rcodes') + j = last
        BY <1>2, <2>2 DEF Arrived
      <3>2. wire'[j].id = sent[i] /\ wire'[j].qtype = Qtype(i)
        BY <1>1, <1>2, <2>2 DEF Message, Qtype
      <3>3. QED
        BY <1>2, <1>10, <3>1, <3>2
    <2>3. QED
      BY <1>2, <1>3, <2>1, <2>2
  <1>14. ASSUME NEW q \in 1 .. Len(sent'), answers'[q] # "none"
         PROVE  \E j \in 1 .. Arrived' : g[j] = q
    <2>1. CASE q = i
      BY <1>10, <2>1
    <2>2. CASE q # i
      <3>1. q \in 1 .. Len(sent) /\ answers[q] # "none"
        BY <1>1, <1>2, <1>14, <2>2
      <3>2. PICK j \in 1 .. Arrived : f[j] = q
        BY <1>4, <3>1 DEF Tracks
      <3>3. QED
        BY <1>9, <3>2
    <2>3. QED
      BY <2>1, <2>2
  <1>15. ASSUME runner' # "pipelined", NEW j \in 1 .. Arrived' PROVE g[j] = j
    <2>1. \A k \in 1 .. Arrived : f[k] = k
      BY <1>2, <1>4, <1>15 DEF Tracks
    <2>2. i \notin 1 .. Arrived
      BY <1>9, <2>1
    <2>3. Len(rcodes) <= Arrived /\ Len(sent) <= Len(rcodes) + 1
      BY <1>2, <1>15 DEF Arrived, InTurn
    <2>4. i = last
      BY <1>2, <1>3, <2>2, <2>3
    <2>5. QED
      BY <1>8, <1>9, <1>10, <2>1, <2>4
  <1>16. Tracks(g)'
    BY <1>7, <1>11, <1>12, <1>13, <1>14, <1>15 DEF Tracks
  <1>17. QED
    BY <1>16 DEF Traced

-----------------------------------------------------------------------------
(* The verdict FAIL.                                                       *)

(* When ids differ, what is looked up under an id is the query itself.     *)
LEMMA LookedUp ==
  ASSUME Types, Distinct, NEW i \in 1 .. Len(sent)
  PROVE  SentUnder(sent[i]) = Message(i)
  <1>1. sent \in Seq(MsgIds) /\ DOMAIN sent = 1 .. Len(sent) /\ Len(sent) \in Nat
    BY DEF Types, TypeOK
  <1>2. IsFiniteSet(1 .. Len(sent)) /\ Cardinality(1 .. Len(sent)) = Len(sent)
    <2>1. \A n \in Nat : IsFiniteSet(1 .. n) /\ Cardinality(1 .. n) = n
      BY FS_Interval
    <2>2. QED
      BY <1>1, <2>1
  <1>3. sent \in Surjection(1 .. Len(sent), ToSet(sent))
    BY <1>1 DEF Surjection, ToSet
  <1>4. sent \in Injection(1 .. Len(sent), ToSet(sent))
    BY <1>2, <1>3, FS_Surjection DEF Distinct
  <1>5. \A m, n \in 1 .. Len(sent) : sent[m] = sent[n] => m = n
    BY <1>4 DEF Injection, IsInjective
  <1> DEFINE Newest(k) == k \in DOMAIN sent /\ sent[k] = sent[i]
                          /\ \A j \in DOMAIN sent : sent[j] = sent[i] => j <= k
  <1>6. \A k : Newest(k) <=> k = i
    BY <1>1, <1>5
  <1>7. SentUnder(sent[i]) = Message(CHOOSE k : Newest(k))
    BY DEF SentUnder
  <1> HIDE DEF Newest
  <1>8. (CHOOSE k : Newest(k)) = i
    BY <1>6
  <1>9. QED
    BY <1>7, <1>8

(* A server that has answered everything has sent as much as was asked.    *)
LEMMA AllArrived ==
  ASSUME Types, NEW f, Tracks(f), \A i \in 1 .. Len(sent) : answers[i] # "none"
  PROVE  Arrived = Len(sent)
  <1>1. Arrived \in Nat /\ Len(sent) \in Nat
    BY DEF Types, TypeOK, Arrived
  <1>2. /\ IsFiniteSet(1 .. Arrived) /\ Cardinality(1 .. Arrived) = Arrived
        /\ Cardinality(1 .. Len(sent)) = Len(sent)
    <2>1. \A n \in Nat : IsFiniteSet(1 .. n) /\ Cardinality(1 .. n) = n
      BY FS_Interval
    <2>2. QED
      BY <1>1, <2>1
  <1>3. f \in [1 .. Arrived -> 1 .. Len(sent)] /\ \A m, n \in 1 .. Arrived : f[m] = f[n] => m = n
    BY DEF Tracks
  <1>4. f \in Surjection(1 .. Arrived, 1 .. Len(sent))
    <2>1. \A i \in 1 .. Len(sent) : \E j \in 1 .. Arrived : f[j] = i
      BY DEF Tracks
    <2>2. QED
      BY <1>3, <2>1 DEF Surjection
  <1>5. f \in Injection(1 .. Arrived, 1 .. Len(sent))
    BY <1>3 DEF Injection, IsInjective
  <1>6. QED
    BY <1>2, <1>4, <1>5, FS_Surjection

(* What a correct server has sent is accepted, and nothing is missing.     *)
LEMMA NotFailed ==
  ASSUME Setting, Types, InTurn, ~repeated => Traced, CorrectServerPasses, [Next]_vars
  PROVE  CorrectServerPasses'
  <1> SUFFICES ASSUME verdict' = "FAIL", Distinct', ~repeated', ~hungUp',
                      \A i \in DOMAIN sent' : answers'[i] = "NOERROR"
               PROVE  FALSE
    BY DEF CorrectServerPasses
  <1>1. \/ UNCHANGED vars
        \/ SendRaises \/ ReceiveUnmatched \/ ReceiveRaises
        \/ Finish /\ runner # "fresh" /\ ToSet(rcodes) # {"NOERROR"}
    BY DEF Next, Client, Send, Receive, Awaits, Finish, Answer, Repeat, HangUp
  <1>2. UNCHANGED <<runner, sent, asked, wire, answers, rcodes, repeated, hungUp>>
    BY <1>1 DEF vars, SendRaises, ReceiveUnmatched, ReceiveRaises, Raise, Finish
  <1>3. ~repeated /\ ~hungUp /\ Distinct
    BY <1>2 DEF Distinct
  <1>4. DOMAIN sent = 1 .. Len(sent) /\ \A i \in 1 .. Len(sent) : answers[i] = "NOERROR"
    BY <1>2 DEF Types, TypeOK
  <1>5. CASE UNCHANGED vars
    BY <1>3, <1>4, <1>5 DEF CorrectServerPasses, vars
  <1>6. CASE SendRaises
    BY <1>3, <1>6 DEF SendRaises
  <1>7. PICK f : Tracks(f)
    BY <1>3 DEF Traced
  <1>8. Arrived = Len(sent)
    BY <1>4, <1>7, AllArrived
  <1>9. /\ wire \in Seq(Response) /\ rcodes \in Seq(Rcodes) /\ Len(rcodes) \in Nat /\ N \in Nat \ {0}
        /\ Len(sent) \in Nat /\ Len(sent) <= N /\ Len(wire) \in Nat /\ Arrived = Len(rcodes) + Len(wire)
    BY DEF Types, TypeOK, Setting, Arrived
  <1>10. CASE ReceiveRaises
    <2>1. Len(rcodes) = Len(sent) /\ ~MaySend /\ Len(rcodes) < N
      BY <1>8, <1>9, <1>10 DEF ReceiveRaises, Awaits
    <2>2. QED
      BY <1>9, <2>1 DEF MaySend
  <1>11. CASE ReceiveUnmatched
    <2> DEFINE i == f[Len(rcodes) + 1]
               r == Head(wire)
    <2>1. wire # <<>> /\ ~Accepted(r) /\ ~MaySend /\ Len(rcodes) < N
      BY <1>11 DEF ReceiveUnmatched, Awaits
    <2>2. 1 \in 1 .. Len(wire) /\ r = wire[1] /\ Len(rcodes) + 1 \in 1 .. Arrived
      BY <1>9, <2>1
    <2>3. i \in 1 .. Len(sent) /\ r.id = sent[i] /\ r.qtype = Qtype(i)
      BY <1>7, <2>2 DEF Tracks
    <2>4. [id |-> r.id, qtype |-> r.qtype] = Message(i)
      BY <2>3 DEF Message, Qtype
    <2>5. CASE runner = "pipelined"
      <3>1. Len(sent) = N
        BY <1>9, <2>1, <2>5 DEF MaySend
      <3>2. Len(rcodes) < Cardinality(SendOrder)
        BY <1>3, <2>1, <3>1 DEF SendOrder, Distinct
      <3>3. r.id \in ToSet(sent)
        BY <1>4, <2>3 DEF ToSet
      <3>4. SentUnder(r.id) = Message(i)
        BY <1>3, <2>3, LookedUp
      <3>5. Matches(r)
        BY <2>4, <3>3, <3>4 DEF Matches
      <3>6. QED
        BY <2>1, <2>5, <3>2, <3>5 DEF Accepted
    <2>6. CASE runner # "pipelined"
      <3>1. Len(rcodes) + 1 = Len(sent)
        BY <1>8, <1>9, <2>2, <2>6 DEF InTurn
      <3>2. i = Len(sent)
        BY <1>7, <2>2, <2>6, <3>1 DEF Tracks
      <3>3. QED
        BY <2>1, <2>4, <2>6, <3>2 DEF Accepted
    <2>7. QED
      BY <2>5, <2>6
  <1>12. CASE Finish /\ runner # "fresh" /\ ToSet(rcodes) # {"NOERROR"}
    <2>1. Len(rcodes) = N
      BY <1>12 DEF Finish
    <2>2. ASSUME NEW j \in 1 .. Len(rcodes) PROVE rcodes[j] = "NOERROR"
      <3>1. j \in 1 .. Arrived /\ Rcode(j) = rcodes[j]
        BY <1>9, <2>2 DEF Rcode
      <3>2. f[j] \in 1 .. Len(sent) /\ answers[f[j]] = Rcode(j)
        BY <1>7, <3>1 DEF Tracks
      <3>3. QED
        BY <1>4, <3>1, <3>2
    <2>3. ToSet(rcodes) = {"NOERROR"}
      <3>1. DOMAIN rcodes = 1 .. Len(rcodes) /\ 1 \in 1 .. Len(rcodes)
        BY <1>9, <2>1
      <3>2. QED
        BY <2>2, <3>1 DEF ToSet
    <2>4. QED
      BY <1>12, <2>3
  <1>13. QED
    BY <1>1, <1>5, <1>6, <1>10, <1>11, <1>12

-----------------------------------------------------------------------------
LEMMA NextTurn == Types /\ InTurn /\ [Next]_vars => InTurn'
  <1> SUFFICES ASSUME Types, InTurn, [Next]_vars, runner' # "pipelined"
               PROVE  Len(sent') <= Len(rcodes') + 1
    BY DEF InTurn
  <1> USE DEF Types, TypeOK
  <1>1. CASE Send
    <2>1. runner' = runner /\ rcodes' = rcodes /\ Len(sent) = Len(rcodes)
      BY <1>1 DEF Send, MaySend
    <2>2. Len(sent') = Len(sent) + 1
      BY <1>1 DEF Send
    <2>3. QED
      BY <2>1, <2>2
  <1>2. CASE Receive
    <2>1. runner' = runner /\ sent' = sent /\ Len(sent) <= Len(rcodes) + 1
      BY <1>2 DEF Receive, InTurn
    <2>2. rcodes' = Append(rcodes, Head(wire).rcode) /\ Len(rcodes') = Len(rcodes) + 1
      BY <1>2 DEF Receive
    <2>3. QED
      BY <2>1, <2>2
  <1>3. CASE UNCHANGED <<runner, sent, rcodes>>
    BY <1>3 DEF InTurn
  <1>4. QED
    BY <1>1, <1>2, <1>3 DEF Next, Client, SendRaises, ReceiveUnmatched, ReceiveRaises,
                            Finish, Raise, Answer, Repeat, HangUp, vars

LEMMA NextInv == Setting /\ Inv /\ [Next]_vars => Inv'
  <1> SUFFICES ASSUME Setting, Inv, [Next]_vars PROVE Inv'
    OBVIOUS
  <1>1. Types' /\ AnsweredOnce'
    BY NextTypes DEF Inv
  <1>2. Types /\ AnsweredOnce /\ InTurn
    BY DEF Inv
  <1>3. ASSUME ~repeated' PROVE Traced'
    <2>1. ~repeated /\ Traced
      BY <1>3 DEF Inv, Next, Client, Send, SendRaises, Receive, ReceiveUnmatched, ReceiveRaises,
                  Finish, Raise, Answer, Repeat, HangUp, vars
    <2>2. \/ Send \/ Receive \/ Answer
          \/ UNCHANGED <<runner, sent, wire, rcodes, answers>>
      BY <1>3, <2>1 DEF Next, Client, SendRaises, ReceiveUnmatched, ReceiveRaises,
                        Finish, Raise, Repeat, HangUp, vars
    <2>3. QED
      BY <1>2, <2>1, <2>2, SendTrace, ReceiveTrace, AnswerTrace, SameTrace
  <1>4. ASSUME verdict' = "PASS"
        PROVE  runner' # "fresh" /\ Len(rcodes') = N /\ ToSet(rcodes') = {"NOERROR"}
    <2>1. CASE Finish
      BY <1>4, <2>1 DEF Finish
    <2>2. CASE ~Finish
      <3>1. verdict = "PASS" /\ UNCHANGED <<runner, rcodes>>
        BY <1>4, <2>2 DEF Next, Client, Send, SendRaises, Receive, ReceiveUnmatched, ReceiveRaises,
                          Raise, Answer, Repeat, HangUp, vars, Awaits
      <3>2. QED
        BY <3>1 DEF Inv
    <2>3. QED
      BY <2>1, <2>2
  <1>5. CorrectServerPasses'
    BY NotFailed DEF Inv
  <1>6. QED
    BY <1>1, <1>2, <1>3, <1>4, <1>5, NextTurn DEF Inv

(* N different queries among N are all of them.                            *)
LEMMA AllQueries ==
  ASSUME Setting, NEW f \in [1 .. N -> 1 .. N], \A i, j \in 1 .. N : f[i] = f[j] => i = j
  PROVE  \A i \in 1 .. N : \E j \in 1 .. N : f[j] = i
  <1>1. IsFiniteSet(1 .. N)
    BY FS_Interval DEF Setting
  <1>2. f \in Injection(1 .. N, 1 .. N)
    BY DEF Injection, IsInjective
  <1>3. f \in Surjection(1 .. N, 1 .. N)
    BY <1>1, <1>2, FS_Injection
  <1>4. QED
    BY <1>3 DEF Surjection

LEMMA InvEarned == Setting /\ Inv => PassIsEarned
  <1> SUFFICES ASSUME Setting, Inv, verdict = "PASS", ~repeated, NEW i \in 1 .. N
               PROVE  answers[i] = "NOERROR"
    BY DEF PassIsEarned
  <1>1. /\ Traced /\ Len(rcodes) = N /\ ToSet(rcodes) = {"NOERROR"}
        /\ rcodes \in Seq(Rcodes) /\ wire \in Seq(Response) /\ N \in Nat /\ Len(sent) <= N
        /\ Len(sent) \in Nat
    BY DEF Inv, Types, TypeOK, Setting
  <1>2. PICK f : Tracks(f)
    BY <1>1 DEF Traced
  <1>3. 1 .. N \subseteq 1 .. Arrived
    BY <1>1 DEF Arrived
  <1> DEFINE g == [j \in 1 .. N |-> f[j]]
  <1>4. g \in [1 .. N -> 1 .. N] /\ \A j \in 1 .. N : g[j] = f[j]
    <2>1. \A j \in 1 .. N : f[j] \in 1 .. Len(sent)
      BY <1>2, <1>3 DEF Tracks
    <2>2. QED
      BY <1>1, <2>1
  <1> HIDE DEF g
  <1>5. \A m, j \in 1 .. N : g[m] = g[j] => m = j
    BY <1>2, <1>3, <1>4 DEF Tracks
  <1>6. PICK j \in 1 .. N : g[j] = i
    BY <1>4, <1>5, AllQueries
  <1>7. answers[i] = rcodes[j]
    <2>1. answers[f[j]] = Rcode(j)
      BY <1>2, <1>3 DEF Tracks
    <2>2. Rcode(j) = rcodes[j]
      BY <1>1 DEF Rcode
    <2>3. QED
      BY <1>4, <1>6, <2>1, <2>2
  <1>8. rcodes[j] \in ToSet(rcodes)
    BY <1>1 DEF ToSet
  <1>9. QED
    BY <1>1, <1>7, <1>8

(* A session row says PASS only when the server has answered every one of  *)
(* the N queries with NOERROR: the rcodes that were counted are answers to *)
(* N different queries, in whatever order they came, also when ids         *)
(* collided, as long as the server repeats nothing.                        *)
THEOREM PassCountsAll == ASSUME Setting PROVE Spec => []PassIsEarned
  <1>1. Init => Inv
    BY InitInv
  <1>2. Inv /\ [Next]_vars => Inv'
    BY NextInv
  <1>3. Inv => PassIsEarned
    BY InvEarned
  <1>4. QED
    BY <1>1, <1>2, <1>3, PTL DEF Spec

(* The client never counts more responses than there were queries.         *)
THEOREM SessionTypes == ASSUME Setting PROVE Spec => []TypeOK
  <1>1. Init => Inv
    BY InitInv
  <1>2. Inv /\ [Next]_vars => Inv'
    BY NextInv
  <1>3. Inv => TypeOK
    BY DEF Inv, Types
  <1>4. QED
    BY <1>1, <1>2, <1>3, PTL DEF Spec

(* A session row says FAIL of a server only when its ids collided, or the   *)
(* server left a query unanswered, did not answer NOERROR, repeated itself *)
(* or hung up: a server that answers everything once passes, in whatever   *)
(* order its answers come.                                                 *)
THEOREM CorrectServersPass == ASSUME Setting PROVE Spec => []CorrectServerPasses
  <1>1. Init => Inv
    BY InitInv
  <1>2. Inv /\ [Next]_vars => Inv'
    BY NextInv
  <1>3. Inv => CorrectServerPasses
    BY DEF Inv
  <1>4. QED
    BY <1>1, <1>2, <1>3, PTL DEF Spec

=============================================================================
