--------------------------- MODULE Notebooks_proofs ---------------------------
(***************************************************************************)
(* The on-box report, the notebooks and the registry, for all values of    *)
(* the constants.  What is open moves on its own, so each module has an    *)
(* invariant of its own.                                                   *)
(***************************************************************************)
EXTENDS MCNotebooks, RecursionFacts, FiniteSetTheorems

-----------------------------------------------------------------------------
(* The report: what a PASS proves, for any number of reports and of names. *)
Setting == Blocking \subseteq Reports /\ Wanted \in [Reports -> Nat]

-----------------------------------------------------------------------------
(* Types.                                                                  *)

LEMMA PassedOverType ==
  ASSUME amiss \in [Reports -> SUBSET {"block", "lift"}], NEW r \in Reports,
         NEW what \in {"block", "lift"}, PassedOver(r, what)
  PROVE  amiss' \in [Reports -> SUBSET {"block", "lift"}]
  BY DEF PassedOver

LEMMA NextTypes ==
  ASSUME Setting, TypeOK, [Next]_vars
  PROVE  TypeOK'
  <1> USE DEF Setting, TypeOK, box
  <1>1. ASSUME NEW r \in Reports, Refused(r) \/ Send(r) \/ GiveUp(r) \/ Deliver(r) \/ Kill(r)
        PROVE  TypeOK'
    <2>1. CASE Refused(r) \/ GiveUp(r)
      BY <2>1 DEF Refused, GiveUp
    <2>2. CASE Send(r)
      BY <2>2 DEF Send
    <2>3. CASE Deliver(r)
      <3>1. PICK status \in {"InProgress", "TimedOut"} : cmd' = [cmd EXCEPT ![r] = status]
        BY <2>3 DEF Deliver
      <3>2. status \in {"none", "Pending", "InProgress"} \cup Ended
        BY DEF Ended
      <3>3. cmd' \in [Reports -> {"none", "Pending", "InProgress"} \cup Ended]
        BY <3>1, <3>2
      <3>4. QED
        BY <2>3, <3>3 DEF Deliver
    <2>4. CASE Kill(r)
      BY <2>4 DEF Kill, Ended
    <2>5. QED
      BY <1>1, <2>1, <2>2, <2>3, <2>4
  <1>2. ASSUME NEW r \in Reports, Return(r) PROVE TypeOK'
    <2>1. Verdict(r) \in {"PASS", "FAIL"}
      BY DEF Verdict
    <2>2. QED
      BY <1>2, <2>1 DEF Return
  <1>3. ASSUME NEW r \in Reports, Ensure(r) \/ ClearCache(r) \/ Look(r) \/ End(r) PROVE TypeOK'
    <2>0. CASE Ensure(r)
      BY <2>0 DEF Ensure, Goto
    <2>1. CASE Look(r)
      <3>1. saw853' \in [Reports -> BOOLEAN]
        <4>1. PICK c \in (IF r \in Blocking THEN {FALSE} ELSE BOOLEAN) :
                saw853' = [saw853 EXCEPT ![r] = c]
          BY <2>1 DEF Look
        <4>2. c \in BOOLEAN /\ saw853 \in [Reports -> BOOLEAN]
          BY Zenon
        <4>3. QED
          BY <4>1, <4>2, Zenon
      <3>2. QED
        BY <2>1, <3>1 DEF Look, Goto
    <2>2. CASE ClearCache(r)
      <3>1. cache' \in [Names -> {"none", "dot", "plain"}]
        BY <2>2 DEF ClearCache
      <3>2. amiss' \in [Reports -> SUBSET {"block", "lift"}]
        BY <2>2, PassedOverType DEF ClearCache
      <3>3. QED
        BY <2>2, <3>1, <3>2 DEF ClearCache, Goto
    <2>3. CASE End(r)
      BY <2>3 DEF End, Ended
    <2>4. QED
      BY <1>3, <2>0, <2>1, <2>2, <2>3
  <1>4. ASSUME NEW r \in Reports, BlockUdp(r) \/ BlockTcp(r) \/ FreeUdp(r) \/ FreeTcp(r) PROVE TypeOK'
    <2>1. CASE BlockUdp(r) \/ BlockTcp(r)
      <3>1. amiss' \in [Reports -> SUBSET {"block", "lift"}]
        BY <2>1, PassedOverType DEF BlockUdp, BlockTcp, AddRule
      <3>2. rules' \subseteq Block
        BY <2>1 DEF BlockUdp, BlockTcp, AddRule, Block
      <3>3. QED
        BY <2>1, <3>1, <3>2 DEF BlockUdp, BlockTcp, AddRule, Goto
    <2>2. CASE FreeUdp(r) \/ FreeTcp(r)
      <3>1. amiss' \in [Reports -> SUBSET {"block", "lift"}]
        <4>1. ASSUME amiss' = [q \in Reports |->
                                 IF q # r /\ CountsOnBlock(q) THEN amiss[q] \cup {"block"} ELSE amiss[q]]
              PROVE  amiss' \in [Reports -> SUBSET {"block", "lift"}]
          BY <4>1
        <4>2. QED
          BY <2>2, <4>1, PassedOverType DEF FreeUdp, FreeTcp, RemoveRule
      <3>2. rules' \subseteq Block
        BY <2>2 DEF FreeUdp, FreeTcp, RemoveRule
      <3>3. QED
        BY <2>2, <3>1, <3>2 DEF FreeUdp, FreeTcp, RemoveRule, Goto
    <2>3. QED
      BY <1>4, <2>1, <2>2
  <1>5. ASSUME NEW n \in Names, NEW w \in Ways(n), Lookup(n, w)
        PROVE  /\ w \in {"dot", "plain", "failed"}
               /\ cache' \in [Names -> {"none", "dot", "plain"}]
    <2>1. w \in {"dot", "plain", "failed"}
      BY <1>5 DEF Ways
    <2>2. QED
      BY <1>5, <2>1 DEF Lookup
  <1>6. ASSUME NEW r \in Reports, Resolve(r) PROVE TypeOK'
    <2>1. /\ how[r] \in Seq({"dot", "plain", "failed"}) /\ Len(how[r]) \in Nat
          /\ Wanted[r] \in Nat /\ Len(how[r]) < Wanted[r]
      BY <1>6 DEF Resolve
    <2>2. Len(how[r]) + 1 \in Names
      <3>1. Len(how[r]) + 1 \in 1 .. Wanted[r]
        BY <2>1
      <3>2. QED
        BY <3>1 DEF Names
    <2>3. PICK w \in Ways(Len(how[r]) + 1) :
            /\ Lookup(Len(how[r]) + 1, w)
            /\ how' = [how EXCEPT ![r] = Append(@, w)]
      BY <1>6 DEF Resolve
    <2>4. /\ w \in {"dot", "plain", "failed"}
          /\ cache' \in [Names -> {"none", "dot", "plain"}]
      BY <1>5, <2>2, <2>3
    <2>5. /\ Append(how[r], w) \in Seq({"dot", "plain", "failed"})
          /\ Len(Append(how[r], w)) <= Wanted[r]
      BY <2>1, <2>4
    <2>6. /\ how' \in [Reports -> Seq({"dot", "plain", "failed"})]
          /\ \A q \in Reports : Len(how'[q]) <= Wanted[q]
      BY <2>3, <2>5
    <2>7. QED
      BY <1>6, <2>4, <2>6 DEF Resolve
  <1>7. CASE OtherProgram
    BY <1>5, <1>7 DEF OtherProgram
  <1>8. CASE Expire
    BY <1>8 DEF Expire
  <1>9. CASE UNCHANGED vars
    BY <1>9 DEF vars
  <1>10. QED
    BY <1>1, <1>2, <1>3, <1>4, <1>6, <1>7, <1>8, <1>9 DEF Next, Script

LEMMA InitTypes == ASSUME Setting PROVE Init => TypeOK
  <1> SUFFICES ASSUME Setting, Init PROVE TypeOK
    OBVIOUS
  <1>1. <<>> \in Seq({"dot", "plain", "failed"}) /\ Len(<<>>) = 0
    OBVIOUS
  <1>2. saw853 \in [Reports -> BOOLEAN]
    BY Zenon DEF Init
  <1>3. QED
    BY <1>1, <1>2 DEF Setting, Init, TypeOK, Ended

(* Commands, scripts, transcripts and the box keep their types, whatever   *)
(* the reports and the other programs on the box do at the same time.      *)
THEOREM ReportTypes ==
  ASSUME Setting
  PROVE  Spec => []TypeOK
  BY InitTypes, NextTypes, PTL DEF Spec

-----------------------------------------------------------------------------
(* The proof of a PASS.  As long as nothing went wrong with its block, both *)
(* rules are up while the script is between its block and the removal of   *)
(* it; once it has cleared the cache, nothing that was resolved in         *)
(* plaintext gets into the cache; so nothing in its transcript was, also   *)
(* when the script stops half-way.  What went wrong is never forgotten.    *)
Shielded(r) ==
    /\ cmd[r] \in {"none", "Pending"} => step[r] = "ensure"
    /\ "block" \notin amiss[r] /\ cmd[r] = "InProgress" =>
          /\ step[r] = "blockTcp" => "dnslab-block-udp53" \in rules
          /\ step[r] \in {"clear", "resolve"} => Block \subseteq rules
          /\ step[r] = "resolve" => \A n \in Names : cache[n] # "plain"

Transcript(r) == "block" \notin amiss[r] => Resolved(r) \subseteq {"dot", "failed"}

Earned(r) ==
    answer[r] = "PASS" /\ "block" \notin amiss[r] => cmd[r] \in Ended /\ Resolved(r) = {"dot"}

ProofInv ==
    TypeOK /\ \A r \in Blocking : Shielded(r) /\ Transcript(r) /\ Earned(r)

(* Nothing that went wrong is forgotten.                                   *)
LEMMA NextAmiss ==
  ASSUME TypeOK, [Next]_vars, NEW r \in Reports
  PROVE  amiss[r] \subseteq amiss'[r]
  <1> USE DEF TypeOK, box, PassedOver
  <1>1. ASSUME NEW q \in Reports, Script(q) PROVE amiss[r] \subseteq amiss'[r]
    <2>1. CASE BlockUdp(q) \/ BlockTcp(q)
      BY <2>1 DEF BlockUdp, BlockTcp, AddRule
    <2>2. CASE FreeUdp(q) \/ FreeTcp(q)
      <3>1. CASE PassedOver(q, "lift")
        BY <3>1
      <3>2. CASE amiss' = [p \in Reports |->
                             IF p # q /\ CountsOnBlock(p) THEN amiss[p] \cup {"block"} ELSE amiss[p]]
        BY <3>2
      <3>3. QED
        BY <2>2, <3>1, <3>2 DEF FreeUdp, FreeTcp, RemoveRule
    <2>3. CASE ClearCache(q)
      BY <2>3 DEF ClearCache
    <2>4. CASE Ensure(q) \/ Resolve(q) \/ Look(q) \/ End(q)
      BY <2>4 DEF Ensure, Resolve, Look, End
    <2>5. QED
      BY <1>1, <2>1, <2>2, <2>3, <2>4 DEF Script
  <1>2. ASSUME NEW q \in Reports,
               Refused(q) \/ Send(q) \/ GiveUp(q) \/ Return(q) \/ Deliver(q) \/ Kill(q)
        PROVE  amiss[r] \subseteq amiss'[r]
    BY <1>2 DEF Refused, Send, GiveUp, Return, Deliver, Kill
  <1>3. CASE OtherProgram \/ Expire \/ UNCHANGED vars
    BY <1>3 DEF OtherProgram, Expire, vars
  <1>4. QED
    BY <1>1, <1>2, <1>3 DEF Next

(* While both rules are up, nothing is resolved in plaintext.              *)
LEMMA NoPlainLookup ==
  ASSUME TypeOK, Block \subseteq rules, \A n \in Names : cache[n] # "plain",
         NEW m \in Names, NEW w \in Ways(m), Lookup(m, w)
  PROVE  w \in {"dot", "failed"} /\ \A n \in Names : cache'[n] # "plain"
  <1>1. w \in {"dot", "failed"}
    BY DEF Ways, TypeOK
  <1>2. QED
    BY <1>1 DEF Lookup, TypeOK

(* A rule that another report takes down is noted by those that count on   *)
(* it.                                                                     *)
LEMMA OtherRemoves ==
  ASSUME Setting, ProofInv, NEW r \in Blocking, NEW q \in Reports, q # r,
         FreeUdp(q) \/ FreeTcp(q)
  PROVE  Shielded(r)'
  <1> USE DEF Setting, Goto, At, Shielded
  <1>0. TypeOK /\ Shielded(r) /\ r \in Reports
    BY DEF ProofInv
  <1>1. PICK s, rule, next : RemoveRule(q, s, rule, next)
    BY DEF FreeUdp, FreeTcp
  <1>2. cmd' = cmd /\ step'[r] = step[r] /\ cache' = cache
    BY <1>0, <1>1 DEF RemoveRule, TypeOK
  <1>3. CASE PassedOver(q, "lift") /\ UNCHANGED rules
    <2>1. amiss'[r] = amiss[r]
      BY <1>0, <1>3 DEF PassedOver, TypeOK
    <2>2. QED
      BY <1>0, <1>2, <1>3, <2>1
  <1>4. CASE amiss' = [p \in Reports |->
                         IF p # q /\ CountsOnBlock(p) THEN amiss[p] \cup {"block"} ELSE amiss[p]]
    <2>1. CountsOnBlock(r) => "block" \in amiss'[r]
      BY <1>0, <1>4
    <2>2. QED
      BY <1>0, <1>2, <2>1 DEF CountsOnBlock
  <1>5. QED
    BY <1>1, <1>3, <1>4 DEF RemoveRule

LEMMA NextShielded ==
  ASSUME Setting, ProofInv, [Next]_vars, NEW r \in Blocking
  PROVE  Shielded(r)'
  <1> USE DEF Setting, Goto, At, box, Shielded
  <1>0. TypeOK /\ Shielded(r) /\ r \in Reports /\ amiss[r] \subseteq amiss'[r]
    BY NextAmiss DEF ProofInv
  <1>1. ASSUME NEW q \in Reports, q # r, Script(q) PROVE Shielded(r)'
    <2>1. CASE FreeUdp(q) \/ FreeTcp(q)
      BY <1>1, <2>1, OtherRemoves
    <2>2. CASE ClearCache(q)
      BY <1>0, <1>1, <2>2 DEF ClearCache, TypeOK
    <2>3. CASE Resolve(q)
      <3>1. Len(how[q]) \in Nat /\ Wanted[q] \in Nat /\ Len(how[q]) < Wanted[q]
        BY <1>0, <2>3 DEF Resolve, TypeOK
      <3>2. Len(how[q]) + 1 \in 1 .. Wanted[q]
        BY <3>1
      <3>3. Len(how[q]) + 1 \in Names
        BY <3>2 DEF Names
      <3>4. QED
        BY <1>0, <2>3, <3>3, NoPlainLookup DEF Resolve
    <2>4. CASE Ensure(q) \/ BlockUdp(q) \/ BlockTcp(q) \/ Look(q) \/ End(q)
      <3>1. UNCHANGED cache /\ rules \subseteq rules' /\ step'[r] = step[r] /\ cmd'[r] = cmd[r]
        BY <1>0, <1>1, <2>4 DEF Ensure, BlockUdp, BlockTcp, AddRule, Look, End, TypeOK
      <3>2. QED
        BY <1>0, <3>1
    <2>5. QED
      BY <1>1, <2>1, <2>2, <2>3, <2>4 DEF Script
  <1>2. CASE Script(r)
    <2>1. CASE Ensure(r) \/ BlockUdp(r) \/ BlockTcp(r)
      BY <1>0, <2>1 DEF Ensure, BlockUdp, BlockTcp, AddRule, PassedOver, Block, TypeOK
    <2>2. CASE ClearCache(r)
      BY <1>0, <2>2 DEF ClearCache, PassedOver, TypeOK
    <2>3. CASE Resolve(r)
      <3>1. Len(how[r]) \in Nat /\ Wanted[r] \in Nat /\ Len(how[r]) < Wanted[r]
        BY <1>0, <2>3 DEF Resolve, TypeOK
      <3>2. Len(how[r]) + 1 \in 1 .. Wanted[r]
        BY <3>1
      <3>3. Len(how[r]) + 1 \in Names
        BY <3>2 DEF Names
      <3>4. QED
        BY <1>0, <2>3, <3>3, NoPlainLookup DEF Resolve
    <2>4. CASE Look(r) \/ FreeUdp(r) \/ FreeTcp(r) \/ End(r)
      BY <1>0, <2>4 DEF Look, FreeUdp, FreeTcp, RemoveRule, End, TypeOK
    <2>5. QED
      BY <1>2, <2>1, <2>2, <2>3, <2>4 DEF Script
  <1>3. ASSUME NEW q \in Reports,
               Refused(q) \/ Send(q) \/ GiveUp(q) \/ Return(q) \/ Deliver(q) \/ Kill(q)
        PROVE  Shielded(r)'
    BY <1>0, <1>3 DEF Refused, Send, GiveUp, Return, Deliver, Kill, TypeOK, Ended
  <1>4. CASE OtherProgram
    BY <1>0, <1>4, NoPlainLookup DEF OtherProgram
  <1>5. CASE Expire \/ UNCHANGED vars
    BY <1>0, <1>5 DEF Expire, vars, TypeOK
  <1>6. QED
    BY <1>1, <1>2, <1>3, <1>4, <1>5 DEF Next

LEMMA NextTranscript ==
  ASSUME Setting, ProofInv, [Next]_vars, NEW r \in Blocking
  PROVE  Transcript(r)' /\ Earned(r)'
  <1> USE DEF Setting, box
  <1> SUFFICES ASSUME "block" \notin amiss'[r] PROVE Transcript(r)' /\ Earned(r)'
    BY DEF Transcript, Earned
  <1>0. /\ TypeOK /\ Shielded(r) /\ Transcript(r) /\ Earned(r) /\ r \in Reports
        /\ "block" \notin amiss[r]
    BY NextAmiss DEF ProofInv
  <1>1. ASSUME how'[r] = how[r], cmd'[r] = cmd[r], answer'[r] = answer[r]
        PROVE  Transcript(r)' /\ Earned(r)'
    BY <1>0, <1>1 DEF Transcript, Earned, Resolved
  <1>2. CASE Resolve(r)
    <2>1. /\ how[r] \in Seq({"dot", "plain", "failed"}) /\ Len(how[r]) \in Nat
          /\ Wanted[r] \in Nat /\ Len(how[r]) < Wanted[r]
      BY <1>0, <1>2 DEF Resolve, TypeOK
    <2>2. Len(how[r]) + 1 \in 1 .. Wanted[r]
      BY <2>1
    <2>3. Len(how[r]) + 1 \in Names
      BY <2>2 DEF Names
    <2>4. PICK w \in Ways(Len(how[r]) + 1) :
            Lookup(Len(how[r]) + 1, w) /\ how' = [how EXCEPT ![r] = Append(@, w)]
      BY <1>2 DEF Resolve
    <2>5. w \in {"dot", "failed"}
      BY <1>0, <1>2, <2>3, <2>4, NoPlainLookup DEF Resolve, At, Shielded
    <2>6. how'[r] = Append(how[r], w)
      BY <1>0, <2>4 DEF TypeOK
    <2>7. \A n \in 1 .. Len(how[r]) : how[r][n] \in {"dot", "failed"}
      <3>1. DOMAIN how[r] = 1 .. Len(how[r])
        BY <2>1
      <3>2. \A n \in DOMAIN how[r] : how[r][n] \in Resolved(r)
        BY DEF Resolved
      <3>3. QED
        BY <1>0, <3>1, <3>2 DEF Transcript
    <2>8. Transcript(r)'
      BY <2>1, <2>5, <2>6, <2>7 DEF Transcript, Resolved
    <2>9. Earned(r)'
      BY <1>0, <1>2 DEF Earned, Resolve, At, Ended
    <2>10. QED
      BY <2>8, <2>9
  <1>3. CASE Return(r)
    <2>1. how'[r] = how[r] /\ cmd'[r] = cmd[r] /\ cmd[r] \in Ended /\ answer'[r] = Verdict(r)
      BY <1>0, <1>3 DEF Return, TypeOK
    <2>2. Verdict(r) = "PASS" => Resolved(r) = {"dot"}
      BY <1>0 DEF Verdict, Transcript
    <2>3. QED
      BY <1>0, <2>1, <2>2 DEF Transcript, Earned, Resolved
  <1>4. CASE Refused(r) \/ Send(r) \/ GiveUp(r) \/ Deliver(r) \/ Kill(r) \/ End(r)
    <2>1. how'[r] = how[r]
      BY <1>4 DEF Refused, Send, GiveUp, Deliver, Kill, End
    <2>2. CASE Refused(r) \/ GiveUp(r)
      <3>1. answer'[r] = "raised"
        BY <1>0, <2>2 DEF Refused, GiveUp, TypeOK
      <3>2. QED
        BY <1>0, <2>1, <3>1 DEF Transcript, Earned, Resolved
    <2>3. CASE Send(r) \/ Deliver(r) \/ Kill(r) \/ End(r)
      <3>1. cmd[r] \notin Ended /\ answer'[r] = answer[r]
        BY <1>0, <2>3 DEF Send, Deliver, Kill, End, At, Ended
      <3>2. answer'[r] # "PASS"
        BY <1>0, <3>1 DEF Earned
      <3>3. QED
        BY <1>0, <2>1, <3>2 DEF Transcript, Earned, Resolved
    <2>4. QED
      BY <1>4, <2>2, <2>3
  <1>5. CASE Ensure(r) \/ BlockUdp(r) \/ BlockTcp(r) \/ ClearCache(r) \/ Look(r) \/ FreeUdp(r) \/ FreeTcp(r)
    BY <1>1, <1>5 DEF Ensure, BlockUdp, BlockTcp, AddRule, ClearCache, Look, FreeUdp, FreeTcp, RemoveRule
  <1>6. ASSUME NEW q \in Reports, q # r,
               \/ Refused(q) \/ Send(q) \/ GiveUp(q) \/ Return(q)
               \/ Deliver(q) \/ Kill(q) \/ Script(q)
        PROVE  Transcript(r)' /\ Earned(r)'
    <2>1. CASE Script(q)
      BY <1>0, <1>1, <1>6, <2>1 DEF Script, Ensure, BlockUdp, BlockTcp, AddRule, ClearCache, Resolve,
         Look, FreeUdp, FreeTcp, RemoveRule, End, TypeOK
    <2>2. CASE ~Script(q)
      BY <1>0, <1>1, <1>6, <2>2 DEF Refused, Send, GiveUp, Return, Deliver, Kill, TypeOK
    <2>3. QED
      BY <2>1, <2>2
  <1>7. CASE OtherProgram \/ Expire \/ UNCHANGED vars
    BY <1>1, <1>7 DEF OtherProgram, Expire, vars
  <1>8. QED
    BY <1>2, <1>3, <1>4, <1>5, <1>6, <1>7 DEF Next, Script

LEMMA ProofStarts ==
  ASSUME Setting, Init
  PROVE  ProofInv
  <1>1. TypeOK /\ \A r \in Reports : step[r] = "ensure" /\ answer[r] = "none"
    BY InitTypes DEF Init
  <1>2. \A r \in Blocking : DOMAIN how[r] = {}
    <2>1. DOMAIN <<>> = {}
      OBVIOUS
    <2>2. \A r \in Reports : how[r] = <<>>
      BY DEF Init
    <2>3. QED
      BY <2>1, <2>2 DEF Setting
  <1>3. QED
    BY <1>1, <1>2 DEF Setting, ProofInv, Shielded, Earned, Transcript, Resolved

LEMMA ProofKept ==
  ASSUME Setting, ProofInv, [Next]_vars
  PROVE  ProofInv'
  BY NextTypes, NextShielded, NextTranscript DEF ProofInv

LEMMA ProofHolds == ProofInv => PassProvesDot
  BY DEF ProofInv, Earned, PassProvesDot

(* A PASS of a report whose rules and flush took effect, and whose block no *)
(* other report lifted, proves that all of its names were resolved over    *)
(* TLS, for any number of reports on the box, whether they block or not,   *)
(* and however its script ended (_DOT_CLIENT_PS and its verdict).          *)
THEOREM PassIsProof ==
  ASSUME Setting
  PROVE  Spec => []PassProvesDot
  <1>1. Init => ProofInv
    BY ProofStarts
  <1>2. ProofInv /\ [Next]_vars => ProofInv'
    BY ProofKept
  <1>3. QED
    BY <1>1, <1>2, ProofHolds, PTL DEF Spec

(* The same of the report among the notebooks: what is open beside it does *)
(* not touch the box.                                                      *)
THEOREM PassIsProofToo == NotebooksSpec => []PassProvesDot
  <1>1. Setting
    BY ReportsAssumption DEF Setting
  <1>2. NotebooksInit => ProofInv
    BY <1>1, ProofStarts DEF NotebooksInit
  <1>3. ProofInv /\ [NotebooksNext]_notebooks => ProofInv'
    <2>1. [NotebooksNext]_notebooks => [Next]_vars
      BY DEF NotebooksNext, notebooks, InReport, InTp6, InPlan, InScaling, InRegistry
    <2>2. QED
      BY <1>1, <2>1, ProofKept
  <1>4. QED
    BY <1>2, <1>3, ProofHolds, PTL DEF NotebooksSpec

-----------------------------------------------------------------------------
(* Pipelining: its proofs, of a session that is one of several notebooks.  *)
Sess == INSTANCE Pipelining_proofs

LEMMA SessionSetting == Sess!Setting
  BY SessionAssumption DEF Sess!Setting

LEMMA SameSession ==
  /\ Tp6!Init => Sess!Init
  /\ UNCHANGED tp6 => UNCHANGED Sess!vars
  <1>1. Tp6!Init => Sess!Init
    BY DEF Tp6!Init, Sess!Init, Tp6!Runners, Sess!Runners
  <1>2. UNCHANGED tp6 => UNCHANGED Sess!vars
    BY DEF tp6, Sess!vars
  <1>3. QED
    BY <1>1, <1>2

LEMMA SameSteps == Tp6!Next => Sess!Next
  <1>1. Tp6!Send => Sess!Send
    BY DEF Tp6!Send, Sess!Send, Tp6!MaySend, Sess!MaySend
  <1>2. Tp6!SendRaises => Sess!SendRaises
    BY DEF Tp6!SendRaises, Sess!SendRaises, Tp6!MaySend, Sess!MaySend, Tp6!Raise, Sess!Raise
  <1>3. \A i : Tp6!Message(i) = Sess!Message(i)
    BY DEF Tp6!Message, Sess!Message
  <1>4. Tp6!SendOrder = Sess!SendOrder /\ \A s : Tp6!ToSet(s) = Sess!ToSet(s)
    BY DEF Tp6!SendOrder, Sess!SendOrder, Tp6!ToSet, Sess!ToSet
  <1>5. \A r : Tp6!Matches(r) = Sess!Matches(r)
    BY <1>3, <1>4 DEF Tp6!Matches, Sess!Matches, Tp6!SentUnder, Sess!SentUnder
  <1>6. \A S : Tp6!Cardinality(S) = Sess!Cardinality(S)
    BY DEF Tp6!Cardinality, Sess!Cardinality
  <1>7. \A r : Tp6!Accepted(r) <=> Sess!Accepted(r)
    BY <1>3, <1>4, <1>5, <1>6 DEF Tp6!Accepted, Sess!Accepted
  <1>8. Tp6!Awaits = Sess!Awaits
    BY DEF Tp6!Awaits, Sess!Awaits, Tp6!MaySend, Sess!MaySend
  <1>9. Tp6!Receive => Sess!Receive
    BY <1>7, <1>8 DEF Tp6!Receive, Sess!Receive
  <1>10. Tp6!ReceiveUnmatched => Sess!ReceiveUnmatched
    BY <1>7, <1>8 DEF Tp6!ReceiveUnmatched, Sess!ReceiveUnmatched, Tp6!Raise, Sess!Raise
  <1>11. Tp6!ReceiveRaises => Sess!ReceiveRaises
    BY <1>8 DEF Tp6!ReceiveRaises, Sess!ReceiveRaises, Tp6!Raise, Sess!Raise
  <1>12. Tp6!Finish => Sess!Finish
    BY <1>4 DEF Tp6!Finish, Sess!Finish
  <1>13. Tp6!Answer => Sess!Answer
    BY <1>3 DEF Tp6!Answer, Sess!Answer, Tp6!Rcodes, Sess!Rcodes
  <1>14. Tp6!Repeat => Sess!Repeat
    BY DEF Tp6!Repeat, Sess!Repeat, Tp6!Last, Sess!Last
  <1>15. Tp6!HangUp => Sess!HangUp
    BY DEF Tp6!HangUp, Sess!HangUp
  <1>16. QED
    BY <1>1, <1>2, <1>9, <1>10, <1>11, <1>12, <1>13, <1>14, <1>15
       DEF Tp6!Next, Tp6!Client, Sess!Next, Sess!Client

LEMMA SessionHolds == Sess!Inv => PassIsEarned /\ CorrectServerPasses
  <1>1. Sess!Inv => Sess!PassIsEarned /\ Sess!CorrectServerPasses
    BY SessionSetting, Sess!InvEarned DEF Sess!Inv
  <1>2. Sess!PassIsEarned => PassIsEarned
    BY DEF PassIsEarned, Tp6!PassIsEarned, Sess!PassIsEarned
  <1>3. \A s : Tp6!ToSet(s) = Sess!ToSet(s)
    BY DEF Tp6!ToSet, Sess!ToSet
  <1>4. \A S : Tp6!Cardinality(S) = Sess!Cardinality(S)
    BY DEF Tp6!Cardinality, Sess!Cardinality
  <1>5. Tp6!Distinct => Sess!Distinct
    BY <1>3, <1>4 DEF Tp6!Distinct, Sess!Distinct
  <1>6. Sess!CorrectServerPasses => CorrectServerPasses
    BY <1>5 DEF CorrectServerPasses, Tp6!CorrectServerPasses, Sess!CorrectServerPasses
  <1>7. QED
    BY <1>1, <1>2, <1>6

LEMMA SessionStarts == NotebooksInit => Sess!Inv
  BY SessionSetting, SameSession, Sess!InitInv DEF NotebooksInit

LEMMA SessionKept == Sess!Inv /\ [NotebooksNext]_notebooks => Sess!Inv'
  <1>1. [NotebooksNext]_notebooks => Sess!Next \/ UNCHANGED Sess!vars
    BY SameSteps, SameSession
       DEF NotebooksNext, notebooks, InReport, InTp6, InPlan, InScaling, InRegistry
  <1>2. Sess!Setting /\ Sess!Inv /\ (Sess!Next \/ UNCHANGED Sess!vars) => Sess!Inv'
    BY Sess!NextInv
  <1>3. QED
    BY <1>1, <1>2, SessionSetting

(* Also in the notebook that has other cells, a session row says PASS only *)
(* of a server that answered all its queries NOERROR (TP-6).               *)
THEOREM SessionPassIsEarned == NotebooksSpec => []PassIsEarned
  <1>1. Sess!Inv => PassIsEarned
    BY SessionHolds
  <1>2. QED
    BY <1>1, SessionStarts, SessionKept, PTL DEF NotebooksSpec

(* A session row says FAIL of no server that answered every query once, in *)
(* time and NOERROR, in whatever order, if the ids drawn for the messages  *)
(* differ (TP-6's table of outstanding ids).                               *)
THEOREM SessionFailIsEarned == NotebooksSpec => []CorrectServerPasses
  <1>1. Sess!Inv => CorrectServerPasses
    BY SessionHolds
  <1>2. QED
    BY <1>1, SessionStarts, SessionKept, PTL DEF NotebooksSpec

-----------------------------------------------------------------------------
(* Registry: what is known of the drafts, of a start under way and of a    *)
(* directory that passed selfcheck.                                        *)
Raws == (UNION {Drafts[d] : d \in DOMAIN Drafts}) \ {None}

Entries == [inst : STRING, profile : STRING]

(* The instances that a start has before it, and how it was asked for.     *)
Begun(dir, spec, todo) ==
    /\ dir \in DOMAIN Drafts /\ spec \in Raws
    /\ todo # <<>> /\ \E S : todo \in Seq(S)
    /\ Modules!Load(dir, spec) = "none"

(* The todo names profiles that the manifest has, or nothing runs yet.     *)
PlanFits(spec, todo, started) ==
    \/ todo \in Seq(ToSet(spec.instances))
    \/ Len(todo) = 1 /\ started = {}

StartKnown ==
    starting # None =>
    /\ starting = [dir |-> starting.dir, spec |-> starting.spec, started |-> starting.started,
                   plan |-> starting.plan, vetted |-> starting.vetted]
    /\ Begun(starting.dir, starting.spec, starting.plan)
    /\ PlanFits(starting.spec, starting.plan, starting.started)
    /\ starting.vetted => starting.dir \in vetted /\ manifest[starting.dir] = starting.spec

VettedKnown == \A d \in vetted : d \in Modules!Present \ Modules!Broken /\ ~Modules!Failures({d})

RegistryInv ==
    /\ manifest \in [DOMAIN Drafts -> Raws \cup {None}]
    /\ \A d \in DOMAIN Drafts : manifest[d] \in Drafts[d]
    /\ \A i \in up : i.server \in DOMAIN Drafts
    /\ StartKnown /\ VettedKnown

(* What a call may say: it takes one step, so nothing is kept of it.       *)
Truthful == OthersUnaffected /\ ManifestFaultsShowEarly

(* A plan of declared instances, and of the profile that was asked for.    *)
LEMMA PlanOfType ==
  ASSUME NEW raw \in Raws, NEW dir, NEW wish
  PROVE  /\ raw.instances # <<>> => Modules!PlanOf(raw, dir, wish) \in Seq(ToSet(raw.instances))
         /\ raw.instances = <<>> => Modules!PlanOf(raw, dir, wish) = <<[inst |-> dir, profile |-> wish]>>
  <1>1. raw.instances \in Seq(Entries)
    BY DraftsAssumption DEF Raws, Entries
  <1>2. raw.instances \in Seq(ToSet(raw.instances))
    BY <1>1 DEF ToSet
  <1>3. Planned(raw.instances, wish, None) \in Seq(ToSet(raw.instances))
    BY <1>2, PlannedType
  <1>4. Modules!Planned(raw.instances, wish, None) = Planned(raw.instances, wish, None)
    BY DEF Modules!Planned, Planned
  <1>5. QED
    BY <1>3, <1>4 DEF Modules!PlanOf

LEMMA RegistryInit == Modules!Init => RegistryInv /\ Truthful
  <1> SUFFICES ASSUME Modules!Init PROVE RegistryInv /\ Truthful
    OBVIOUS
  <1>1. /\ manifest \in [DOMAIN Drafts -> UNION {Drafts[d] : d \in DOMAIN Drafts}]
        /\ \A d \in DOMAIN Drafts : manifest[d] \in Drafts[d]
        /\ up = {} /\ vetted = {} /\ starting = None /\ said = None
    BY DEF Modules!Init, Modules!Dirs
  <1>2. manifest \in [DOMAIN Drafts -> Raws \cup {None}]
    BY <1>1 DEF Raws
  <1>3. QED
    BY <1>1, <1>2 DEF RegistryInv, StartKnown, VettedKnown, Truthful, OthersUnaffected,
       ManifestFaultsShowEarly, Modules!OthersUnaffected, Modules!ManifestFaultsShowEarly

LEMMA TailOf ==
  ASSUME NEW S, NEW s \in Seq(S), s # <<>>
  PROVE  Tail(s) \in Seq(S) /\ (Len(s) # 1 => Tail(s) # <<>>)
  <1>1. Tail(s) \in Seq(S) /\ Len(Tail(s)) = Len(s) - 1 /\ Len(s) \in Nat /\ Len(s) # 0
    OBVIOUS
  <1>2. Len(s) # 1 => Len(Tail(s)) # 0
    BY <1>1
  <1>3. Len(<<>>) = 0
    OBVIOUS
  <1>4. QED
    BY <1>1, <1>2, <1>3, Zenon

(* What was known of a directory holds while its file stays as it is.      *)
LEMMA VettedStays ==
  ASSUME NEW d, manifest'[d] = manifest[d], d \in DOMAIN Drafts,
         d \in Modules!Present \ Modules!Broken /\ ~Modules!Failures({d})
  PROVE  (d \in Modules!Present \ Modules!Broken /\ ~Modules!Failures({d}))'
  BY DEF Modules!Present, Modules!Broken, Modules!Dirs, Modules!Failures, Modules!Renders,
     Modules!LintComplains, Modules!InState, Modules!InstancesUnknown

LEMMA SaveKeeps ==
  ASSUME RegistryInv, NEW d \in DOMAIN Drafts, Modules!Save(d)
  PROVE  RegistryInv' /\ Truthful'
  <1>1. PICK raw \in Drafts[d] : manifest' = [manifest EXCEPT ![d] = raw]
    BY DEF Modules!Save
  <1>2. /\ vetted' = vetted \ {d} /\ said' = None /\ up' = up
        /\ starting' = IF starting # None /\ starting.dir = d
                       THEN [starting EXCEPT !.vetted = FALSE] ELSE starting
    BY DEF Modules!Save
  <1>3. /\ manifest' \in [DOMAIN Drafts -> Raws \cup {None}]
        /\ \A e \in DOMAIN Drafts : manifest'[e] \in Drafts[e]
        /\ \A e \in DOMAIN Drafts \ {d} : manifest'[e] = manifest[e]
    BY <1>1 DEF RegistryInv, Raws
  <1>4. VettedKnown'
    <2> SUFFICES ASSUME NEW e \in vetted'
                 PROVE  (e \in Modules!Present \ Modules!Broken /\ ~Modules!Failures({e}))'
      BY DEF VettedKnown
    <2>1. /\ e \in DOMAIN Drafts \ {d}
          /\ e \in Modules!Present \ Modules!Broken /\ ~Modules!Failures({e})
      BY <1>2 DEF RegistryInv, VettedKnown, Modules!Present, Modules!Dirs
    <2>2. QED
      BY <1>3, <2>1, VettedStays
  <1>5. StartKnown'
    <2>1. CASE starting # None /\ starting.dir = d
      <3>1. starting' = [dir |-> starting.dir, spec |-> starting.spec, started |-> starting.started,
                         plan |-> starting.plan, vetted |-> FALSE]
        BY <1>2, <2>1 DEF RegistryInv, StartKnown
      <3>2. QED
        BY <2>1, <3>1 DEF RegistryInv, StartKnown
    <2>2. CASE ~(starting # None /\ starting.dir = d)
      BY <1>2, <1>3, <2>2 DEF RegistryInv, StartKnown, Begun
    <2>3. QED
      BY <2>1, <2>2
  <1>6. QED
    BY <1>2, <1>3, <1>4, <1>5 DEF RegistryInv, Truthful, OthersUnaffected, ManifestFaultsShowEarly,
       Modules!OthersUnaffected, Modules!ManifestFaultsShowEarly

(* What a call says when nothing but said changes.                         *)
LEMMA OnlySaid ==
  ASSUME RegistryInv, UNCHANGED <<manifest, up, vetted, starting>>
  PROVE  RegistryInv'
  BY DEF RegistryInv, StartKnown, Begun, VettedKnown, Modules!Present, Modules!Broken, Modules!Dirs,
     Modules!Failures, Modules!Renders, Modules!LintComplains, Modules!InState, Modules!InstancesUnknown

(* A get() that fails is about a directory that is missing or broken.      *)
LEMMA GetTells ==
  ASSUME NEW d
  PROVE  Modules!Get(d) # "none" => d \notin Modules!Present \/ d \in Modules!Broken
  BY DEF Modules!Get, Modules!Broken

LEMMA GetRaises ==
  ASSUME NEW d
  PROVE  Modules!Get(d) \in {"none", "KeyError", "YAMLError", "ManifestError"}
  BY DEF Modules!Get, Modules!Load

LEMMA CallStartKeeps ==
  ASSUME RegistryInv, NEW d \in DOMAIN Drafts, NEW wish, Modules!CallStart(d, wish)
  PROVE  RegistryInv' /\ Truthful'
  <1> DEFINE spec == manifest[d]
             todo == Modules!PlanOf(spec, d, wish)
  <1>1. UNCHANGED <<manifest, up, vetted>> /\ starting = None
    BY DEF Modules!CallStart
  <1>2. CASE Modules!Get(d) # "none"
    <2>1. said' = [op |-> "start", about |-> {d}, outcome |-> Modules!Get(d), started |-> {},
                   vetted |-> d \in vetted] /\ UNCHANGED starting
      BY <1>2 DEF Modules!CallStart, Modules!SayStart
    <2>2. (d \notin Modules!Present \/ d \in Modules!Broken)'
      BY <1>1, <1>2, GetTells DEF Modules!Present, Modules!Broken, Modules!Dirs
    <2>3. QED
      BY <1>1, <2>1, <2>2, OnlySaid, GetRaises DEF Truthful, OthersUnaffected, ManifestFaultsShowEarly,
         Modules!OthersUnaffected, Modules!ManifestFaultsShowEarly
  <1>3. CASE Modules!Get(d) = "none" /\ todo = <<>>
    <2>1. said' = [op |-> "start", about |-> {d}, outcome |-> "KeyError", started |-> {},
                   vetted |-> d \in vetted] /\ UNCHANGED starting
      BY <1>3 DEF Modules!CallStart, Modules!SayStart
    <2>2. QED
      BY <1>1, <2>1, OnlySaid DEF Truthful, OthersUnaffected, ManifestFaultsShowEarly,
         Modules!OthersUnaffected, Modules!ManifestFaultsShowEarly
  <1>4. CASE Modules!Get(d) = "none" /\ todo # <<>>
    <2>1. /\ starting' = [dir |-> d, spec |-> spec, started |-> {}, plan |-> todo,
                          vetted |-> d \in vetted]
          /\ said' = None
      BY <1>4 DEF Modules!CallStart
    <2>2. spec \in Raws /\ Modules!Load(d, spec) = "none"
      BY <1>4 DEF RegistryInv, Raws, Modules!Get, Modules!Present, Modules!Dirs
    <2>3. (\E S : todo \in Seq(S)) /\ PlanFits(spec, todo, {})
      <3>1. CASE spec.instances # <<>>
        BY <2>2, <3>1, PlanOfType DEF PlanFits
      <3>2. CASE spec.instances = <<>>
        <4>1. todo = <<[inst |-> d, profile |-> wish]>>
          BY <2>2, <3>2, PlanOfType
        <4>2. todo \in Seq({[inst |-> d, profile |-> wish]}) /\ Len(todo) = 1
          BY <4>1
        <4>3. QED
          BY <4>2 DEF PlanFits
      <3>3. QED
        BY <3>1, <3>2
    <2> HIDE DEF todo
    <2>4. StartKnown'
      BY <1>1, <1>4, <2>1, <2>2, <2>3 DEF StartKnown, Begun
    <2>5. VettedKnown'
      BY <1>1, VettedStays DEF RegistryInv, VettedKnown, Modules!Present, Modules!Dirs
    <2>6. QED
      BY <1>1, <2>1, <2>4, <2>5 DEF RegistryInv, Truthful, OthersUnaffected, ManifestFaultsShowEarly,
         Modules!OthersUnaffected, Modules!ManifestFaultsShowEarly
  <1>5. QED
    BY <1>2, <1>3, <1>4

(* The end of a start under way.                                           *)
LEMMA EndsKeeps ==
  ASSUME RegistryInv, NEW outcome, Modules!Ends(outcome), starting # None,
         outcome \in {"RuntimeError", "KeyError", "TemplateError"},
         outcome = "KeyError" => starting.started = {},
         outcome = "TemplateError" /\ starting.vetted
         => \/ manifest[starting.dir].provider = "ec2"
            \/ ~(Modules!DummyContext \subseteq Modules!DockerContext)
  PROVE  RegistryInv' /\ Truthful'
  <1>1. /\ said' = [op |-> "start", about |-> {starting.dir}, outcome |-> outcome,
                    started |-> starting.started, vetted |-> starting.vetted]
        /\ starting' = None /\ UNCHANGED <<manifest, up, vetted>>
    BY DEF Modules!Ends, Modules!SayStart
  <1>2. VettedKnown'
    BY <1>1, VettedStays DEF RegistryInv, VettedKnown, Modules!Present, Modules!Dirs
  <1>3. RegistryInv'
    BY <1>1, <1>2 DEF RegistryInv, StartKnown
  <1>4. Truthful'
    BY <1>1 DEF Truthful, OthersUnaffected, ManifestFaultsShowEarly, Modules!OthersUnaffected,
       Modules!ManifestFaultsShowEarly, Modules!DummyContext, Modules!DockerContext, Modules!Runs
  <1>5. QED
    BY <1>3, <1>4

LEMMA StartInstanceKeeps ==
  ASSUME RegistryInv, Modules!StartInstance
  PROVE  RegistryInv' /\ Truthful'
  <1> DEFINE spec == starting.spec
             entry == Head(starting.plan)
             dir == starting.dir
  <1>1. /\ starting # None /\ Begun(dir, spec, starting.plan)
        /\ PlanFits(spec, starting.plan, starting.started)
        /\ starting.vetted => dir \in vetted /\ manifest[dir] = spec
    BY DEF Modules!StartInstance, RegistryInv, StartKnown
  <1>2. PICK p \in Modules!ProfileFor(spec, entry.profile) :
          IF p \notin DOMAIN spec.profiles THEN Modules!Ends("KeyError")
          ELSE IF ~(spec.profiles[p].requires \subseteq spec.flags) THEN Modules!Ends("RuntimeError")
          ELSE IF ~Modules!ProviderRenders(spec, dir, p) THEN Modules!Ends("TemplateError")
          ELSE LET started == starting.started \cup {entry.inst} IN
               /\ up' = IF spec.provider = "external" THEN up
                        ELSE up \cup {[inst |-> entry.inst, server |-> dir]}
               /\ IF Len(starting.plan) = 1
                  THEN /\ Modules!SayStart(dir, "none", started, starting.vetted)
                       /\ starting' = None
                  ELSE /\ starting' = [starting EXCEPT !.plan = Tail(@), !.started = started]
                       /\ said' = None
               /\ UNCHANGED <<manifest, vetted>>
    BY DEF Modules!StartInstance
  <1>3. CASE p \notin DOMAIN spec.profiles
    <2>1. starting.started = {}
      <3> SUFFICES ASSUME starting.plan \in Seq(ToSet(spec.instances)) PROVE FALSE
        BY <1>1 DEF PlanFits
      <3>1. spec.instances \in Seq(Entries)
        BY <1>1, DraftsAssumption DEF Begun, Raws, Entries
      <3>2. entry \in ToSet(spec.instances)
        BY <1>1 DEF Begun
      <3> HIDE DEF entry
      <3>3. entry.profile # None
        <4>1. PICK i \in DOMAIN spec.instances : entry = spec.instances[i]
          BY <3>2 DEF ToSet
        <4>2. entry \in Entries
          BY <3>1, <4>1
        <4>3. QED
          BY <4>2, NoneAssumption DEF Entries
      <3>4. p = entry.profile
        BY <1>2, <3>3 DEF Modules!ProfileFor
      <3>5. ~Modules!InstancesUnknown(spec)
        BY <1>1 DEF Begun, Modules!Load
      <3>6. QED
        BY <1>3, <3>2, <3>4, <3>5 DEF Modules!InstancesUnknown, Modules!ToSet, ToSet
    <2>2. QED
      BY <1>1, <1>2, <1>3, <2>1, EndsKeeps
  <1>4. CASE p \in DOMAIN spec.profiles /\ ~(spec.profiles[p].requires \subseteq spec.flags)
    BY <1>1, <1>2, <1>4, EndsKeeps
  <1>5. CASE /\ p \in DOMAIN spec.profiles /\ spec.profiles[p].requires \subseteq spec.flags
             /\ ~Modules!ProviderRenders(spec, dir, p)
    <2>1. ASSUME starting.vetted, manifest[dir].provider # "ec2",
                 Modules!DummyContext \subseteq Modules!DockerContext
          PROVE  FALSE
      <3>1. /\ manifest[dir] = spec /\ dir \in Modules!Present /\ ~Modules!Failures({dir})
        BY <1>1, <2>1 DEF RegistryInv, VettedKnown
      <3>2. Modules!Renders(spec, p, Modules!DummyContext)
        BY <1>5, <3>1 DEF Modules!Failures
      <3>3. spec.provider \in {"docker", "ec2", "external"}
        BY <1>1 DEF Begun, Modules!Load, Modules!Misfit, Modules!Providers
      <3>4. CASE spec.provider = "docker"
        <4>1. ~Modules!Renders(manifest[dir], p, Modules!DockerContext)
          BY <1>5, <3>4 DEF Modules!ProviderRenders
        <4>2. QED
          BY <2>1, <3>1, <3>2, <4>1 DEF Modules!Renders
      <3>5. CASE spec.provider = "external"
        BY <1>5, <3>5 DEF Modules!ProviderRenders
      <3>6. QED
        BY <2>1, <3>1, <3>3, <3>4, <3>5
    <2>2. QED
      BY <1>1, <1>2, <1>5, <2>1, EndsKeeps
  <1>6. CASE /\ p \in DOMAIN spec.profiles /\ spec.profiles[p].requires \subseteq spec.flags
             /\ Modules!ProviderRenders(spec, dir, p)
    <2> DEFINE started == starting.started \cup {entry.inst}
    <2>1. /\ up' = IF spec.provider = "external" THEN up
                   ELSE up \cup {[inst |-> entry.inst, server |-> dir]}
          /\ IF Len(starting.plan) = 1
             THEN /\ Modules!SayStart(dir, "none", started, starting.vetted)
                  /\ starting' = None
             ELSE /\ starting' = [starting EXCEPT !.plan = Tail(@), !.started = started]
                  /\ said' = None
          /\ UNCHANGED <<manifest, vetted>>
      BY <1>2, <1>6
    <2>2. \A i \in up' : i.server \in DOMAIN Drafts
      BY <1>1, <2>1 DEF RegistryInv, Begun
    <2>3. VettedKnown'
      BY <2>1, VettedStays DEF RegistryInv, VettedKnown, Modules!Present, Modules!Dirs
    <2>4. StartKnown'
      <3> SUFFICES ASSUME Len(starting.plan) # 1 PROVE StartKnown'
        BY <2>1 DEF StartKnown
      <3>1. starting' = [dir |-> dir, spec |-> spec, started |-> started,
                         plan |-> Tail(starting.plan), vetted |-> starting.vetted]
        BY <1>1, <2>1 DEF RegistryInv, StartKnown
      <3>2. PICK S : starting.plan \in Seq(S)
        BY <1>1 DEF Begun
      <3>3. Tail(starting.plan) \in Seq(S) /\ Tail(starting.plan) # <<>>
        BY <1>1, <3>2, TailOf DEF Begun
      <3>4. starting.plan \in Seq(ToSet(spec.instances))
        BY <1>1 DEF PlanFits
      <3>5. Tail(starting.plan) \in Seq(ToSet(spec.instances))
        BY <1>1, <3>4, TailOf DEF Begun
      <3>6. QED
        BY <1>1, <2>1, <3>1, <3>3, <3>5 DEF StartKnown, Begun, PlanFits
    <2>5. said' = None \/ (said'.op = "start" /\ said'.outcome = "none")
      BY <2>1 DEF Modules!SayStart
    <2>6. QED
      BY <2>1, <2>2, <2>3, <2>4, <2>5 DEF RegistryInv, Truthful, OthersUnaffected,
         ManifestFaultsShowEarly, Modules!OthersUnaffected, Modules!ManifestFaultsShowEarly
  <1>7. QED
    BY <1>3, <1>4, <1>5, <1>6

LEMMA CallTargetKeeps ==
  ASSUME RegistryInv, NEW name, Modules!CallTarget(name)
  PROVE  RegistryInv' /\ Truthful'
  <1>1. UNCHANGED <<manifest, up, vetted, starting>>
    BY DEF Modules!CallTarget
  <1>2. PICK server : /\ said'.op = "target" /\ said'.about = {server}
                      /\ said'.outcome \in {"RuntimeError", Modules!Get(server)}
    BY DEF Modules!CallTarget, Modules!Say
  <1>3. Modules!Get(server) # "none"
        => (server \notin Modules!Present \/ server \in Modules!Broken)'
    BY <1>1, GetTells DEF Modules!Present, Modules!Broken, Modules!Dirs
  <1>4. QED
    BY <1>1, <1>2, <1>3, OnlySaid, GetRaises DEF Truthful, OthersUnaffected, ManifestFaultsShowEarly,
       Modules!OthersUnaffected, Modules!ManifestFaultsShowEarly

LEMMA CallTargetsKeeps ==
  ASSUME RegistryInv, Modules!CallTargets
  PROVE  RegistryInv' /\ Truthful'
  <1> DEFINE servers == {i.server : i \in up}
  <1>1. UNCHANGED <<manifest, up, vetted, starting>>
    BY DEF Modules!CallTargets
  <1>2. /\ said'.op = "targets" /\ said'.about = servers
        /\ said'.outcome # "none" => \E s \in servers : said'.outcome = Modules!Get(s)
    BY DEF Modules!CallTargets, Modules!Say
  <1>3. \A s : Modules!Get(s) # "none" => (s \notin Modules!Present \/ s \in Modules!Broken)'
    BY <1>1, GetTells DEF Modules!Present, Modules!Broken, Modules!Dirs
  <1>4. QED
    BY <1>1, <1>2, <1>3, OnlySaid DEF Truthful, OthersUnaffected, ManifestFaultsShowEarly,
       Modules!OthersUnaffected, Modules!ManifestFaultsShowEarly

LEMMA StopKeeps ==
  ASSUME RegistryInv, NEW name, Modules!Stop(name)
  PROVE  RegistryInv' /\ Truthful'
  <1>1. /\ up' \subseteq up /\ UNCHANGED <<manifest, vetted, starting>>
        /\ said'.op = "stop" /\ said'.outcome = "none"
    BY DEF Modules!Stop, Modules!Say
  <1>2. VettedKnown'
    BY <1>1, VettedStays DEF RegistryInv, VettedKnown, Modules!Present, Modules!Dirs
  <1>3. QED
    BY <1>1, <1>2 DEF RegistryInv, StartKnown, Begun, Truthful, OthersUnaffected,
       ManifestFaultsShowEarly, Modules!OthersUnaffected, Modules!ManifestFaultsShowEarly

LEMMA SelfcheckKeeps ==
  ASSUME RegistryInv, NEW only \in SUBSET DOMAIN Drafts, Modules!Selfcheck(only)
  PROVE  RegistryInv' /\ Truthful'
  <1> DEFINE raises == IF only = {} THEN Modules!Discover(TRUE).raises
                       ELSE {Modules!Get(d) : d \in only} \ {"none"}
             specs == IF only = {} THEN Modules!Discover(TRUE).specs ELSE only
             about == IF only = {} THEN DOMAIN Drafts ELSE only
  <1>0. \E status : Modules!Say("selfcheck", about, status)
    BY DEF Modules!Selfcheck, Modules!Dirs
  <1>1. /\ UNCHANGED <<manifest, up, starting>>
        /\ said'.op = "selfcheck" /\ said'.about = about
    <2> HIDE DEF about
    <2>1. said'.op = "selfcheck" /\ said'.about = about
      BY <1>0 DEF Modules!Say
    <2>2. QED
      BY <2>1 DEF Modules!Selfcheck
  <1>2. /\ Modules!Discover(TRUE).raises = {Modules!Load(d, manifest[d]) : d \in Modules!Broken}
        /\ Modules!Discover(TRUE).specs = Modules!Present \ Modules!Broken
        /\ Modules!Broken \subseteq Modules!Present /\ Modules!Present \subseteq DOMAIN Drafts
    BY DEF Modules!Discover, Modules!Broken, Modules!Present, Modules!Dirs
  <1>3. /\ Modules!Present' = Modules!Present /\ Modules!Broken' = Modules!Broken
        /\ \A d : Modules!Failures({d}) => Modules!Failures({d})'
    BY <1>1 DEF Modules!Broken, Modules!Present, Modules!Dirs, Modules!Failures, Modules!Renders,
       Modules!LintComplains, Modules!InState, Modules!InstancesUnknown
  <1>4. CASE raises # {}
    <2>1. UNCHANGED vetted
      BY <1>4 DEF Modules!Selfcheck
    <2>2. PICK d \in about : d \notin Modules!Present \/ d \in Modules!Broken
      <3>1. CASE only = {}
        BY <1>2, <1>4, <3>1
      <3>2. CASE only # {}
        <4>1. PICK d \in only : Modules!Get(d) # "none"
          BY <1>4, <3>2
        <4>2. QED
          BY <3>2, <4>1, GetTells
      <3>3. QED
        BY <3>1, <3>2
    <2> HIDE DEF about, raises, specs
    <2>3. RegistryInv'
      BY <1>1, <2>1, OnlySaid
    <2>4. OthersUnaffected'
      BY <1>1, <1>3, <2>2 DEF OthersUnaffected, Modules!OthersUnaffected
    <2>5. ManifestFaultsShowEarly'
      BY <1>1 DEF ManifestFaultsShowEarly, Modules!ManifestFaultsShowEarly
    <2>6. QED
      BY <2>3, <2>4, <2>5 DEF Truthful
  <1>5. CASE raises = {} /\ (specs = {} \/ Modules!Failures(specs))
    <2>1. UNCHANGED vetted
      BY <1>5 DEF Modules!Selfcheck
    <2>2. \E d \in about : \/ d \notin Modules!Present \/ d \in Modules!Broken
                           \/ Modules!Failures({d})
      <3>1. CASE specs = {}
        <4>1. only = {} /\ Modules!Present = Modules!Broken
          BY <1>2, <3>1
        <4>2. QED
          BY <4>1, DraftsAssumption
      <3>2. CASE Modules!Failures(specs)
        <4>1. PICK d \in specs : Modules!Failures({d})
          BY <3>2 DEF Modules!Failures
        <4>2. d \in about
          BY <1>2
        <4>3. QED
          BY <4>1, <4>2
      <3>3. QED
        BY <1>5, <3>1, <3>2
    <2> HIDE DEF about, raises, specs
    <2>3. RegistryInv'
      BY <1>1, <2>1, OnlySaid
    <2>4. OthersUnaffected'
      BY <1>1, <1>3, <2>2 DEF OthersUnaffected, Modules!OthersUnaffected
    <2>5. ManifestFaultsShowEarly'
      BY <1>1 DEF ManifestFaultsShowEarly, Modules!ManifestFaultsShowEarly
    <2>6. QED
      BY <2>3, <2>4, <2>5 DEF Truthful
  <1>6. CASE raises = {} /\ specs # {} /\ ~Modules!Failures(specs)
    <2>1. vetted' = vetted \cup specs /\ said'.outcome = "exit 0"
      <3>1. vetted' = vetted \cup specs /\ Modules!Say("selfcheck", about, "exit 0")
        BY <1>6 DEF Modules!Selfcheck, Modules!Dirs
      <3> HIDE DEF about, raises, specs
      <3>2. QED
        BY <3>1 DEF Modules!Say
    <2>2. \A d \in specs : d \in Modules!Present \ Modules!Broken /\ ~Modules!Failures({d})
      <3>1. \A d \in specs : ~Modules!Failures({d})
        BY <1>6 DEF Modules!Failures
      <3>2. CASE only = {}
        BY <1>2, <3>1, <3>2
      <3>3. CASE only # {}
        <4>1. \A d \in only : Modules!Get(d) = "none"
          BY <1>6, <3>3
        <4>2. \A d \in only : d \in Modules!Present \ Modules!Broken
          BY <4>1 DEF Modules!Get, Modules!Broken
        <4>3. QED
          BY <3>1, <3>3, <4>2
      <3>4. QED
        BY <3>2, <3>3
    <2>3. VettedKnown'
      BY <1>1, <1>2, <2>1, <2>2, VettedStays DEF RegistryInv, VettedKnown
    <2>4. StartKnown'
      BY <1>1, <2>1 DEF RegistryInv, StartKnown, Begun
    <2>5. QED
      BY <1>1, <2>1, <2>3, <2>4 DEF RegistryInv, Truthful, OthersUnaffected, ManifestFaultsShowEarly,
         Modules!OthersUnaffected, Modules!ManifestFaultsShowEarly
  <1>7. QED
    BY <1>4, <1>5, <1>6

LEMMA RegistryNext ==
  ASSUME RegistryInv, Modules!Next
  PROVE  RegistryInv' /\ Truthful'
  <1>1. ASSUME NEW d \in DOMAIN Drafts, Modules!Save(d) \/ Modules!Stop(d) \/ Modules!CallTarget(d)
        PROVE  RegistryInv' /\ Truthful'
    BY <1>1, SaveKeeps, StopKeeps, CallTargetKeeps
  <1>2. CASE Modules!ProviderRaises
    <2>1. starting # None /\ Modules!Ends("RuntimeError")
      BY <1>2 DEF Modules!ProviderRaises
    <2>2. QED
      BY <2>1, EndsKeeps
  <1>3. QED
    BY <1>1, <1>2, CallStartKeeps, StartInstanceKeeps, CallTargetsKeeps, SelfcheckKeeps
       DEF Modules!Next, Modules!Dirs

(* While the registry is not in use, there is nothing to say.              *)
RegistryHere ==
    /\ open = "registry" => RegistryInv
    /\ open # "registry" => said = None
    /\ Truthful

LEMMA RegistryHereInit == NotebooksInit => RegistryHere
  <1>1. Modules!Init => said = None
    BY DEF Modules!Init
  <1>2. QED
    BY <1>1, RegistryInit DEF NotebooksInit, RegistryHere, Truthful, OthersUnaffected,
       ManifestFaultsShowEarly, Modules!OthersUnaffected, Modules!ManifestFaultsShowEarly

LEMMA RegistryHereNext == RegistryHere /\ [NotebooksNext]_notebooks => RegistryHere'
  <1> SUFFICES ASSUME RegistryHere, [NotebooksNext]_notebooks PROVE RegistryHere'
    OBVIOUS
  <1>1. CASE InRegistry /\ Modules!Next
    BY <1>1, RegistryNext DEF InRegistry, RegistryHere
  <1>2. CASE UNCHANGED <<open, registry>>
    <2>1. UNCHANGED <<open, manifest, up, vetted, starting, said>>
      BY <1>2 DEF registry
    <2>2. open = "registry" => RegistryInv'
      BY <2>1, OnlySaid DEF RegistryHere
    <2>3. Truthful'
      <3>1. OthersUnaffected'
        <4>1. /\ Modules!Present' = Modules!Present /\ Modules!Broken' = Modules!Broken
              /\ \A d : Modules!Failures({d}) => Modules!Failures({d})'
          BY <2>1 DEF Modules!Broken, Modules!Present, Modules!Dirs, Modules!Failures,
             Modules!Renders, Modules!LintComplains, Modules!InState, Modules!InstancesUnknown
        <4>2. QED
          BY <2>1, <4>1 DEF RegistryHere, Truthful, OthersUnaffected, Modules!OthersUnaffected
      <3>2. ManifestFaultsShowEarly'
        BY <2>1 DEF RegistryHere, Truthful, ManifestFaultsShowEarly, Modules!DummyContext,
           Modules!ManifestFaultsShowEarly, Modules!DockerContext, Modules!Runs
      <3>3. QED
        BY <3>1, <3>2 DEF Truthful
    <2>4. QED
      BY <2>1, <2>2, <2>3 DEF RegistryHere
  <1>3. QED
    BY <1>1, <1>2 DEF NotebooksNext, InReport, InTp6, InPlan, InScaling, notebooks

(* Whatever is saved in which directory and when, a call ends because of a *)
(* manifest or a template only if a directory that it is about is missing  *)
(* or bad (Registry.get, _load_all and start).                             *)
THEOREM FailuresAreOwn == NotebooksSpec => []OthersUnaffected
  <1>1. RegistryHere => OthersUnaffected
    BY DEF RegistryHere, Truthful
  <1>2. QED
    BY <1>1, RegistryHereInit, RegistryHereNext, PTL DEF NotebooksSpec

(* A start that a manifest ends has started nothing, and what passed       *)
(* selfcheck renders in a docker start while the pair runs (validate and   *)
(* Registry.selfcheck).                                                    *)
THEOREM FaultsShowEarly == NotebooksSpec => []ManifestFaultsShowEarly
  <1>1. RegistryHere => ManifestFaultsShowEarly
    BY DEF RegistryHere, Truthful
  <1>2. QED
    BY <1>1, RegistryHereInit, RegistryHereNext, PTL DEF NotebooksSpec

-----------------------------------------------------------------------------
(* TestPlan: what the cells know of the forwarded tier.                    *)
Every == ToSet(Plan!Pairs(Forwarders))

Cells == [at : {"idle", "direct", "7a", "7b", "summary"}, n : Nat \ {0}]

(* FWD_TARGETS are the first of the forwarders.                            *)
FirstTargets ==
    /\ targets \in Seq(STRING) /\ Len(targets) <= Len(Forwarders)
    /\ \A i \in 1 .. Len(targets) : targets[i] = Forwarders[i]

(* They are not there before TP-7a was run.                                *)
TargetsKnown ==
    (targets = None \/ FirstTargets) /\ (cell.at \in {"7a", "7b"} => FirstTargets)

(* After a TP-7a that ran to its end they are all of the forwarders, or a  *)
(* row says that some are missing.                                         *)
TierKnown ==
    /\ cell.at = "7a" => Len(targets) = cell.n - 1 /\ "7a" \notin whole
    /\ "7a" \in whole /\ ~skipped => targets = Forwarders
    /\ cell.at = "7b" => \A j \in 1 .. Len(Plan!Pairs(targets)) :
                            j * 7 < cell.n => Plan!Pairs(targets)[j] \in tested
    /\ "7b" \in whole /\ ~skipped => tested = Every

Reported == {<<1, "">>, <<2, "">>, <<3, "">>, <<4, "">>, <<4, "A">>, <<4, "B">>, <<4, "C">>,
             <<5, "">>, <<7, "a">>, <<7, "b">>}

(* The row recorded last is of a section of the report, and what is said   *)
(* of it holds.                                                            *)
RowKnown == (row # None => row.section \in Reported) /\ ForwardedNoStricter

PlanInv ==
    /\ cell \in Cells /\ (cell.at = "direct" => cell.n <= Len(Plan!Tests))
    /\ TargetsKnown /\ tested \subseteq Every
    /\ TierKnown /\ RowKnown

Labels == STRING \cup {"do53", "dot"}

IsPair(fs, x) ==
    \E m \in 1 .. Len(fs) : \E j \in DOMAIN Plan!Transports(fs[m]) :
       x = <<fs[m], Plan!Transports(fs[m])[j]>>

(* Every transport of every forwarder is among the pairs.                  *)
LEMMA PairsElements ==
  ASSUME NEW fs \in Seq(Labels)
  PROVE  /\ Plan!Pairs(fs) \in Seq(Labels \X Labels)
         /\ \A x : x \in ToSet(Plan!Pairs(fs)) <=> IsPair(fs, x)
  <1> DEFINE Row(m) == [j \in DOMAIN Plan!Transports(fs[m]) |-> <<fs[m], Plan!Transports(fs[m])[j]>>]
             each == [m \in DOMAIN fs |-> Row(m)]
  <1>1. \A m \in 1 .. Len(fs) : Row(m) \in Seq(Labels \X Labels)
    <2> SUFFICES ASSUME NEW m \in 1 .. Len(fs) PROVE Row(m) \in Seq(Labels \X Labels)
      OBVIOUS
    <2>1. Plan!Transports(fs[m]) \in Seq(Labels) /\ fs[m] \in Labels
      <3>1. Plan!Transports(fs[m]) \in {<<"do53", "dot">>, <<"do53">>}
        BY DEF Plan!Transports
      <3>2. "do53" \in Labels /\ "dot" \in Labels
        BY DEF Labels
      <3>3. <<"do53", "dot">> \in Seq(Labels) /\ <<"do53">> \in Seq(Labels)
        BY <3>2
      <3>4. fs[m] \in Labels
        OBVIOUS
      <3>5. QED
        BY <3>1, <3>3, <3>4
    <2>2. QED
      BY <2>1
  <1>2. each \in Seq(Seq(Labels \X Labels))
    <2>1. DOMAIN fs = 1 .. Len(fs) /\ Len(fs) \in Nat
      OBVIOUS
    <2> HIDE DEF Row
    <2>2. QED
      BY <1>1, <2>1
  <1>3. Plan!Pairs(fs) = FlattenSeq(each)
    BY DEF Plan!Pairs, Plan!FlattenSeq, FlattenSeq
  <1>4. /\ DOMAIN each = 1 .. Len(fs)
        /\ \A m \in 1 .. Len(fs) : each[m] = Row(m)
        /\ \A m \in 1 .. Len(fs) : \A x :
              x \in ToSet(Row(m)) <=> \E j \in DOMAIN Plan!Transports(fs[m]) :
                                        x = <<fs[m], Plan!Transports(fs[m])[j]>>
    BY DEF ToSet
  <1> HIDE DEF each, Row
  <1>5. /\ FlattenSeq(each) \in Seq(Labels \X Labels)
        /\ \A x : x \in ToSet(FlattenSeq(each)) <=> \E m \in DOMAIN each : x \in ToSet(each[m])
    BY <1>2, FlattenElements
  <1>6. ASSUME NEW x
        PROVE  x \in ToSet(Plan!Pairs(fs)) <=> IsPair(fs, x)
    <2>1. x \in ToSet(Plan!Pairs(fs)) <=> \E m \in 1 .. Len(fs) : x \in ToSet(Row(m))
      BY <1>3, <1>4, <1>5
    <2>2. QED
      BY <1>4, <2>1 DEF IsPair
  <1>7. QED
    BY <1>3, <1>5, <1>6

LEMMA SeqOfMore ==
  ASSUME NEW S, NEW T, S \subseteq T, NEW s \in Seq(S)
  PROVE  s \in Seq(T)
  OBVIOUS

LEMMA PairsOfTargets ==
  ASSUME FirstTargets
  PROVE  /\ Plan!Pairs(targets) \in Seq(Labels \X Labels)
         /\ ToSet(Plan!Pairs(targets)) \subseteq Every
  <1>1. targets \in Seq(Labels) /\ Forwarders \in Seq(Labels)
    <2>1. targets \in Seq(STRING) /\ Forwarders \in Seq(STRING) /\ STRING \subseteq Labels
      BY PlanAssumption DEF FirstTargets, Labels
    <2>2. QED
      BY <2>1, SeqOfMore
  <1>2. \A m \in 1 .. Len(targets) : m \in 1 .. Len(Forwarders) /\ targets[m] = Forwarders[m]
    BY <1>1 DEF FirstTargets
  <1>3. ASSUME NEW x \in ToSet(Plan!Pairs(targets)) PROVE x \in ToSet(Plan!Pairs(Forwarders))
    <2>1. PICK m \in 1 .. Len(targets) :
            \E j \in DOMAIN Plan!Transports(targets[m]) : x = <<targets[m], Plan!Transports(targets[m])[j]>>
      <3>1. IsPair(targets, x)
        BY <1>1, <1>3, PairsElements
      <3>2. QED
        BY <3>1 DEF IsPair
    <2>2. \E j \in DOMAIN Plan!Transports(Forwarders[m]) :
             x = <<Forwarders[m], Plan!Transports(Forwarders[m])[j]>>
      BY <1>2, <2>1
    <2>3. IsPair(Forwarders, x)
      BY <1>2, <2>2 DEF IsPair
    <2>4. QED
      BY <1>1, <2>3, PairsElements
  <1>4. QED
    BY <1>1, <1>3, PairsElements DEF Every

(* The tests of the direct tier.                                           *)
Of(sec, tests) == [section : {sec}, test : tests]

Known ==
    Of(<<1, "">>, {"cert"}) \cup Of(<<2, "">>, {"types"})
    \cup Of(<<3, "">>, {"rd", "nord", "do", "bogus", "cd"})
    \cup Of(<<4, "">>, {"noedns", "buf", "unkopt", "v1"}) \cup Of(<<4, "A">>, {"ecs", "badscope"})
    \cup Of(<<4, "B">>, {"ede"}) \cup Of(<<4, "C">>, {"none", "cookie", "malformed"})
    \cup Of(<<5, "">>, {"dnskey", "ds", "valid"})

LEMMA SectionsDiffer ==
  /\ <<2, "">> # <<1, "">>
  /\ <<3, "">> # <<1, "">> /\ <<3, "">> # <<2, "">>
  /\ <<4, "">> # <<1, "">> /\ <<4, "">> # <<2, "">> /\ <<4, "">> # <<3, "">>
  /\ <<4, "A">> # <<1, "">> /\ <<4, "A">> # <<2, "">> /\ <<4, "A">> # <<3, "">>
  /\ <<4, "A">> # <<4, "">>
  /\ <<4, "C">> # <<1, "">> /\ <<4, "C">> # <<2, "">> /\ <<4, "C">> # <<3, "">>
  /\ <<4, "C">> # <<4, "">> /\ <<4, "C">> # <<4, "A">> /\ <<4, "C">> # <<4, "B">>
  OBVIOUS

LEMMA TestsKnown == Plan!Tests \in Seq(Known)
  <1> DEFINE Cell(sec, tests) == [i \in DOMAIN tests |-> [section |-> sec, test |-> tests[i]]]
  <1>1. ASSUME NEW sec, NEW T, NEW tests \in Seq(T), Of(sec, T) \subseteq Known
        PROVE  Cell(sec, tests) \in Seq(Known)
    <2>1. DOMAIN tests = 1 .. Len(tests) /\ Len(tests) \in Nat /\ \A i \in 1 .. Len(tests) : tests[i] \in T
      OBVIOUS
    <2>2. \A i \in 1 .. Len(tests) : [section |-> sec, test |-> tests[i]] \in Known
      BY <1>1, <2>1 DEF Of
    <2> HIDE DEF Known
    <2>3. QED
      BY <2>1, <2>2
  <1>2. /\ Cell(<<1, "">>, <<"cert">>) \in Seq(Known) /\ Cell(<<2, "">>, <<"types">>) \in Seq(Known)
        /\ Cell(<<4, "B">>, <<"ede">>) \in Seq(Known)
    <2>1. <<"cert">> \in Seq({"cert"}) /\ <<"types">> \in Seq({"types"}) /\ <<"ede">> \in Seq({"ede"})
      OBVIOUS
    <2> HIDE DEF Cell
    <2>2. QED
      BY <1>1, <2>1 DEF Known
  <1>3. Cell(<<3, "">>, <<"rd", "nord", "do", "bogus", "cd">>) \in Seq(Known)
    <2>1. <<"rd", "nord", "do", "bogus", "cd">> \in Seq({"rd", "nord", "do", "bogus", "cd"})
      OBVIOUS
    <2> HIDE DEF Cell
    <2>2. QED
      BY <1>1, <2>1 DEF Known
  <1>4. Cell(<<4, "">>, <<"noedns", "buf", "unkopt", "v1">>) \in Seq(Known)
    <2>1. <<"noedns", "buf", "unkopt", "v1">> \in Seq({"noedns", "buf", "unkopt", "v1"})
      OBVIOUS
    <2> HIDE DEF Cell
    <2>2. QED
      BY <1>1, <2>1 DEF Known
  <1>5. Cell(<<4, "A">>, <<"ecs", "badscope">>) \in Seq(Known)
    <2>1. <<"ecs", "badscope">> \in Seq({"ecs", "badscope"})
      OBVIOUS
    <2> HIDE DEF Cell
    <2>2. QED
      BY <1>1, <2>1 DEF Known
  <1>6. Cell(<<4, "C">>, <<"none", "cookie", "malformed">>) \in Seq(Known)
    <2>1. <<"none", "cookie", "malformed">> \in Seq({"none", "cookie", "malformed"})
      OBVIOUS
    <2> HIDE DEF Cell
    <2>2. QED
      BY <1>1, <2>1 DEF Known
  <1>7. Cell(<<5, "">>, <<"dnskey", "ds", "valid">>) \in Seq(Known)
    <2>1. <<"dnskey", "ds", "valid">> \in Seq({"dnskey", "ds", "valid"})
      OBVIOUS
    <2> HIDE DEF Cell
    <2>2. QED
      BY <1>1, <2>1 DEF Known
  <1>8. Plan!Tests = Cell(<<1, "">>, <<"cert">>) \o Cell(<<2, "">>, <<"types">>)
                     \o Cell(<<3, "">>, <<"rd", "nord", "do", "bogus", "cd">>)
                     \o Cell(<<4, "">>, <<"noedns", "buf", "unkopt", "v1">>)
                     \o Cell(<<4, "A">>, <<"ecs", "badscope">>) \o Cell(<<4, "B">>, <<"ede">>)
                     \o Cell(<<4, "C">>, <<"none", "cookie", "malformed">>)
                     \o Cell(<<5, "">>, <<"dnskey", "ds", "valid">>)
    BY DEF Plan!Tests
  <1>9. \A s, t \in Seq(Known) : s \o t \in Seq(Known)
    OBVIOUS
  <1> HIDE DEF Cell, Known
  <1>10. QED
    BY <1>2, <1>3, <1>4, <1>5, <1>6, <1>7, <1>8, <1>9

LEMMA PlanInit == Plan!Init => PlanInv
  BY DEF Plan!Init, Plan!Idle, Plan!At, PlanInv, Cells, TargetsKnown, TierKnown, RowKnown,
     ForwardedNoStricter, Plan!ForwardedNoStricter

(* Without a new row, what is known of the last one stays.                 *)
LEMMA RowStays ==
  ASSUME PlanInv, row' = row \/ row' = None
  PROVE  RowKnown'
  <1>1. CASE row' = row
    BY <1>1 DEF PlanInv, RowKnown, ForwardedNoStricter, Plan!ForwardedNoStricter
  <1>2. CASE row' = None
    BY <1>2 DEF RowKnown, ForwardedNoStricter, Plan!ForwardedNoStricter
  <1>3. QED
    BY <1>1, <1>2

(* Where a cell begins.                                                    *)
LEMMA StartsKnown ==
  ASSUME NEW name \in {"direct", "7a", "7b", "summary"}, NEW n \in Plan!Starts(name)
  PROVE  n \in Nat \ {0} /\ (name = "direct" => n <= Len(Plan!Tests)) /\ (name # "direct" => n = 1)
  <1>1. CASE name = "direct"
    <2>1. n \in DOMAIN Plan!Tests
      BY <1>1 DEF Plan!Starts
    <2>2. DOMAIN Plan!Tests = 1 .. Len(Plan!Tests) /\ Len(Plan!Tests) \in Nat
      BY TestsKnown
    <2>3. QED
      BY <1>1, <2>1, <2>2
  <1>2. CASE name # "direct"
    BY <1>2 DEF Plan!Starts
  <1>3. QED
    BY <1>1, <1>2

LEMMA RunKeeps ==
  ASSUME PlanInv, NEW name \in {"direct", "7a", "7b", "summary"}, Plan!Run(name)
  PROVE  PlanInv'
  <1>1. /\ cell.at = "idle" /\ (name = "7b" => targets # None)
        /\ targets' = IF name = "7a" THEN <<>> ELSE targets
        /\ whole' = IF name = "7a" THEN whole \ {"7a"} ELSE whole
        /\ row' = None /\ UNCHANGED <<verdicts, skipped, tested, overall>>
    BY DEF Plan!Run
  <1>2. PICK n \in Plan!Starts(name) : cell' = [at |-> name, n |-> n]
    BY DEF Plan!Run, Plan!At
  <1>3. n \in Nat \ {0} /\ (name = "direct" => n <= Len(Plan!Tests)) /\ (name # "direct" => n = 1)
    BY StartsKnown
  <1>4. cell' \in Cells /\ (cell'.at = "direct" => cell'.n <= Len(Plan!Tests))
    BY <1>2, <1>3 DEF Cells
  <1>5. TargetsKnown'
    <2>1. CASE name = "7a"
      <3>1. targets' = <<>>
        BY <1>1, <2>1
      <3>2. QED
        BY <3>1, PlanAssumption DEF TargetsKnown, FirstTargets
    <2>2. CASE name # "7a"
      BY <1>1, <1>2, <2>2 DEF PlanInv, TargetsKnown, FirstTargets
    <2>3. QED
      BY <2>1, <2>2
  <1>6. TierKnown'
    <2>1. CASE name = "7a"
      <3>1. targets' = <<>> /\ cell'.at = "7a" /\ cell'.n = 1 /\ "7a" \notin whole'
        BY <1>1, <1>2, <1>3, <2>1
      <3>2. QED
        BY <1>1, <2>1, <3>1 DEF PlanInv, TierKnown
    <2>2. CASE name = "7b"
      <3>1. /\ cell'.at = "7b" /\ cell'.n = 1 /\ targets' = targets /\ whole' = whole
            /\ FirstTargets'
        BY <1>1, <1>2, <1>3, <1>5, <2>2 DEF TargetsKnown
      <3>2. FirstTargets
        BY <3>1 DEF FirstTargets
      <3>3. \A j \in 1 .. Len(Plan!Pairs(targets)) : ~(j * 7 < 1)
        BY <3>2, PairsOfTargets
      <3>4. \A j \in 1 .. Len(Plan!Pairs(targets')) : ~(j * 7 < cell'.n)
        BY <3>1, <3>3
      <3>5. QED
        BY <1>1, <3>1, <3>4 DEF PlanInv, TierKnown
    <2>3. CASE name \in {"direct", "summary"}
      BY <1>1, <1>2, <2>3 DEF PlanInv, TierKnown
    <2>4. QED
      BY <2>1, <2>2, <2>3
  <1>7. RowKnown'
    BY <1>1, RowStays
  <1>8. QED
    BY <1>1, <1>4, <1>5, <1>6, <1>7 DEF PlanInv

LEMMA HarnessKeeps ==
  ASSUME PlanInv, Plan!Harness
  PROVE  PlanInv'
  <1>1. /\ cell' = cell /\ cell.at = "idle" /\ row' = None
        /\ tested' = {} /\ whole' = {} /\ targets' \in {targets, None}
    BY DEF Plan!Harness
  <1>2. TargetsKnown'
    BY <1>1 DEF PlanInv, TargetsKnown, FirstTargets
  <1>3. TierKnown' /\ RowKnown'
    BY <1>1, RowStays DEF TierKnown
  <1>4. QED
    BY <1>1, <1>2, <1>3 DEF PlanInv

(* A forwarder more in FWD_TARGETS.                                        *)
LEMMA TargetsGrow ==
  ASSUME PlanInv, cell.at = "7a", cell.n <= Len(Forwarders),
         targets' = Append(targets, Forwarders[cell.n])
  PROVE  FirstTargets' /\ Len(targets') = cell.n
  <1> DEFINE f == Forwarders[cell.n]
  <1>1. /\ cell.n \in Nat \ {0} /\ FirstTargets
        /\ Len(targets) = cell.n - 1 /\ targets \in Seq(STRING)
    BY DEF PlanInv, TierKnown, TargetsKnown, Cells, FirstTargets
  <1>2. f \in STRING /\ Len(Forwarders) \in Nat
    BY <1>1, PlanAssumption
  <1>3. targets' \in Seq(STRING) /\ Len(targets') = cell.n
    BY <1>1, <1>2
  <1>4. ASSUME NEW i \in 1 .. cell.n PROVE targets'[i] = Forwarders[i]
    <2>1. CASE i = cell.n
      BY <1>1, <1>2, <2>1
    <2>2. CASE i # cell.n
      <3>1. i \in 1 .. Len(targets)
        BY <1>1, <2>2
      <3>2. targets'[i] = targets[i]
        BY <1>1, <1>2, <3>1
      <3>3. QED
        BY <1>1, <3>1, <3>2 DEF FirstTargets
    <2>3. QED
      BY <2>1, <2>2
  <1>5. QED
    BY <1>1, <1>3, <1>4 DEF FirstTargets

LEMMA PlanInterruptKeeps ==
  ASSUME PlanInv, Plan!Interrupt
  PROVE  PlanInv'
  <1>1. /\ cell' = [at |-> "idle", n |-> 1]
        /\ UNCHANGED <<row, verdicts, skipped, tested, whole, overall>>
    BY DEF Plan!Interrupt, Plan!Idle, Plan!At
  <1>2. CASE UNCHANGED targets
    <2>1. TargetsKnown' /\ TierKnown'
      BY <1>1, <1>2 DEF PlanInv, TargetsKnown, FirstTargets, TierKnown
    <2>2. QED
      BY <1>1, <2>1, RowStays DEF PlanInv, Cells
  <1>3. CASE /\ cell.at = "7a" /\ cell.n <= Len(Forwarders)
             /\ targets' = Append(targets, Forwarders[cell.n])
    <2>1. FirstTargets'
      BY <1>3, TargetsGrow
    <2>2. "7a" \notin whole
      BY <1>3 DEF PlanInv, TierKnown
    <2>3. TargetsKnown' /\ TierKnown'
      BY <1>1, <2>1, <2>2 DEF PlanInv, TargetsKnown, TierKnown
    <2>4. QED
      BY <1>1, <2>3, RowStays DEF PlanInv, Cells
  <1>4. QED
    BY <1>2, <1>3 DEF Plan!Interrupt

-----------------------------------------------------------------------------
(* The direct tier.                                                        *)
LEMMA VerdictOfSection ==
  ASSUME NEW test, NEW r
  PROVE  /\ Plan!Verdict(<<2, "">>, test, r) = Plan!RecordTypes(r)
         /\ Plan!Verdict(<<3, "">>, test, r) = Plan!Flags(test, r)
         /\ Plan!Verdict(<<4, "">>, test, r) = Plan!Edns(test, r)
         /\ Plan!Verdict(<<4, "A">>, test, r) = Plan!Ecs(test, r)
         /\ Plan!Verdict(<<4, "C">>, test, r) = Plan!Cookies(test, r)
  <1>1. Plan!Verdict(<<2, "">>, test, r) = Plan!RecordTypes(r)
    BY DEF Plan!Verdict
  <1>2. Plan!Verdict(<<3, "">>, test, r) = Plan!Flags(test, r)
    BY DEF Plan!Verdict
  <1>3. Plan!Verdict(<<4, "">>, test, r) = Plan!Edns(test, r)
    BY DEF Plan!Verdict
  <1>4. Plan!Verdict(<<4, "A">>, test, r) = Plan!Ecs(test, r)
    BY DEF Plan!Verdict
  <1>5. Plan!Verdict(<<4, "C">>, test, r) = Plan!Cookies(test, r)
    BY DEF Plan!Verdict
  <1>6. QED
    BY <1>1, <1>2, <1>3, <1>4, <1>5

(* A PASS of the direct tier is one of the forwarded tier.                 *)
LEMMA NoStricter ==
  ASSUME NEW t \in Known, NEW r \in Plan!Replies(t.test),
         Plan!Verdict(t.section, t.test, r) = "PASS", t.test \in ToSet(Plan!ForwardedTests)
  PROVE  Plan!ForwardedVerdict(t.test, r) = "PASS"
  <1> DEFINE test == t.test
  <1>1. \/ t.section = <<2, "">> /\ test = "types"
        \/ t.section = <<3, "">> /\ test \in {"do", "bogus"}
        \/ t.section = <<4, "">> /\ test \in {"noedns", "buf"}
        \/ t.section = <<4, "A">> /\ test = "ecs"
        \/ t.section = <<4, "C">> /\ test = "cookie"
    <2>1. test \in {"types", "do", "bogus", "noedns", "buf", "ecs", "cookie"}
      BY DEF Plan!ForwardedTests, Plan!ToSet, ToSet
    <2>2. QED
      BY <2>1 DEF Known, Of
  <1> HIDE DEF test
  <1> USE DEF Plan!Grade, Plan!Good, Plan!ForwardedVerdict, Plan!ForwardedPasses
  <1>2. CASE t.section = <<2, "">> /\ test = "types"
    <2>1. Plan!RecordTypes(r) = "PASS"
      BY <1>2, VerdictOfSection
    <2>2. QED
      BY <1>2, <2>1 DEF Plan!RecordTypes, test
  <1>3. CASE t.section = <<3, "">> /\ test \in {"do", "bogus"}
    <2>1. Plan!Flags(test, r) = "PASS"
      BY <1>3, VerdictOfSection DEF test
    <2>2. QED
      BY <1>3, <2>1 DEF Plan!Flags, test
  <1>4. CASE t.section = <<4, "">> /\ test \in {"noedns", "buf"}
    <2>1. Plan!Edns(test, r) = "PASS"
      BY <1>4, VerdictOfSection DEF test
    <2>2. QED
      BY <1>4, <2>1 DEF Plan!Edns, test
  <1>5. CASE t.section = <<4, "A">> /\ test = "ecs"
    <2>1. Plan!Ecs(test, r) = "PASS"
      BY <1>5, VerdictOfSection DEF test
    <2>2. QED
      BY <1>5, <2>1 DEF Plan!Ecs, test
  <1>6. CASE t.section = <<4, "C">> /\ test = "cookie"
    <2>1. Plan!Cookies(test, r) = "PASS"
      BY <1>6, VerdictOfSection DEF test
    <2>2. QED
      BY <1>6, <2>1 DEF Plan!Cookies, test
  <1>7. QED
    BY <1>1, <1>2, <1>3, <1>4, <1>5, <1>6

(* Rows of TP-7 are listed as such and leave the direct tier alone.        *)
LEMMA RecordsForwarded ==
  ASSUME NEW section \in {<<7, "a">>, <<7, "b">>}, NEW test, NEW reply, NEW verd,
         Plan!Record(section, test, reply, verd)
  PROVE  RowKnown'
  <1>1. row' = [section |-> section, test |-> test, reply |-> reply, verdict |-> verd]
    BY DEF Plan!Record
  <1>2. row'.section = section /\ row'.section[1] = 7
    BY <1>1
  <1>3. ~(row'.section[1] < 7)
    BY <1>2
  <1>4. ForwardedNoStricter'
    BY <1>3 DEF ForwardedNoStricter, Plan!ForwardedNoStricter
  <1>5. QED
    BY <1>2, <1>4 DEF RowKnown, Reported

LEMMA DirectKeeps ==
  ASSUME PlanInv, Plan!Direct
  PROVE  PlanInv'
  <1> DEFINE t == Plan!Tests[cell.n]
  <1>1. /\ cell.at = "direct" /\ cell.n \in Nat \ {0} /\ cell.n <= Len(Plan!Tests)
        /\ cell.n \in 1 .. Len(Plan!Tests)
    <2>1. cell.at = "direct"
      BY DEF Plan!Direct
    <2>2. cell.n \in Nat \ {0} /\ cell.n <= Len(Plan!Tests) /\ Len(Plan!Tests) \in Nat
      BY <2>1, TestsKnown DEF PlanInv, Cells
    <2>3. QED
      BY <2>1, <2>2
  <1>2. t \in Known
    BY <1>1, TestsKnown
  <1>3. PICK r \in Plan!Replies(t.test) :
          Plan!Record(t.section, t.test, r, Plan!Verdict(t.section, t.test, r))
    BY DEF Plan!Direct
  <1>4. /\ cell' = IF cell.n < Len(Plan!Tests) THEN [at |-> "direct", n |-> cell.n + 1]
                                               ELSE [at |-> "idle", n |-> 1]
        /\ UNCHANGED <<skipped, targets, tested, whole>>
    BY DEF Plan!Direct, Plan!Idle, Plan!At
  <1> HIDE DEF t
  <1>5. row' = [section |-> t.section, test |-> t.test, reply |-> r,
                verdict |-> Plan!Verdict(t.section, t.test, r)]
    BY <1>3 DEF Plan!Record
  <1>6. t.section \in Reported /\ row'.section = t.section
    BY <1>2, <1>5 DEF Known, Of, Reported
  <1>7. ForwardedNoStricter'
    <2> SUFFICES ASSUME row'.verdict = "PASS", row'.test \in Plan!ToSet(Plan!ForwardedTests)
                 PROVE  Plan!ForwardedVerdict(row'.test, row'.reply) = "PASS"
      BY DEF ForwardedNoStricter, Plan!ForwardedNoStricter
    <2>1. t.test \in ToSet(Plan!ForwardedTests) /\ Plan!Verdict(t.section, t.test, r) = "PASS"
      BY <1>5 DEF Plan!ToSet, ToSet
    <2>2. Plan!ForwardedVerdict(t.test, r) = "PASS"
      BY <1>2, <2>1, NoStricter
    <2>3. QED
      BY <1>5, <2>2
  <1>8. cell' \in Cells /\ (cell'.at = "direct" => cell'.n <= Len(Plan!Tests))
    <2>1. CASE cell.n < Len(Plan!Tests)
      <3>1. /\ cell' = [at |-> "direct", n |-> cell.n + 1]
            /\ cell.n + 1 \in Nat \ {0} /\ cell.n + 1 <= Len(Plan!Tests)
        BY <1>1, <1>4, <2>1, TestsKnown
      <3>2. QED
        BY <3>1 DEF Cells
    <2>2. CASE ~(cell.n < Len(Plan!Tests))
      BY <1>4, <2>2 DEF Cells
    <2>3. QED
      BY <2>1, <2>2
  <1>9. cell'.at \in {"direct", "idle"}
    BY <1>4
  <1>10. TargetsKnown' /\ TierKnown'
    BY <1>4, <1>9 DEF PlanInv, TargetsKnown, FirstTargets, TierKnown
  <1>11. QED
    BY <1>4, <1>6, <1>7, <1>8, <1>10 DEF PlanInv, RowKnown

-----------------------------------------------------------------------------
(* TP-7a.                                                                  *)
LEMMA StartForwarderKeeps ==
  ASSUME PlanInv, Plan!StartForwarder
  PROVE  PlanInv'
  <1>1. /\ cell.at = "7a" /\ cell.n <= Len(Forwarders) /\ cell.n \in Nat \ {0}
        /\ "7a" \notin whole
    BY DEF Plan!StartForwarder, PlanInv, TierKnown, Cells
  <1>2. /\ targets' = Append(targets, Forwarders[cell.n])
        /\ cell' = [at |-> "7a", n |-> cell.n + 1]
        /\ UNCHANGED <<skipped, tested, whole>>
        /\ \E v : Plan!Record(<<7, "a">>, "cert", None, v)
    BY DEF Plan!StartForwarder, Plan!At
  <1>3. FirstTargets' /\ Len(targets') = cell.n
    BY <1>1, <1>2, TargetsGrow
  <1>4. RowKnown'
    BY <1>2, RecordsForwarded
  <1>5. TargetsKnown' /\ TierKnown'
    BY <1>1, <1>2, <1>3 DEF PlanInv, TargetsKnown, TierKnown
  <1>6. cell' \in Cells /\ cell'.at # "direct"
    BY <1>1, <1>2 DEF Cells
  <1>7. QED
    BY <1>2, <1>4, <1>5, <1>6 DEF PlanInv

LEMMA StartRaisesKeeps ==
  ASSUME PlanInv, Plan!StartRaises
  PROVE  PlanInv'
  <1>1. /\ cell' = [at |-> "idle", n |-> 1] /\ skipped' = TRUE /\ UNCHANGED <<targets, tested>>
        /\ Plan!Record(<<7, "a">>, "start", None, "SKIP")
    BY DEF Plan!StartRaises, Plan!Idle, Plan!At
  <1>2. RowKnown'
    BY <1>1, RecordsForwarded
  <1>3. TargetsKnown' /\ TierKnown' /\ cell' \in Cells
    BY <1>1 DEF PlanInv, TargetsKnown, FirstTargets, TierKnown, Cells
  <1>4. QED
    BY <1>1, <1>2, <1>3 DEF PlanInv

LEMMA StartsDoneKeeps ==
  ASSUME PlanInv, Plan!StartsDone
  PROVE  PlanInv'
  <1>1. /\ cell.at = "7a" /\ cell.n = Len(Forwarders) + 1 /\ cell' = [at |-> "idle", n |-> 1]
        /\ whole' = whole \cup {"7a"}
        /\ UNCHANGED <<row, verdicts, skipped, targets, tested, overall>>
    BY DEF Plan!StartsDone, Plan!Idle, Plan!At
  <1>2. targets = Forwarders
    <2>1. FirstTargets /\ Len(targets) = Len(Forwarders)
      BY <1>1, PlanAssumption DEF PlanInv, TierKnown, TargetsKnown
    <2>2. targets \in Seq(STRING) /\ Forwarders \in Seq(STRING)
      BY <2>1, PlanAssumption DEF FirstTargets
    <2>3. \A i \in 1 .. Len(targets) : targets[i] = Forwarders[i]
      BY <2>1 DEF FirstTargets
    <2>4. QED
      BY <2>1, <2>2, <2>3
  <1>3. TargetsKnown' /\ cell' \in Cells /\ RowKnown'
    BY <1>1, RowStays DEF PlanInv, TargetsKnown, FirstTargets, Cells
  <1>4. TierKnown'
    BY <1>1, <1>2 DEF PlanInv, TierKnown
  <1>5. QED
    BY <1>1, <1>3, <1>4 DEF PlanInv

-----------------------------------------------------------------------------
(* TP-7b.                                                                  *)
LEMMA SevenTests == Len(Plan!ForwardedTests) = 7
  BY DEF Plan!ForwardedTests

LEMMA ForwardedKeeps ==
  ASSUME PlanInv, Plan!Forwarded
  PROVE  PlanInv'
  <1> DEFINE pairs == Plan!Pairs(targets)
             pair == pairs[((cell.n - 1) \div 7) + 1]
  <1>1. /\ cell.at = "7b" /\ cell.n <= Len(pairs) * 7 /\ cell.n \in Nat \ {0}
        /\ cell' = [at |-> "7b", n |-> cell.n + 1]
        /\ UNCHANGED <<skipped, targets, whole>>
    BY SevenTests DEF Plan!Forwarded, Plan!At, PlanInv, Cells
  <1>2. /\ tested' = IF cell.n % 7 = 0 THEN tested \cup {pair} ELSE tested
        /\ \E test, v : Plan!Record(<<7, "b">>, test, None, v)
    BY SevenTests DEF Plan!Forwarded
  <1>3. FirstTargets
    BY <1>1 DEF PlanInv, TargetsKnown
  <1>4. /\ pairs \in Seq(Labels \X Labels) /\ ToSet(pairs) \subseteq Every
    BY <1>3, PairsOfTargets
  <1>5. RowKnown'
    BY <1>2, RecordsForwarded
  <1> HIDE DEF pairs
  <1>6. ((cell.n - 1) \div 7) + 1 \in 1 .. Len(pairs)
    BY <1>1, <1>4
  <1>7. pair \in Every
    BY <1>4, <1>6 DEF ToSet
  <1>8. ASSUME NEW j \in 1 .. Len(pairs), j * 7 < cell.n + 1 PROVE pairs[j] \in tested'
    <2>1. CASE j * 7 < cell.n
      <3>1. pairs[j] \in tested
        BY <1>1, <2>1 DEF PlanInv, TierKnown, pairs
      <3>2. QED
        BY <1>2, <3>1
    <2>2. CASE j * 7 = cell.n
      <3>1. cell.n % 7 = 0 /\ ((cell.n - 1) \div 7) + 1 = j
        BY <2>2
      <3>2. QED
        BY <1>2, <3>1
    <2>3. j * 7 \in Nat
      BY <1>4
    <2>4. QED
      BY <1>1, <1>8, <2>1, <2>2, <2>3
  <1>9. tested' \subseteq Every /\ tested \subseteq tested'
    BY <1>2, <1>7 DEF PlanInv
  <1>10. TierKnown'
    <2>1. \A j \in 1 .. Len(pairs) : j * 7 < cell.n + 1 => pairs[j] \in tested'
      BY <1>8
    <2>2. \A j \in 1 .. Len(Plan!Pairs(targets')) :
             j * 7 < cell'.n => Plan!Pairs(targets')[j] \in tested'
      BY <1>1, <2>1 DEF pairs
    <2>3. "7b" \in whole /\ ~skipped => tested' = Every
      BY <1>9 DEF PlanInv, TierKnown
    <2>4. "7b" \in whole' /\ ~skipped' => tested' = Every'
      BY <1>1, <2>3 DEF Every
    <2>5. QED
      BY <1>1, <2>2, <2>4 DEF PlanInv, TierKnown
  <1>11. TargetsKnown' /\ cell' \in Cells
    <2>1. cell.n + 1 \in Nat \ {0}
      BY <1>1
    <2>2. QED
      BY <1>1, <1>3, <2>1 DEF TargetsKnown, FirstTargets, Cells
  <1>12. QED
    BY <1>1, <1>5, <1>9, <1>10, <1>11 DEF PlanInv, Every

LEMMA NoForwardersKeeps ==
  ASSUME PlanInv, Plan!NoForwarders
  PROVE  PlanInv'
  <1>1. /\ cell' = [at |-> "idle", n |-> 1] /\ skipped' = TRUE /\ UNCHANGED <<targets, tested>>
        /\ Plan!Record(<<7, "b">>, "none", None, "SKIP")
    BY DEF Plan!NoForwarders, Plan!ForwardedEnds, Plan!Idle, Plan!At
  <1>2. RowKnown'
    BY <1>1, RecordsForwarded
  <1>3. TargetsKnown' /\ TierKnown' /\ cell' \in Cells
    BY <1>1 DEF PlanInv, TargetsKnown, FirstTargets, TierKnown, Cells
  <1>4. QED
    BY <1>1, <1>2, <1>3 DEF PlanInv

LEMMA ForwardedDoneKeeps ==
  ASSUME PlanInv, Plan!ForwardedDone
  PROVE  PlanInv'
  <1> DEFINE pairs == Plan!Pairs(targets)
  <1>1. /\ cell.at = "7b" /\ cell.n > Len(pairs) * 7 /\ cell.n \in Nat
        /\ cell' = [at |-> "idle", n |-> 1]
        /\ whole' = whole \cup (IF "7a" \in whole THEN {"7b"} ELSE {})
        /\ UNCHANGED <<row, verdicts, skipped, targets, tested, overall>>
    BY SevenTests DEF Plan!ForwardedDone, Plan!ForwardedEnds, Plan!Idle, Plan!At, PlanInv, Cells
  <1>2. pairs \in Seq(Labels \X Labels)
    BY <1>1, PairsOfTargets DEF PlanInv, TargetsKnown
  <1>3. ASSUME ~skipped, "7a" \in whole PROVE tested = Every
    <2>1. targets = Forwarders
      BY <1>3 DEF PlanInv, TierKnown
    <2>2. ASSUME NEW j \in 1 .. Len(pairs) PROVE pairs[j] \in tested
      <3> HIDE DEF pairs
      <3>1. j * 7 < cell.n
        BY <1>1, <1>2
      <3>2. QED
        BY <1>1, <3>1 DEF PlanInv, TierKnown, pairs
    <2>3. Every = ToSet(pairs) /\ DOMAIN pairs = 1 .. Len(pairs)
      BY <1>2, <2>1 DEF Every
    <2> HIDE DEF pairs
    <2>4. QED
      BY <2>2, <2>3 DEF PlanInv, ToSet
  <1>4. TierKnown'
    BY <1>1, <1>3 DEF PlanInv, TierKnown
  <1>5. TargetsKnown' /\ cell' \in Cells /\ RowKnown'
    BY <1>1, RowStays DEF PlanInv, TargetsKnown, FirstTargets, Cells
  <1>6. QED
    BY <1>1, <1>4, <1>5 DEF PlanInv

LEMMA SummaryKeeps ==
  ASSUME PlanInv, Plan!Summary
  PROVE  PlanInv'
  <1>1. /\ cell' = [at |-> "idle", n |-> 1]
        /\ UNCHANGED <<row, verdicts, skipped, targets, tested, whole>>
    BY DEF Plan!Summary, Plan!Idle, Plan!At
  <1>2. TargetsKnown' /\ TierKnown' /\ cell' \in Cells /\ RowKnown'
    BY <1>1, RowStays DEF PlanInv, TargetsKnown, FirstTargets, TierKnown, Cells
  <1>3. QED
    BY <1>1, <1>2 DEF PlanInv

LEMMA PlanNext ==
  ASSUME PlanInv, Plan!Next
  PROVE  PlanInv'
  BY RunKeeps, PlanInterruptKeeps, HarnessKeeps, DirectKeeps, StartForwarderKeeps, StartRaisesKeeps,
     StartsDoneKeeps, ForwardedKeeps, NoForwardersKeeps, ForwardedDoneKeeps, SummaryKeeps
     DEF Plan!Next

LEMMA PlanStays ==
  ASSUME PlanInv, UNCHANGED plan
  PROVE  PlanInv'
  <1>1. UNCHANGED <<cell, row, verdicts, skipped, targets, tested, whole, overall>>
    BY DEF plan
  <1>2. TargetsKnown' /\ RowKnown'
    BY <1>1, RowStays DEF PlanInv, TargetsKnown, FirstTargets
  <1>3. TierKnown'
    <2>1. TierKnown
      BY DEF PlanInv
    <2>2. Plan!Pairs(targets)' = Plan!Pairs(targets)
      BY <1>1 DEF Plan!Pairs, Plan!Transports
    <2>3. (cell.at = "7b" => \A j \in 1 .. Len(Plan!Pairs(targets)) :
                               j * 7 < cell.n => Plan!Pairs(targets)[j] \in tested)'
      BY <1>1, <2>1, <2>2 DEF TierKnown
    <2>4. QED
      BY <1>1, <2>1, <2>3 DEF TierKnown
  <1>4. QED
    BY <1>1, <1>2, <1>3 DEF PlanInv

(* Where the rows of a section stand in the report.                        *)
Home(s) == <<s[1], IF s[2] \in {"a", "b"} THEN "" ELSE s[2]>>

ShownOnce(s) == Cardinality({h \in Plan!Headings : Plan!Owns(h, s)}) = 1

LEMMA OneHeading ==
  ASSUME NEW s, NEW n \in 1 .. 7, NEW x \in {"", "a", "b", "A", "B", "C"}, s = <<n, x>>,
         x \in {"A", "B", "C"} => n = 4
  PROVE  ShownOnce(s)
  <1> DEFINE home == <<n, IF x \in {"a", "b"} THEN "" ELSE x>>
  <1>1. s[1] = n /\ s[2] = x
    OBVIOUS
  <1>2. home \in Plan!Headings
    <2>1. <<n, "">> \in Plan!Headings
      BY DEF Plan!Headings
    <2>2. x \in {"A", "B", "C"} => <<4, x>> \in Plan!Headings
      BY DEF Plan!Headings
    <2>3. QED
      BY <2>1, <2>2
  <1>3. ASSUME NEW h \in Plan!Headings PROVE Plan!Owns(h, s) <=> h = home
    <2>1. \/ \E m \in 1 .. 7 : h = <<m, "">>
          \/ \E y \in {"A", "B", "C"} : h = <<4, y>>
      BY <1>3 DEF Plan!Headings
    <2>2. PICK m, y : h = <<m, y>> /\ y \in {"", "A", "B", "C"}
      BY <2>1
    <2>3. h[1] = m /\ h[2] = y
      BY <2>2
    <2>4. CASE x \in {"a", "b"}
      <3>1. Plan!Owns(h, s) <=> y = "" /\ n = m
        BY <1>1, <2>2, <2>3, <2>4 DEF Plan!Owns
      <3>2. QED
        BY <2>2, <2>4, <3>1
    <2>5. CASE x \notin {"a", "b"}
      BY <1>1, <2>3, <2>5 DEF Plan!Owns
    <2>6. QED
      BY <2>4, <2>5
  <1> HIDE DEF home
  <1>4. {h \in Plan!Headings : Plan!Owns(h, s)} = {home}
    BY <1>2, <1>3
  <1>5. QED
    BY <1>4, FS_Singleton DEF ShownOnce

LEMMA HeadingOfEach ==
  ASSUME NEW s \in Reported
  PROVE  ShownOnce(s)
  <1>1. ASSUME NEW n \in 1 .. 7, s = <<n, "">>
        PROVE  ShownOnce(s)
    <2>1. "" \in {"", "a", "b", "A", "B", "C"} /\ ~("" \in {"A", "B", "C"})
      OBVIOUS
    <2>2. QED
      BY <1>1, <2>1, OneHeading
  <1>2. ASSUME NEW x \in {"A", "B", "C"}, s = <<4, x>>
        PROVE  ShownOnce(s)
    <2>1. x \in {"", "a", "b", "A", "B", "C"}
      BY Zenon
    <2>2. 4 \in 1 .. 7
      OBVIOUS
    <2>3. QED
      BY <1>2, <2>1, <2>2, OneHeading, Zenon
  <1>3. ASSUME NEW x \in {"a", "b"}, s = <<7, x>>
        PROVE  ShownOnce(s)
    <2>1. x \in {"", "a", "b", "A", "B", "C"} /\ x \notin {"A", "B", "C"}
      BY Zenon
    <2>2. 7 \in 1 .. 7
      OBVIOUS
    <2>3. QED
      BY <1>3, <2>1, <2>2, OneHeading, Zenon
  <1>4. \/ s = <<1, "">> \/ s = <<2, "">> \/ s = <<3, "">> \/ s = <<4, "">> \/ s = <<5, "">>
        \/ s = <<4, "A">> \/ s = <<4, "B">> \/ s = <<4, "C">> \/ s = <<7, "a">> \/ s = <<7, "b">>
    BY DEF Reported
  <1>5. "A" \in {"A", "B", "C"} /\ "B" \in {"A", "B", "C"} /\ "C" \in {"A", "B", "C"}
    BY Zenon
  <1>6. 1 \in 1 .. 7 /\ 2 \in 1 .. 7 /\ 3 \in 1 .. 7 /\ 4 \in 1 .. 7 /\ 5 \in 1 .. 7
    OBVIOUS
  <1>7. QED
    BY <1>1, <1>2, <1>3, <1>4, <1>5, <1>6, Zenon

LEMMA PlanCounts == ASSUME NEW S PROVE Plan!Cardinality(S) = Cardinality(S)
  BY DEF Plan!Cardinality, Cardinality

LEMMA PlanHolds ==
  ASSUME PlanInv
  PROVE  TierComplete /\ ReportShowsEachRowOnce /\ ForwardedNoStricter
  <1>1. TierComplete
    <2> SUFFICES ASSUME ~skipped, "7b" \in whole
                 PROVE  tested = Plan!ToSet(Plan!Pairs(Forwarders))
      BY DEF TierComplete, Plan!TierComplete
    <2>1. tested = Every
      BY DEF PlanInv, TierKnown
    <2>2. QED
      BY <2>1 DEF Every, ToSet, Plan!ToSet
  <1>2. ReportShowsEachRowOnce
    <2> SUFFICES ASSUME row # None
                 PROVE  Plan!Cardinality({h \in Plan!Headings : Plan!Owns(h, row.section)}) = 1
      BY Zenon DEF ReportShowsEachRowOnce, Plan!ReportShowsEachRowOnce
    <2>1. row.section \in Reported
      BY DEF PlanInv, RowKnown
    <2>2. QED
      BY <2>1, HeadingOfEach, PlanCounts DEF ShownOnce
  <1>3. QED
    BY <1>1, <1>2 DEF PlanInv, RowKnown

LEMMA PlanStarts == NotebooksInit => PlanInv
  BY PlanInit DEF NotebooksInit

LEMMA PlanKept == PlanInv /\ [NotebooksNext]_notebooks => PlanInv'
  BY PlanNext, PlanStays DEF NotebooksNext, InReport, InTp6, InPlan, InScaling, InRegistry,
     notebooks, plan

(* OVERALL is PASS without a SKIP row only for a tier that was tested in   *)
(* full, if TP-7a and after it TP-7b have run to their ends once, for any  *)
(* forwarders and however the cells are interrupted and run again (TP-7a,  *)
(* TP-7b and the summary).                                                 *)
THEOREM SummaryIsComplete == NotebooksSpec => []TierComplete
  <1>1. PlanInv => TierComplete
    BY PlanHolds
  <1>2. QED
    BY <1>1, PlanStarts, PlanKept, PTL DEF NotebooksSpec

(* A forwarder that passes on a reply that is a PASS of its upstream is    *)
(* judged no harder than the upstream was (the verdicts of TP-7b).         *)
THEOREM ForwardingIsTransparent == NotebooksSpec => []ForwardedNoStricter
  <1>1. PlanInv => ForwardedNoStricter
    BY PlanHolds
  <1>2. QED
    BY <1>1, PlanStarts, PlanKept, PTL DEF NotebooksSpec

(* Every row of RESULTS is under one heading of the report, none is lost   *)
(* (the sections of the report export).                                    *)
THEOREM RowsHaveOneHeading == NotebooksSpec => []ReportShowsEachRowOnce
  <1>1. PlanInv => ReportShowsEachRowOnce
    BY PlanHolds
  <1>2. QED
    BY <1>1, PlanStarts, PlanKept, PTL DEF NotebooksSpec

-----------------------------------------------------------------------------
(* ScalingTest: the tools at work are those of the step, the rows those of *)
(* the steps before it.                                                    *)
Step == [server : STRING, pct : 0 .. 100]

Tool(name) == [tool |-> name, job |-> job]

RowsInOrder ==
    /\ results \in Seq([job : Step, run : {runs}, out : [Scaling!Tools -> {None, "report", "nothing"}]])
    /\ Len(results) = job - 1
    /\ \A i \in 1 .. Len(results) : results[i].job = Scaling!Jobs[i]

ScalingInv ==
    /\ phase \in {"idle", "submit", "await", "leaving"}
    /\ job \in Nat \ {0} /\ job <= Len(Scaling!Jobs) + 1
    /\ out \in [Scaling!Tools -> {None, "report", "nothing"}]
    /\ running \subseteq {Tool("dnsperf"), Tool("dnspyre")}
    /\ running # {} => phase \in {"await", "leaving"} /\ job <= Len(Scaling!Jobs)
    /\ phase = "await" => job <= Len(Scaling!Jobs)
    /\ phase = "submit" => out = Scaling!Nothing
    /\ phase = "await" => \A t \in running : out[t.tool] = None
    /\ RowsInOrder
    /\ TableOfOneRun

LEMMA ElementsOf ==
  ASSUME NEW S, NEW seq \in Seq(S)
  PROVE  DOMAIN seq = 1 .. Len(seq) /\ Len(seq) \in Nat /\ \A i \in 1 .. Len(seq) : seq[i] \in S
  OBVIOUS

LEMMA JobsType == Scaling!Jobs \in Seq(Step)
  <1> DEFINE AllSteps(s) == [p \in DOMAIN Steps |-> [server |-> Servers[s], pct |-> Steps[p]]]
             each == [s \in DOMAIN Servers |-> AllSteps(s)]
  <1>1. Steps \in Seq(0 .. 100) /\ Servers \in Seq(STRING)
    BY ScalingAssumption
  <1>2. /\ DOMAIN Steps = 1 .. Len(Steps) /\ Len(Steps) \in Nat
        /\ \A p \in 1 .. Len(Steps) : Steps[p] \in 0 .. 100
    BY <1>1, ElementsOf
  <1>3. /\ DOMAIN Servers = 1 .. Len(Servers) /\ Len(Servers) \in Nat
        /\ \A s \in 1 .. Len(Servers) : Servers[s] \in STRING
    BY <1>1, ElementsOf
  <1>5. ASSUME NEW s \in 1 .. Len(Servers) PROVE AllSteps(s) \in Seq(Step)
    <2>1. \A p \in 1 .. Len(Steps) : [server |-> Servers[s], pct |-> Steps[p]] \in Step
      BY <1>2, <1>3 DEF Step
    <2>2. QED
      BY <1>2, <2>1
  <1>6. each \in Seq(Seq(Step))
    <2> HIDE DEF AllSteps
    <2>1. QED
      BY <1>3, <1>5
  <1>7. Scaling!Jobs = FlattenSeq(each)
    BY DEF Scaling!Jobs, Scaling!FlattenSeq, FlattenSeq
  <1> HIDE DEF each
  <1>8. QED
    BY <1>6, <1>7, FlattenElements

-----------------------------------------------------------------------------
(* The sum of the rates of at most two tools.                              *)
Weight(t) == Scaling!Rate(t.tool, Scaling!Jobs[t.job].pct)

Load(set) == Scaling!MapThenSumSet(LAMBDA t : Scaling!Rate(t.tool, Scaling!Jobs[t.job].pct), set)

OneOf(s) == CHOOSE x \in s : TRUE

Sums(S, g) ==
    g = [s \in SUBSET S |-> IF s = {} THEN 0 ELSE Weight(OneOf(s)) + g[s \ {OneOf(s)}]]

LEMMA LoadSums == ASSUME NEW S PROVE Load(S) = (CHOOSE g : Sums(S, g))[S]
  BY DEF Load, Sums, OneOf, Weight, Scaling!MapThenSumSet, Scaling!MapThenFoldSet

LEMMA OneOfIn == ASSUME NEW S, S # {} PROVE OneOf(S) \in S
  BY DEF OneOf

LEMMA SumOfNone == ASSUME NEW S, NEW g, Sums(S, g) PROVE g[{}] = 0
  BY DEF Sums

LEMMA SumOfMore ==
  ASSUME NEW S, NEW g, Sums(S, g)
  PROVE  \A s \in SUBSET S : s # {} => g[s] = Weight(OneOf(s)) + g[s \ {OneOf(s)}]
  BY DEF Sums

(* What of a total of a recursive function is to be shown.                 *)
LEMMA SumsWhen ==
  ASSUME NEW S, NEW g, g = [s \in SUBSET S |-> g[s]], g[{}] = 0,
         \A s \in SUBSET S : s # {} => g[s] = Weight(OneOf(s)) + g[s \ {OneOf(s)}]
  PROVE  Sums(S, g)
  BY DEF Sums

LEMMA LoadOfNone == Load({}) = 0
  BY DEF Load, Scaling!MapThenSumSet, Scaling!MapThenFoldSet

LEMMA LoadOfOne ==
  ASSUME NEW a, Weight(a) \in Nat
  PROVE  Load({a}) = Weight(a)
  <1> DEFINE g == [s \in SUBSET {a} |-> IF s = {} THEN 0 ELSE Weight(a)]
             h == CHOOSE u : Sums({a}, u)
  <1>1. OneOf({a}) = a /\ {a} \ {a} = {} /\ {a} # {} /\ \A s \in SUBSET {a} : s = {} \/ s = {a}
    BY OneOfIn
  <1>2. g[{}] = 0 /\ g[{a}] = Weight(a)
    OBVIOUS
  <1>3. Sums({a}, g)
    <2>1. g = [s \in SUBSET {a} |-> g[s]]
      OBVIOUS
    <2> HIDE DEF g
    <2>2. g[{a}] = Weight(OneOf({a})) + g[{a} \ {OneOf({a})}]
      <3>1. Weight(a) + g[{}] = Weight(a)
        BY <1>2
      <3>2. QED
        BY <1>1, <1>2, <3>1, Zenon
    <2>3. ASSUME NEW s \in SUBSET {a}, s # {} PROVE g[s] = Weight(OneOf(s)) + g[s \ {OneOf(s)}]
      <3>1. s = {a}
        BY <1>1, <2>3
      <3>2. QED
        BY <2>2, <3>1, Zenon
    <2>4. QED
      BY <1>2, <2>1, <2>3, SumsWhen, Zenon
  <1>4. Sums({a}, h)
    BY <1>3
  <1> HIDE DEF g, h
  <1>5. h[{}] = 0
    BY <1>4, SumOfNone
  <1>6. h[{a}] = Weight(a) + h[{}]
    <2>1. {a} \in SUBSET {a} /\ {a} # {} /\ OneOf({a}) = a /\ {a} \ {a} = {}
      BY <1>1
    <2>2. \A s \in SUBSET {a} : s # {} => h[s] = Weight(OneOf(s)) + h[s \ {OneOf(s)}]
      BY <1>4, SumOfMore, Zenon
    <2>3. h[{a}] = Weight(OneOf({a})) + h[{a} \ {OneOf({a})}]
      BY <2>1, <2>2, Zenon
    <2>4. QED
      BY <2>1, <2>3, Zenon
  <1>7. Load({a}) = h[{a}]
    BY LoadSums DEF h
  <1>8. QED
    BY <1>5, <1>6, <1>7

LEMMA LoadOfTwo ==
  ASSUME NEW a, NEW b, a # b, Weight(a) \in Nat, Weight(b) \in Nat
  PROVE  Load({a, b}) = Weight(a) + Weight(b)
  <1> DEFINE S == {a, b}
             g == [s \in SUBSET S |-> IF s = {} THEN 0 ELSE IF s = {a} THEN Weight(a)
                                      ELSE IF s = {b} THEN Weight(b) ELSE Weight(a) + Weight(b)]
             h == CHOOSE u : Sums(S, u)
  <1>1. /\ \A s \in SUBSET S : s = {} \/ s = {a} \/ s = {b} \/ s = S
        /\ {} # {a} /\ {} # {b} /\ {} # S /\ {a} # {b} /\ S # {a} /\ S # {b}
        /\ {a} \in SUBSET S /\ {b} \in SUBSET S /\ S \in SUBSET S /\ {} \in SUBSET S
    OBVIOUS
  <1>2. /\ OneOf({a}) = a /\ OneOf({b}) = b /\ (OneOf(S) = a \/ OneOf(S) = b)
        /\ {a} \ {a} = {} /\ {b} \ {b} = {} /\ S \ {a} = {b} /\ S \ {b} = {a}
    BY OneOfIn
  <1>3. g[{}] = 0 /\ g[{a}] = Weight(a) /\ g[{b}] = Weight(b) /\ g[S] = Weight(a) + Weight(b)
    BY <1>1
  <1>4. Sums(S, g)
    <2>1. g = [s \in SUBSET S |-> g[s]]
      OBVIOUS
    <2> HIDE DEF g, S
    <2>2. g[S] = Weight(OneOf(S)) + g[S \ {OneOf(S)}]
      <3>1. g[S] = Weight(a) + g[{b}] /\ g[S] = Weight(b) + g[{a}]
        BY <1>3
      <3>2. QED
        BY <1>2, <3>1, Zenon
    <2>3. /\ g[{a}] = Weight(OneOf({a})) + g[{a} \ {OneOf({a})}]
          /\ g[{b}] = Weight(OneOf({b})) + g[{b} \ {OneOf({b})}]
      <3>1. g[{a}] = Weight(a) + g[{}] /\ g[{b}] = Weight(b) + g[{}]
        BY <1>3
      <3>2. QED
        BY <1>2, <3>1, Zenon
    <2>4. ASSUME NEW s \in SUBSET S, s # {} PROVE g[s] = Weight(OneOf(s)) + g[s \ {OneOf(s)}]
      <3>1. s = {a} \/ s = {b} \/ s = S
        BY <1>1, <2>4
      <3>2. QED
        BY <2>2, <2>3, <3>1, Zenon
    <2>5. QED
      BY <1>3, <2>1, <2>4, SumsWhen, Zenon
  <1>5. Sums(S, h)
    BY <1>4
  <1> HIDE DEF g, h, S
  <1>6. h[{}] = 0
    BY <1>5, SumOfNone
  <1>7. ASSUME NEW s \in SUBSET S, s # {} PROVE h[s] = Weight(OneOf(s)) + h[s \ {OneOf(s)}]
    <2>1. \A z \in SUBSET S : z # {} => h[z] = Weight(OneOf(z)) + h[z \ {OneOf(z)}]
      BY <1>5, SumOfMore, Zenon
    <2>2. QED
      BY <1>7, <2>1, Zenon
  <1>8. Load(S) = h[S]
    BY LoadSums DEF h
  <1>9. h[{a}] = Weight(a) + h[{}] /\ h[{b}] = Weight(b) + h[{}]
    <2>1. h[{a}] = Weight(OneOf({a})) + h[{a} \ {OneOf({a})}]
      BY <1>1, <1>7, Zenon
    <2>2. h[{b}] = Weight(OneOf({b})) + h[{b} \ {OneOf({b})}]
      BY <1>1, <1>7, Zenon
    <2>3. QED
      BY <1>2, <2>1, <2>2, Zenon
  <1>10. h[S] = Weight(OneOf(S)) + h[S \ {OneOf(S)}]
    BY <1>1, <1>7, Zenon
  <1>11. CASE OneOf(S) = a
    <2>1. h[S] = Weight(a) + h[{b}]
      BY <1>2, <1>10, <1>11, Zenon
    <2>2. QED
      BY <1>6, <1>8, <1>9, <2>1 DEF S
  <1>12. CASE OneOf(S) = b
    <2>1. h[S] = Weight(b) + h[{a}]
      BY <1>2, <1>10, <1>12, Zenon
    <2>2. QED
      BY <1>6, <1>8, <1>9, <2>1 DEF S
  <1>13. QED
    BY <1>2, <1>11, <1>12

(* Each tool has its share of the total.                                   *)
LEMMA Shares ==
  ASSUME NEW pct \in 0 .. 100
  PROVE  /\ Scaling!Rate("dnsperf", pct) \in 0 .. Total /\ Scaling!Rate("dnspyre", pct) \in 0 .. Total
         /\ Scaling!Rate("dnsperf", pct) + Scaling!Rate("dnspyre", pct) \in {Total - 1, Total}
  <1> DEFINE x == Total * pct
             y == Total * (100 - pct)
  <1>1. x \in Nat /\ y \in Nat /\ x + y = 100 * Total /\ Total \in Nat
    BY ScalingAssumption
  <1>2. Scaling!Rate("dnspyre", pct) = x \div 100 /\ Scaling!Rate("dnsperf", pct) = y \div 100
    BY DEF Scaling!Rate
  <1> HIDE DEF x, y
  <1>3. /\ x \div 100 \in 0 .. Total /\ y \div 100 \in 0 .. Total
        /\ (x \div 100) + (y \div 100) \in {Total - 1, Total}
    BY <1>1
  <1>4. QED
    BY <1>2, <1>3

-----------------------------------------------------------------------------
ResultRow == [job : Step, run : {runs}, out : [Scaling!Tools -> {None, "report", "nothing"}]]

LEMMA ScalingStart == Scaling!Init => ScalingInv
  <1> SUFFICES ASSUME Scaling!Init PROVE ScalingInv
    OBVIOUS
  <1> USE DEF Scaling!Init
  <1>1. Len(Scaling!Jobs) \in Nat
    BY JobsType
  <1>2. out \in [Scaling!Tools -> {None, "report", "nothing"}]
    BY DEF Scaling!Nothing
  <1>3. RowsInOrder /\ TableOfOneRun
    BY DEF RowsInOrder, TableOfOneRun, Scaling!TableOfOneRun
  <1>4. QED
    BY <1>1, <1>2, <1>3 DEF ScalingInv

LEMMA RunCellKeeps == ScalingInv /\ Scaling!RunCell => ScalingInv'
  <1> SUFFICES ASSUME ScalingInv, Scaling!RunCell PROVE ScalingInv'
    OBVIOUS
  <1>1. /\ phase = "idle" /\ phase' = "submit" /\ job' = 1 /\ results' = <<>>
        /\ out' = Scaling!Nothing /\ running' = running /\ table' = table
    BY DEF Scaling!RunCell
  <1>2. running = {}
    BY <1>1 DEF ScalingInv
  <1>3. out' \in [Scaling!Tools -> {None, "report", "nothing"}]
    BY <1>1 DEF Scaling!Nothing
  <1>4. RowsInOrder'
    BY <1>1 DEF RowsInOrder
  <1>5. TableOfOneRun'
    BY <1>1 DEF ScalingInv, TableOfOneRun, Scaling!TableOfOneRun
  <1>6. Len(Scaling!Jobs) \in Nat
    BY JobsType
  <1>7. QED
    BY <1>1, <1>2, <1>3, <1>4, <1>5, <1>6 DEF ScalingInv

LEMMA SubmitKeeps == ScalingInv /\ Scaling!Submit => ScalingInv'
  <1> SUFFICES ASSUME ScalingInv, Scaling!Submit PROVE ScalingInv'
    OBVIOUS
  <1>1. /\ phase = "submit" /\ phase' = "await" /\ job <= Len(Scaling!Jobs)
        /\ running' = running \cup [tool : Scaling!Tools, job : {job}]
        /\ job' = job /\ runs' = runs /\ out' = out /\ results' = results /\ table' = table
    BY DEF Scaling!Submit
  <1>2. running = {} /\ out = Scaling!Nothing
    BY <1>1 DEF ScalingInv
  <1>3. [tool : Scaling!Tools, job : {job}] = {Tool("dnsperf"), Tool("dnspyre")}
    <2>1. ASSUME NEW t \in [tool : Scaling!Tools, job : {job}]
          PROVE  t = Tool("dnsperf") \/ t = Tool("dnspyre")
      <3>1. /\ t = [tool |-> t.tool, job |-> t.job] /\ t.job = job
            /\ t.tool = "dnsperf" \/ t.tool = "dnspyre"
        BY DEF Scaling!Tools
      <3>2. QED
        BY <3>1 DEF Tool
    <2>2. Tool("dnsperf") \in [tool : Scaling!Tools, job : {job}]
      BY DEF Tool, Scaling!Tools
    <2>3. Tool("dnspyre") \in [tool : Scaling!Tools, job : {job}]
      BY DEF Tool, Scaling!Tools
    <2>4. QED
      BY <2>1, <2>2, <2>3
  <1>4. running' = {Tool("dnsperf"), Tool("dnspyre")}
    BY <1>1, <1>2, <1>3
  <1>5. Tool("dnsperf")' = Tool("dnsperf") /\ Tool("dnspyre")' = Tool("dnspyre")
    BY <1>1 DEF Tool
  <1>6. \A t \in running' : out'[t.tool] = None
    BY <1>1, <1>2, <1>4 DEF Tool, Scaling!Nothing, Scaling!Tools
  <1>7. RowsInOrder'
    BY <1>1 DEF ScalingInv, RowsInOrder
  <1>8. TableOfOneRun'
    BY <1>1 DEF ScalingInv, TableOfOneRun, Scaling!TableOfOneRun
  <1>9. QED
    BY <1>1, <1>4, <1>5, <1>6, <1>7, <1>8 DEF ScalingInv

LEMMA ToolEndsKeeps ==
  ASSUME ScalingInv, NEW t \in running, NEW printed \in {"report", "nothing"}, Scaling!Ends(t, printed)
  PROVE  ScalingInv'
  <1>1. /\ running' = running \ {t} /\ phase' = phase /\ job' = job /\ runs' = runs
        /\ results' = results /\ table' = table
        /\ out' = IF t.job = job THEN [out EXCEPT ![t.tool] = printed] ELSE out
    BY DEF Scaling!Ends
  <1>2. /\ t.tool \in Scaling!Tools /\ out \in [Scaling!Tools -> {None, "report", "nothing"}]
        /\ running \subseteq {Tool("dnsperf"), Tool("dnspyre")}
    BY DEF ScalingInv, Tool, Scaling!Tools
  <1>3. out' \in [Scaling!Tools -> {None, "report", "nothing"}]
    BY <1>1, <1>2
  <1>4. Tool("dnsperf")' = Tool("dnsperf") /\ Tool("dnspyre")' = Tool("dnspyre")
    BY <1>1 DEF Tool
  <1>5. \A u \in running' : u.tool # t.tool /\ u.tool \in Scaling!Tools
    BY <1>1, <1>2 DEF Tool, Scaling!Tools
  <1>6. phase' = "await" => \A u \in running' : out'[u.tool] = None
    BY <1>1, <1>2, <1>5 DEF ScalingInv
  <1>7. RowsInOrder'
    BY <1>1 DEF ScalingInv, RowsInOrder
  <1>8. TableOfOneRun'
    BY <1>1 DEF ScalingInv, TableOfOneRun, Scaling!TableOfOneRun
  <1>9. phase \in {"await", "leaving"} /\ job <= Len(Scaling!Jobs)
    BY DEF ScalingInv
  <1>10. QED
    BY <1>1, <1>2, <1>3, <1>4, <1>6, <1>7, <1>8, <1>9 DEF ScalingInv

LEMMA CollectKeeps == ScalingInv /\ Scaling!Collect => ScalingInv'
  <1> SUFFICES ASSUME ScalingInv, Scaling!Collect PROVE ScalingInv'
    OBVIOUS
  <1> DEFINE new == [job |-> Scaling!Jobs[job], run |-> runs, out |-> out]
  <1>1. /\ phase = "await" /\ phase' = "submit" /\ job' = job + 1 /\ out' = Scaling!Nothing
        /\ results' = Append(results, new)
        /\ runs' = runs /\ running' = running /\ table' = table
    BY DEF Scaling!Collect
  <1>2. running = {}
    <2>1. \A t \in running : t.tool \in Scaling!Tools
      BY DEF ScalingInv, Tool, Scaling!Tools
    <2>2. \A t \in running : out[t.tool] = None
      BY <1>1 DEF ScalingInv
    <2>3. QED
      BY <2>1, <2>2 DEF Scaling!Collect, Scaling!BothDone
  <1>3. /\ job \in Nat \ {0} /\ job <= Len(Scaling!Jobs) /\ Len(Scaling!Jobs) \in Nat
        /\ job \in 1 .. Len(Scaling!Jobs)
    BY <1>1, JobsType DEF ScalingInv
  <1>4. new \in ResultRow
    <2>1. Scaling!Jobs[job] \in Step
      BY <1>3, JobsType
    <2>2. QED
      BY <2>1 DEF ResultRow, ScalingInv
  <1>5. /\ results \in Seq(ResultRow) /\ Len(results) = job - 1
        /\ \A i \in 1 .. Len(results) : results[i].job = Scaling!Jobs[i]
    BY DEF ScalingInv, RowsInOrder, ResultRow
  <1>6. new.job = Scaling!Jobs[job]
    OBVIOUS
  <1> HIDE DEF new
  <1>7. /\ results' \in Seq(ResultRow) /\ Len(results') = job' - 1
        /\ \A i \in 1 .. Len(results') : results'[i].job = Scaling!Jobs[i]
    BY <1>1, <1>3, <1>4, <1>5, <1>6
  <1>8. ResultRow' = ResultRow
    BY <1>1 DEF ResultRow
  <1>9. RowsInOrder'
    BY <1>7, <1>8 DEF RowsInOrder, ResultRow
  <1>10. TableOfOneRun'
    BY <1>1 DEF ScalingInv, TableOfOneRun, Scaling!TableOfOneRun
  <1>11. out' \in [Scaling!Tools -> {None, "report", "nothing"}]
    BY <1>1 DEF Scaling!Nothing
  <1>12. QED
    BY <1>1, <1>2, <1>3, <1>9, <1>10, <1>11 DEF ScalingInv

(* A table of all steps: their number is reached, and they are of one run. *)
LEMMA CompleteKeeps == ScalingInv /\ Scaling!Complete => ScalingInv'
  <1> SUFFICES ASSUME ScalingInv, Scaling!Complete PROVE ScalingInv'
    OBVIOUS
  <1>1. /\ phase = "submit" /\ phase' = "idle" /\ table' = results /\ job > Len(Scaling!Jobs)
        /\ job' = job /\ runs' = runs /\ running' = running /\ out' = out /\ results' = results
    BY DEF Scaling!Complete
  <1>2. running = {}
    BY <1>1 DEF ScalingInv
  <1>3. /\ results \in Seq(ResultRow) /\ Len(results) = Len(Scaling!Jobs) /\ Scaling!Jobs \in Seq(Step)
        /\ \A i \in 1 .. Len(results) : results[i].job = Scaling!Jobs[i]
    BY <1>1, JobsType DEF ScalingInv, RowsInOrder, ResultRow
  <1>4. [i \in DOMAIN results |-> results[i].job] = Scaling!Jobs
    BY <1>3
  <1>5. results # <<>> => Cardinality({results[i].run : i \in DOMAIN results}) = 1
    <2>1. \A i \in DOMAIN results : results[i].run = runs
      <3>1. DOMAIN results = 1 .. Len(results) /\ \A i \in 1 .. Len(results) : results[i] \in ResultRow
        BY <1>3, ElementsOf
      <3>2. QED
        BY <3>1 DEF ResultRow
    <2>2. results # <<>> => {results[i].run : i \in DOMAIN results} = {runs}
      BY <1>3, <2>1
    <2>3. Cardinality({runs}) = 1
      BY FS_Singleton
    <2>4. QED
      BY <2>2, <2>3
  <1>6. TableOfOneRun'
    <2>1. \A S : Scaling!Cardinality(S) = Cardinality(S)
      BY DEF Scaling!Cardinality, Cardinality
    <2>2. QED
      BY <1>1, <1>4, <1>5, <2>1 DEF TableOfOneRun, Scaling!TableOfOneRun
  <1>7. RowsInOrder'
    BY <1>1 DEF ScalingInv, RowsInOrder
  <1>8. QED
    BY <1>1, <1>2, <1>6, <1>7 DEF ScalingInv

LEMMA InterruptKeeps == ScalingInv /\ Scaling!Interrupt => ScalingInv'
  <1> SUFFICES ASSUME ScalingInv, Scaling!Interrupt PROVE ScalingInv'
    OBVIOUS
  <1>1. /\ phase' = "leaving" /\ job' = job /\ runs' = runs /\ running' = running
        /\ out' = out /\ results' = results /\ table' = table
    BY DEF Scaling!Interrupt
  <1>2. RowsInOrder' /\ TableOfOneRun'
    BY <1>1 DEF ScalingInv, RowsInOrder, TableOfOneRun, Scaling!TableOfOneRun
  <1>3. Tool("dnsperf")' = Tool("dnsperf") /\ Tool("dnspyre")' = Tool("dnspyre")
    BY <1>1 DEF Tool
  <1>4. QED
    BY <1>1, <1>2, <1>3 DEF ScalingInv

LEMMA LeaveKeeps == ScalingInv /\ Scaling!Leave => ScalingInv'
  <1> SUFFICES ASSUME ScalingInv, Scaling!Leave PROVE ScalingInv'
    OBVIOUS
  <1>1. /\ phase' = "idle" /\ job' = job /\ runs' = runs /\ running' = running /\ running = {}
        /\ out' = out /\ results' = results /\ table' = table
    BY DEF Scaling!Leave
  <1>2. RowsInOrder' /\ TableOfOneRun'
    BY <1>1 DEF ScalingInv, RowsInOrder, TableOfOneRun, Scaling!TableOfOneRun
  <1>3. QED
    BY <1>1, <1>2 DEF ScalingInv

LEMMA ScalingNext == ScalingInv /\ Scaling!Next => ScalingInv'
  <1> SUFFICES ASSUME ScalingInv, Scaling!Next PROVE ScalingInv'
    OBVIOUS
  <1>1. CASE Scaling!ToolEnds \/ Scaling!TimesOut
    BY <1>1, ToolEndsKeeps DEF Scaling!ToolEnds, Scaling!TimesOut
  <1>2. QED
    BY <1>1, RunCellKeeps, SubmitKeeps, CollectKeeps, CompleteKeeps, InterruptKeeps, LeaveKeeps
       DEF Scaling!Next, Scaling!Kernel

LEMMA ScalingStays == ScalingInv /\ UNCHANGED scaling => ScalingInv'
  <1> SUFFICES ASSUME ScalingInv, UNCHANGED scaling PROVE ScalingInv'
    OBVIOUS
  <1>1. /\ phase' = phase /\ job' = job /\ runs' = runs /\ running' = running
        /\ out' = out /\ results' = results /\ table' = table
    BY DEF scaling
  <1>2. RowsInOrder' /\ TableOfOneRun'
    BY <1>1 DEF ScalingInv, RowsInOrder, TableOfOneRun, Scaling!TableOfOneRun
  <1>3. Tool("dnsperf")' = Tool("dnsperf") /\ Tool("dnspyre")' = Tool("dnspyre")
    BY <1>1 DEF Tool
  <1>4. QED
    BY <1>1, <1>2, <1>3 DEF ScalingInv

LEMMA ScalingHolds == ScalingInv => LoadWithinTotal /\ TableOfOneRun
  <1> SUFFICES ASSUME ScalingInv PROVE LoadWithinTotal
    BY DEF ScalingInv
  <1> DEFINE a == Tool("dnsperf")
             b == Tool("dnspyre")
  <1>1. \A S : Scaling!Cardinality(S) = Cardinality(S)
    BY DEF Scaling!Cardinality, Cardinality
  <1>2. LoadWithinTotal <=> /\ Load(running) <= Total
                            /\ Cardinality(running) = 2 => Load(running) >= Total - 1
    BY <1>1 DEF LoadWithinTotal, Scaling!LoadWithinTotal, Load
  <1>3. Total \in Nat
    BY ScalingAssumption
  <1>4. CASE running = {}
    <2>1. Cardinality({}) = 0
      BY FS_EmptySet
    <2>2. QED
      BY <1>2, <1>3, <1>4, <2>1, LoadOfNone
  <1>5. CASE running # {}
    <2> DEFINE pct == Scaling!Jobs[job].pct
    <2>1. job \in 1 .. Len(Scaling!Jobs)
      BY <1>5, JobsType DEF ScalingInv
    <2>2. pct \in 0 .. 100
      <3>1. Scaling!Jobs[job] \in Step
        BY <2>1, JobsType, ElementsOf
      <3>2. QED
        BY <3>1 DEF Step
    <2>3. Weight(a) = Scaling!Rate("dnsperf", pct) /\ Weight(b) = Scaling!Rate("dnspyre", pct)
      BY DEF Weight, Tool
    <2> HIDE DEF pct
    <2>4. /\ Weight(a) \in 0 .. Total /\ Weight(b) \in 0 .. Total
          /\ Weight(a) + Weight(b) \in {Total - 1, Total}
      BY <2>2, <2>3, Shares
    <2>5. a # b
      BY DEF Tool
    <2>6. running = {a} \/ running = {b} \/ running = {a, b}
      BY <1>5 DEF ScalingInv
    <2> HIDE DEF a, b
    <2>7. Weight(a) \in Nat /\ Weight(b) \in Nat
      BY <1>3, <2>4
    <2>8. CASE running = {a}
      <3>1. Load(running) = Weight(a) /\ Cardinality(running) = 1
        BY <2>7, <2>8, LoadOfOne, FS_Singleton
      <3>2. QED
        BY <1>2, <1>3, <2>4, <3>1
    <2>9. CASE running = {b}
      <3>1. Load(running) = Weight(b) /\ Cardinality(running) = 1
        BY <2>7, <2>9, LoadOfOne, FS_Singleton
      <3>2. QED
        BY <1>2, <1>3, <2>4, <3>1
    <2>10. CASE running = {a, b}
      <3>1. Load(running) = Weight(a) + Weight(b)
        BY <2>5, <2>7, <2>10, LoadOfTwo
      <3>2. QED
        BY <1>2, <1>3, <2>4, <2>7, <3>1
    <2>11. QED
      BY <2>6, <2>8, <2>9, <2>10
  <1>6. QED
    BY <1>4, <1>5

LEMMA ScalingStarts == NotebooksInit => ScalingInv
  BY ScalingStart DEF NotebooksInit

LEMMA ScalingKept == ScalingInv /\ [NotebooksNext]_notebooks => ScalingInv'
  BY ScalingNext, ScalingStays
     DEF NotebooksNext, notebooks, InReport, InTp6, InPlan, InScaling, InRegistry

(* Whatever is interrupted or times out, the tools at work are of one step *)
(* and their rates add up to the total (the scaling cell's pool of two).   *)
THEOREM LoadIsShared == NotebooksSpec => []LoadWithinTotal
  <1>1. ScalingInv => LoadWithinTotal
    BY ScalingHolds
  <1>2. QED
    BY <1>1, ScalingStarts, ScalingKept, PTL DEF NotebooksSpec

(* The table of a cell that came to its end has each step once, and none   *)
(* of an earlier, interrupted run (the scaling cell's loop).               *)
THEOREM TableIsOfOneRun == NotebooksSpec => []TableOfOneRun
  <1>1. ScalingInv => TableOfOneRun
    BY ScalingHolds
  <1>2. QED
    BY <1>1, ScalingStarts, ScalingKept, PTL DEF NotebooksSpec

-----------------------------------------------------------------------------
(* Types: what each of the invariants says of its module.                  *)
PlanFlags ==
    /\ verdicts \subseteq {"FAIL", "other"} /\ skipped \in BOOLEAN
    /\ whole \subseteq {"7a", "7b"} /\ overall \in {None, "PASS", "FAIL"}

LEMMA FlagsKept == PlanFlags /\ (Plan!Next \/ UNCHANGED plan) => PlanFlags'
  <1> SUFFICES ASSUME PlanFlags, Plan!Next \/ UNCHANGED plan PROVE PlanFlags'
    OBVIOUS
  <1>1. ASSUME NEW section, NEW test, NEW reply, NEW verd, Plan!Record(section, test, reply, verd)
        PROVE  verdicts' \subseteq {"FAIL", "other"} /\ overall' = None
    BY <1>1 DEF Plan!Record, PlanFlags
  <1>2. verdicts' \subseteq {"FAIL", "other"} /\ overall' \in {None, "PASS", "FAIL"}
    BY <1>1 DEF Plan!Next, plan, Plan!Run, Plan!Interrupt, Plan!Harness, Plan!Direct, Plan!StartForwarder,
           Plan!StartRaises, Plan!StartsDone, Plan!Forwarded, Plan!NoForwarders, Plan!ForwardedDone,
           Plan!Summary, PlanFlags
  <1>3. skipped' = skipped \/ skipped' = TRUE \/ skipped' = FALSE
    BY DEF Plan!Next, plan, Plan!Run, Plan!Interrupt, Plan!Harness, Plan!Direct, Plan!StartForwarder,
           Plan!StartRaises, Plan!StartsDone, Plan!Forwarded, Plan!NoForwarders, Plan!ForwardedDone,
           Plan!Summary
  <1>4. whole' \subseteq {"7a", "7b"}
    BY DEF Plan!Next, plan, Plan!Run, Plan!Interrupt, Plan!Harness, Plan!Direct, Plan!StartForwarder,
           Plan!StartRaises, Plan!StartsDone, Plan!Forwarded, Plan!NoForwarders, Plan!ForwardedDone,
           Plan!ForwardedEnds, Plan!Summary, PlanFlags
  <1>5. skipped' \in BOOLEAN
    BY <1>3, Zenon DEF PlanFlags
  <1>6. QED
    BY <1>2, <1>4, <1>5 DEF PlanFlags

LEMMA PlanTypes == PlanInv /\ PlanFlags => Plan!TypeOK
  <1> SUFFICES ASSUME PlanInv, PlanFlags PROVE Plan!TypeOK
    OBVIOUS
  <1>1. cell.at \in {"idle", "direct", "7a", "7b", "summary"}
    BY DEF PlanInv, Cells
  <1>2. ASSUME targets # None PROVE Plan!IsPrefix(targets, Forwarders)
    <2>1. /\ targets \in Seq(STRING) /\ Forwarders \in Seq(STRING) /\ Len(targets) <= Len(Forwarders)
          /\ \A i \in 1 .. Len(targets) : targets[i] = Forwarders[i]
      BY <1>2, PlanAssumption DEF PlanInv, TargetsKnown, FirstTargets
    <2>2. SubSeq(targets, 1, Len(targets)) = SubSeq(Forwarders, 1, Len(targets))
      BY <2>1
    <2>3. QED
      BY <2>1, <2>2 DEF Plan!IsPrefix
  <1>3. tested \subseteq Plan!ToSet(Plan!Pairs(Forwarders))
    BY DEF PlanInv, Every, Plan!ToSet, ToSet
  <1>4. QED
    BY <1>1, <1>2, <1>3 DEF Plan!TypeOK, PlanFlags

LEMMA ScalingTypes == ScalingInv => Scaling!TypeOK
  <1> SUFFICES ASSUME ScalingInv PROVE Scaling!TypeOK
    OBVIOUS
  <1>1. Len(Scaling!Jobs) \in Nat
    BY JobsType
  <1>2. job \in 1 .. Len(Scaling!Jobs) + 1 /\ Len(results) <= Len(Scaling!Jobs)
    BY <1>1 DEF ScalingInv, RowsInOrder
  <1>3. running \subseteq [tool : Scaling!Tools, job : 1 .. Len(Scaling!Jobs)]
    BY <1>1, <1>2 DEF ScalingInv, Tool, Scaling!Tools
  <1>4. QED
    BY <1>2, <1>3 DEF ScalingInv, Scaling!TypeOK

LEMMA RegistryTypes == RegistryInv => Modules!TypeOK
  BY DEF RegistryInv, StartKnown, Begun, VettedKnown, Modules!TypeOK, Modules!Dirs

LEMMA SessionTypes == Sess!Inv => Tp6!TypeOK
  BY DEF Sess!Inv, Sess!Types, Sess!TypeOK, Tp6!TypeOK, Tp6!Rcodes, Sess!Rcodes

AllInv ==
    /\ open \in {"report", "tp6", "plan", "scaling", "registry"}
    /\ TypeOK /\ Sess!Inv /\ PlanInv /\ PlanFlags /\ ScalingInv /\ RegistryHere

LEMMA ReportSetting == Setting
  BY ReportsAssumption DEF Setting

LEMMA AllInit == NotebooksInit => AllInv
  <1> SUFFICES ASSUME NotebooksInit PROVE AllInv
    OBVIOUS
  <1>1. TypeOK
    BY ReportSetting, InitTypes DEF NotebooksInit
  <1>2. PlanFlags
    BY DEF NotebooksInit, Plan!Init, PlanFlags
  <1>3. QED
    BY <1>1, <1>2, RegistryHereInit, SessionSetting, SameSession, Sess!InitInv, PlanInit, ScalingStart
       DEF NotebooksInit, AllInv

LEMMA AllNext == AllInv /\ [NotebooksNext]_notebooks => AllInv'
  <1> SUFFICES ASSUME AllInv, [NotebooksNext]_notebooks PROVE AllInv'
    OBVIOUS
  <1> USE DEF AllInv
  <1>1. /\ [Next]_vars /\ open' = open
        /\ Tp6!Next \/ UNCHANGED tp6
        /\ Plan!Next \/ UNCHANGED plan
        /\ Scaling!Next \/ UNCHANGED scaling
    BY DEF NotebooksNext, notebooks, InReport, InTp6, InPlan, InScaling, InRegistry
  <1>2. TypeOK'
    BY <1>1, ReportSetting, NextTypes
  <1>3. Sess!Inv'
    BY <1>1, SessionSetting, SameSteps, SameSession, Sess!NextInv
  <1>4. PlanInv' /\ PlanFlags'
    BY <1>1, PlanNext, PlanStays, FlagsKept
  <1>5. ScalingInv'
    BY <1>1, ScalingNext, ScalingStays
  <1>6. RegistryHere'
    BY RegistryHereNext
  <1>7. QED
    BY <1>1, <1>2, <1>3, <1>4, <1>5, <1>6

(* The open notebook, the report and the registry keep their types: no     *)
(* more responses counted than queries sent, the forwarded targets a first *)
(* part of the forwarders, no tool of a step there is not.                 *)
THEOREM NotebookTypes == NotebooksSpec => []TypesOK
  <1>1. AllInv => TypesOK
    BY SessionTypes, PlanTypes, ScalingTypes, RegistryTypes DEF AllInv, RegistryHere, TypesOK
  <1>2. QED
    BY <1>1, AllInit, AllNext, PTL DEF NotebooksSpec

=============================================================================
