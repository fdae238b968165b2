----------------------------- MODULE Certs_proofs -----------------------------
(***************************************************************************)
(* What holds of the certificates of one kernel, for any number of         *)
(* instances, any lifetimes and any time.                                  *)
(***************************************************************************)
EXTENDS Certs, TLAPS

(* The preconditions: one kernel, no two certificates within one second,   *)
(* and an instance is always asked for the same names.                     *)
Sole ==
    /\ \E p \in Procs : Procs = {p}
    /\ ~SameSecond
    /\ \A i \in Instances : \A s, t \in Asks[i] : s = t

-----------------------------------------------------------------------------
(* The inductive invariant.                                                *)

LeafPhase    == {"leaf_check", "leaf_load_pem", "leaf_load_key"}
WritePhase   == {"open_key", "write_key", "open_pem", "write_pem"}
BeforePem    == {"open_key", "write_key", "open_pem"}

Writes(p, o) == pc[p] \in WritePhase /\ mem[p].owner = o

(* Where a call can be, by its operation.                                  *)
CallInv(p) ==
    /\ call[p].op = "ensure_cert" => call[p].inst \in Instances /\ call[p].sans \in Asks[call[p].inst]
    /\ pc[p] \in LeafPhase => call[p].op = "ensure_cert"
    /\ pc[p] \in {"wipe_pem", "wipe_key"} => call[p].op = "regen" /\ call[p].force
    /\ pc[p] \in WritePhase =>
          \/ mem[p].owner = CA
          \/ call[p].op = "ensure_cert" /\ mem[p].owner = call[p].inst
    /\ result[p] # "none" => pc[p] = "idle"

(* A key file is there whenever the certificate is.                        *)
PemHasKey == \A o \in Owners : Present(pem[o]) => Present(key[o])

(* The key that was written is that of the certificate to come.            *)
KeyWritten(p) ==
    /\ pc[p] \in {"open_pem", "write_pem"} => key[mem[p].owner] = mem[p].new.subject
    /\ pc[p] = "write_pem" => pem[mem[p].owner] = Torn

(* The CA is in order, and replaced only when it is of no more use or the  *)
(* call was told to.                                                       *)
CaInv(p) ==
    /\ ~cut /\ ~(Halfway(p) /\ mem[p].owner = CA) /\ Readable(key[CA]) /\ InDate(CA) =>
          key[CA] = pem[CA].subject
    /\ Writes(p, CA) => ~InDate(CA) \/ Overwrites(p)
    /\ pc[p] \in LeafPhase \/ (pc[p] \in WritePhase /\ mem[p].owner # CA) =>
          Readable(pem[CA]) /\ (~cut /\ Readable(key[CA]) => key[CA] = pem[CA].subject)

(* All leaves are older than the CA that a call issues.                    *)
AgeInv(p) ==
    \A i \in Instances : Readable(pem[i]) =>
        /\ pc[p] # "idle" => pem[i].issued < clock
        /\ Writes(p, CA) => pem[i].issued < mem[p].new.issued

Replaceable(i) ==
    Readable(pem[i]) => ~InDate(i) \/ (Readable(pem[CA]) /\ pem[i].issued < pem[CA].issued)

(* A leaf not older than the CA was signed by it.                          *)
LeafInv(i) ==
    Readable(pem[i]) =>
        /\ \A s \in Asks[i] : s \subseteq pem[i].sans
        /\ Readable(pem[CA]) /\ pem[i].issued >= pem[CA].issued =>
              /\ ~cut => pem[i].signer = pem[CA].subject
              /\ pem[i].aki = pem[CA].subject

(* Such a leaf has its key, unless the key is the one being replaced.      *)
PairInv(p) ==
    ~cut =>
        \A i \in Instances :
            /\ InDate(i) /\ Readable(pem[CA]) /\ pem[i].issued >= pem[CA].issued
            /\ ~(Halfway(p) /\ mem[p].owner = i)
            => key[i] = pem[i].subject

(* The leaf at hand: the one on disk is of no use, unless the call was     *)
(* told to replace it; the new one is signed by the CA on disk.            *)
IssueInv(p) ==
    /\ pc[p] \in {"leaf_load_pem", "leaf_load_key"} => Replaceable(call[p].inst) \/ call[p].force
    /\ pc[p] = "leaf_load_key" => mem[p].new.aki = pem[CA].subject
    /\ pc[p] \in WritePhase /\ mem[p].owner # CA =>
          /\ Replaceable(mem[p].owner) \/ call[p].force
          /\ ~cut => mem[p].new.signer = pem[CA].subject
          /\ mem[p].new.aki = pem[CA].subject
          /\ mem[p].new.sans = call[p].sans

(* A regen() has removed what it no longer has on its list.                *)
RegenInv(p) ==
    call[p].op = "regen" =>
        /\ pc[p] = "wipe_pem" => \A o \in Owners : Present(pem[o]) => o \in mem[p].todo
        /\ pc[p] = "wipe_key" => \A o \in Owners : pem[o] = NoFile /\ (Present(key[o]) => o \in mem[p].todo)
        /\ pc[p] = "ca_check" /\ call[p].force => \A o \in Owners : pem[o] = NoFile /\ key[o] = NoFile
        /\ pc[p] \in WritePhase =>
              /\ mem[p].owner = CA
              /\ call[p].force => \A i \in Instances : pem[i] = NoFile /\ key[i] = NoFile

(* What the calls that returned have achieved.                             *)
ReturnInv(p) ==
    result[p] = "ok" =>
        /\ call[p].op = "ensure_cert" /\ ~cut => Verifies(call[p].inst, call[p].sans)
        /\ call[p].op = "regen" =>
              /\ call[p].force => \A i \in Instances : pem[i] = NoFile /\ key[i] = NoFile
              /\ Readable(pem[CA]) /\ key[CA] = pem[CA].subject

CertsInv ==
    /\ TypeOK /\ PemHasKey /\ \A i \in Instances : LeafInv(i)
    /\ \A p \in Procs : /\ CallInv(p) /\ KeyWritten(p) /\ CaInv(p) /\ AgeInv(p)
                        /\ PairInv(p) /\ IssueInv(p) /\ RegenInv(p) /\ ReturnInv(p)

-----------------------------------------------------------------------------
(* Types.                                                                  *)

LEMMA NoCertTypes == NoCert \in Certificate /\ NoMem \in Mem /\ NoCall \in Call
  <1>1. 0 \in Keys /\ 0 \in Time
    BY CertsAssumption DEF Keys, Time
  <1>2. NoCert \in Certificate
    BY <1>1 DEF NoCert, Certificate
  <1>3. QED
    BY <1>2 DEF NoMem, Mem, NoCall, Call, Owners, Ops

LEMMA ReadableTypes ==
  ASSUME TypeOK, NEW o \in Owners
  PROVE  /\ Readable(pem[o]) => pem[o] \in Certificate
         /\ Readable(key[o]) => key[o] \in Keys
         /\ \A c \in Certificate : Readable(c)
         /\ \A k \in Keys : Readable(k)
  BY FilesAssumption DEF TypeOK, Readable

(* What a call does to its own locals.                                     *)
LEMMA GotoTypes ==
  ASSUME TypeOK, NEW p \in Procs, NEW l \in Labels, Goto(p, l)
  PROVE  /\ pc' \in [Procs -> Labels] /\ call' \in [Procs -> Call]
         /\ result' \in [Procs -> {"none", "ok", "error", "crashed"}] /\ cut' \in BOOLEAN
  BY DEF TypeOK, Goto

LEMMA EndTypes ==
  ASSUME TypeOK, NEW p \in Procs, NEW r \in {"ok", "error", "crashed"}, End(p, r)
  PROVE  /\ pc' \in [Procs -> Labels] /\ call' \in [Procs -> Call] /\ mem' \in [Procs -> Mem]
         /\ result' \in [Procs -> {"none", "ok", "error", "crashed"}]
  BY NoCertTypes DEF TypeOK, End, Labels

LEMMA ReturnTypes ==
  ASSUME TypeOK, NEW p \in Procs, NEW r \in {"ok", "error", "crashed"}, Return(p, r)
  PROVE  /\ pc' \in [Procs -> Labels] /\ call' \in [Procs -> Call] /\ mem' \in [Procs -> Mem]
         /\ result' \in [Procs -> {"none", "ok", "error", "crashed"}] /\ cut' \in BOOLEAN
  BY EndTypes DEF TypeOK, Return

LEMMA CaDoneTypes ==
  ASSUME TypeOK, NEW p \in Procs, CaDone(p)
  PROVE  /\ pc' \in [Procs -> Labels] /\ call' \in [Procs -> Call] /\ mem' \in [Procs -> Mem]
         /\ result' \in [Procs -> {"none", "ok", "error", "crashed"}] /\ cut' \in BOOLEAN
  <1>1. CASE call[p].op = "ensure_cert"
    <2>1. Goto(p, "leaf_check") /\ mem' = [mem EXCEPT ![p] = NoMem]
      BY <1>1 DEF CaDone
    <2>2. "leaf_check" \in Labels
      BY DEF Labels
    <2>3. mem' \in [Procs -> Mem]
      BY <2>1, NoCertTypes DEF TypeOK
    <2>4. QED
      BY <2>1, <2>2, <2>3, GotoTypes
  <1>2. CASE call[p].op # "ensure_cert"
    BY <1>2, ReturnTypes DEF CaDone
  <1>3. QED
    BY <1>1, <1>2

LEMMA RaiseTypes == ASSUME TypeOK, NEW p \in Procs, Raise(p) PROVE TypeOK'
  <1>1. Return(p, "error") /\ UNCHANGED <<files, clock, keys>>
    BY DEF Raise
  <1>2. /\ pc' \in [Procs -> Labels] /\ call' \in [Procs -> Call] /\ mem' \in [Procs -> Mem]
        /\ result' \in [Procs -> {"none", "ok", "error", "crashed"}] /\ cut' \in BOOLEAN
    BY <1>1, ReturnTypes
  <1>3. QED
    BY <1>1, <1>2 DEF TypeOK, files

LEMMA EnterTypes ==
  ASSUME TypeOK, NEW p \in Procs, NEW c \in Call, NEW l \in Labels, NEW m \in Mem, Enter(p, c, l, m)
  PROVE  TypeOK'
  BY DEF TypeOK, Enter, files

LEMMA NextTypes == ASSUME TypeOK, [Next]_vars PROVE TypeOK'
  <1> USE DEF files
  <1>1. ASSUME NEW p \in Procs, CallEnsureCa(p) \/ CallEnsureCert(p) \/ CallRegenWipe(p) \/ CallRegenKeep(p)
        PROVE TypeOK'
    <2> USE DEF Labels
    <2>1. CASE CallEnsureCa(p)
      <3>1. PICK f \in BOOLEAN : Enter(p, [NoCall EXCEPT !.force = f], "ca_check", NoMem)
        BY <2>1, CertsAssumption DEF CallEnsureCa
      <3>2. [NoCall EXCEPT !.force = f] \in Call
        BY NoCertTypes DEF Call
      <3>3. QED
        BY <3>1, <3>2, NoCertTypes, EnterTypes
    <2>2. CASE CallEnsureCert(p)
      <3>1. PICK i \in Instances, s \in SUBSET ExtraSans, f \in BOOLEAN :
              Enter(p, [op |-> "ensure_cert", inst |-> i, sans |-> s, force |-> f], "ca_check", NoMem)
        BY <2>2, CertsAssumption DEF CallEnsureCert
      <3>2. [op |-> "ensure_cert", inst |-> i, sans |-> s, force |-> f] \in Call
        BY DEF Call, Ops, Owners
      <3>3. QED
        BY <3>1, <3>2, NoCertTypes, EnterTypes
    <2>3. CASE CallRegenWipe(p)
      <3>1. [NoMem EXCEPT !.todo = {o \in Owners : Present(pem[o])}] \in Mem
        BY NoCertTypes DEF NoMem, Mem
      <3>2. [op |-> "regen", inst |-> CA, sans |-> {}, force |-> TRUE] \in Call
        BY DEF Call, Ops, Owners
      <3>3. QED
        BY <2>3, <3>1, <3>2, EnterTypes DEF CallRegenWipe
    <2>4. CASE CallRegenKeep(p)
      <3>1. [op |-> "regen", inst |-> CA, sans |-> {}, force |-> FALSE] \in Call
        BY DEF Call, Ops, Owners
      <3>2. QED
        BY <2>4, <3>1, NoCertTypes, EnterTypes DEF CallRegenKeep
    <2>5. QED
      BY <1>1, <2>1, <2>2, <2>3, <2>4
  <1>2. ASSUME NEW p \in Procs, EnsureCaReuse(p) PROVE TypeOK'
    BY <1>2, CaDoneTypes DEF EnsureCaReuse, TypeOK
  <1>3. ASSUME NEW p \in Procs, EnsureCaUnreadable(p) \/ EnsureCertUnreadable(p) PROVE TypeOK'
    BY <1>3, RaiseTypes DEF EnsureCaUnreadable, EnsureCertUnreadable
  <1>4. ASSUME NEW p \in Procs, EnsureCaIssue(p) PROVE TypeOK'
    <2>1. keys \in Nat /\ MaxKeys \in Nat /\ keys + 1 \in Keys /\ keys' = keys + 1
      BY <1>4, CertsAssumption DEF EnsureCaIssue, TypeOK, Keys
    <2>2. [subject |-> keys + 1, signer |-> keys + 1, aki |-> keys + 1,
           issued |-> clock, sans |-> {}] \in Certificate
      BY <2>1 DEF Certificate, TypeOK
    <2>3. mem' \in [Procs -> Mem]
      BY <1>4, <2>2 DEF EnsureCaIssue, TypeOK, Mem, Owners
    <2>4. "open_key" \in Labels /\ Goto(p, "open_key")
      BY <1>4 DEF EnsureCaIssue, Labels
    <2>5. QED
      BY <1>4, <2>1, <2>3, <2>4, GotoTypes DEF EnsureCaIssue, TypeOK
  <1>5. ASSUME NEW p \in Procs, EnsureCertReuse(p) PROVE TypeOK'
    BY <1>5, ReturnTypes DEF EnsureCertReuse, TypeOK
  <1>6. ASSUME NEW p \in Procs, EnsureCertReissue(p) \/ WipeDone(p) \/ ListKeys(p) PROVE TypeOK'
    <2>1. CASE EnsureCertReissue(p)
      BY <2>1 DEF EnsureCertReissue, TypeOK, Goto, Labels
    <2>2. CASE WipeDone(p)
      BY <2>2 DEF WipeDone, TypeOK, Goto, Labels
    <2>3. CASE ListKeys(p)
      BY <2>3 DEF ListKeys, TypeOK, Goto, Labels, Mem
    <2>4. QED
      BY <1>6, <2>1, <2>2, <2>3
  <1>7. ASSUME NEW p \in Procs, LoadCaCert(p) PROVE TypeOK'
    <2>1. CASE ~Readable(pem[CA])
      BY <1>7, <2>1, RaiseTypes DEF LoadCaCert
    <2>2. CASE Readable(pem[CA])
      <3>1. pem[CA] \in Certificate
        BY <2>2, ReadableTypes DEF Owners
      <3>2. mem' = [mem EXCEPT ![p].new.aki = pem[CA].subject] /\ pem[CA].subject \in Keys
        BY <1>7, <2>2, <3>1 DEF LoadCaCert, Certificate
      <3>3. mem[p] \in Mem /\ mem[p].new \in Certificate
        BY DEF TypeOK, Mem
      <3>4. [mem[p].new EXCEPT !.aki = pem[CA].subject] \in Certificate
        BY <3>2, <3>3 DEF Certificate
      <3>5. [mem[p] EXCEPT !.new = [mem[p].new EXCEPT !.aki = pem[CA].subject]] \in Mem
        BY <3>3, <3>4 DEF Mem
      <3>6. mem' \in [Procs -> Mem]
        BY <3>2, <3>5 DEF TypeOK
      <3>7. QED
        BY <1>7, <2>2, <3>6 DEF LoadCaCert, TypeOK, Goto, Labels
    <2>3. QED
      BY <2>1, <2>2
  <1>8. ASSUME NEW p \in Procs, LoadCaKeyAndSign(p) PROVE TypeOK'
    <2>1. CASE ~Readable(key[CA])
      BY <1>8, <2>1, RaiseTypes DEF LoadCaKeyAndSign
    <2>2. CASE Readable(key[CA])
      <3>1. keys \in Nat /\ MaxKeys \in Nat /\ keys + 1 \in Keys /\ keys' = keys + 1
        BY <1>8, <2>2, CertsAssumption DEF LoadCaKeyAndSign, TypeOK, Keys
      <3>2. key[CA] \in Keys /\ mem[p].new.aki \in Keys /\ call[p].sans \in SUBSET ExtraSans
            /\ call[p].inst \in Owners
        BY <2>2, ReadableTypes DEF Owners, TypeOK, Mem, Certificate, Call
      <3>3. [subject |-> keys + 1, signer |-> key[CA], aki |-> mem[p].new.aki,
             issued |-> clock, sans |-> call[p].sans] \in Certificate
        BY <3>1, <3>2 DEF Certificate, TypeOK
      <3>4. mem' \in [Procs -> Mem]
        BY <1>8, <2>2, <3>2, <3>3 DEF LoadCaKeyAndSign, TypeOK, Mem
      <3>5. QED
        BY <1>8, <2>2, <3>1, <3>4 DEF LoadCaKeyAndSign, TypeOK, Goto, Labels
    <2>3. QED
      BY <2>1, <2>2
  <1>9. ASSUME NEW p \in Procs, OpenKey(p) \/ WriteKey(p) \/ OpenCert(p) PROVE TypeOK'
    <2>1. mem[p].owner \in Owners /\ mem[p].new.subject \in Keys
      BY DEF TypeOK, Mem, Certificate
    <2>2. QED
      BY <1>9, <2>1 DEF OpenKey, WriteKey, OpenCert, TypeOK, Goto, Labels
  <1>10. ASSUME NEW p \in Procs, WriteCert(p) PROVE TypeOK'
    <2>1. mem[p].owner \in Owners /\ mem[p].new \in Certificate
      BY DEF TypeOK, Mem
    <2>2. pem' \in [Owners -> Certificate \cup {NoFile, Torn}]
      BY <1>10, <2>1 DEF WriteCert, TypeOK
    <2>3. QED
      BY <1>10, <2>2, CaDoneTypes, ReturnTypes DEF WriteCert, TypeOK
  <1>11. ASSUME NEW p \in Procs, WipeCert(p) \/ WipeKey(p) PROVE TypeOK'
    <2>1. CASE Raise(p)
      BY <2>1, RaiseTypes
    <2>2. CASE ~Raise(p)
      <3>1. PICK o \in mem[p].todo : mem' = [mem EXCEPT ![p].todo = @ \ {o}]
        BY <1>11, <2>2 DEF WipeCert, WipeKey
      <3>2. mem' \in [Procs -> Mem]
        BY <3>1 DEF TypeOK, Mem
      <3>3. QED
        BY <1>11, <2>2, <3>2 DEF WipeCert, WipeKey, TypeOK
    <2>3. QED
      BY <2>1, <2>2
  <1>12. ASSUME clock < MaxTime, clock' = clock + 1 PROVE TypeOK => clock' \in Time
    BY <1>12, CertsAssumption DEF TypeOK, Time
  <1>13. ASSUME NEW p \in Procs, Crash(p) PROVE TypeOK'
    <2>1. End(p, "crashed") /\ clock' \in Time /\ UNCHANGED <<files, keys>> /\ cut' \in BOOLEAN
      BY <1>12, <1>13 DEF Crash
    <2>2. QED
      BY <2>1, EndTypes DEF TypeOK
  <1>14. CASE Tick
    BY <1>12, <1>14 DEF Tick, TypeOK
  <1>15. CASE UNCHANGED vars
    BY <1>15 DEF vars, TypeOK
  <1>16. QED
    BY <1>1, <1>2, <1>3, <1>4, <1>5, <1>6, <1>7, <1>8, <1>9, <1>10, <1>11, <1>13, <1>14, <1>15
       DEF Next, Step

LEMMA InitTypes == Init => TypeOK
  <1> SUFFICES ASSUME Init PROVE TypeOK
    OBVIOUS
  <1>1. 0 \in Keys /\ 1 \in Keys /\ 0 \in Time
    BY CertsAssumption DEF Keys, Time
  <1>2. [NoCert EXCEPT !.subject = 1, !.signer = 1, !.aki = 1] \in Certificate
    BY <1>1, NoCertTypes DEF NoCert, Certificate
  <1>3. pem \in [Owners -> Certificate \cup {NoFile, Torn}]
    BY <1>2 DEF Init
  <1>4. key \in [Owners -> Keys \cup {NoFile, Torn}]
    BY <1>1 DEF Init
  <1>5. QED
    BY <1>1, <1>3, <1>4, NoCertTypes DEF Init, TypeOK, Labels

(* Files, calls and locals keep their types, for any number of kernels.    *)
THEOREM CertTypes == Spec => []TypeOK
  BY InitTypes, NextTypes, PTL DEF Spec

-----------------------------------------------------------------------------
(* The invariant is inductive.                                             *)

Locals(p) ==
    /\ CallInv(p) /\ KeyWritten(p) /\ CaInv(p) /\ AgeInv(p)
    /\ PairInv(p) /\ IssueInv(p) /\ RegenInv(p) /\ ReturnInv(p)

Disk == PemHasKey /\ \A i \in Instances : LeafInv(i)

LEMMA Numbers ==
  ASSUME TypeOK
  PROVE  /\ clock \in Nat
         /\ \A o \in Owners : Lifetime(o) \in Nat /\ (Readable(pem[o]) => pem[o].issued \in Nat)
         /\ \A p \in Procs : mem[p].new.issued \in Nat
  <1>1. \A t \in Time : t \in Nat
    BY CertsAssumption DEF Time
  <1>2. \A o \in Owners : Lifetime(o) \in Nat
    BY CertsAssumption DEF Lifetime
  <1>3. \A o \in Owners : Readable(pem[o]) => pem[o].issued \in Nat
    BY <1>1, ReadableTypes DEF Certificate
  <1>4. \A p \in Procs : mem[p].new.issued \in Nat
    BY <1>1 DEF TypeOK, Mem, Certificate
  <1>5. QED
    BY <1>1, <1>2, <1>3, <1>4 DEF TypeOK

(* Time makes no certificate valid again.                                  *)
LEMMA TimePasses ==
  ASSUME TypeOK, TypeOK', UNCHANGED files, clock' \in {clock, clock + 1}, cut => cut'
  PROVE  /\ Disk => Disk'
         /\ \A o \in Owners : InDate(o)' => InDate(o)
         /\ \A i \in Instances : Replaceable(i) => Replaceable(i)'
  <1>1. \A o \in Owners : InDate(o)' => InDate(o)
    BY Numbers DEF InDate, files
  <1>2. QED
    BY <1>1 DEF Disk, PemHasKey, LeafInv, Replaceable, files, Owners

(* A step that leaves the files, the clock and the other kernels alone.    *)
LEMMA SameFiles ==
  ASSUME UNCHANGED <<files, clock, cut>>
  PROVE  /\ Disk' <=> Disk
         /\ \A o \in Owners : InDate(o)' <=> InDate(o)
         /\ \A o \in Owners : Fresh(o)' <=> Fresh(o)
         /\ \A i \in Instances : Replaceable(i)' <=> Replaceable(i)
  BY DEF Disk, PemHasKey, LeafInv, InDate, Fresh, Missing, Replaceable, files, Owners

(* Nor does it separate a leaf from its key.                               *)
LEMMA SamePairs ==
  ASSUME TypeOK, TypeOK', NEW p \in Procs, PairInv(p), UNCHANGED files, clock' \in {clock, clock + 1},
         ~cut' => ~cut /\ ~Halfway(p)
  PROVE  PairInv(p)'
  <1>1. \A o \in Owners : InDate(o)' => InDate(o)
    BY Numbers DEF InDate, files
  <1>2. QED
    BY <1>1 DEF PairInv, files, Owners

LEMMA EnterLocals ==
  ASSUME Sole, TypeOK, TypeOK', NEW p \in Procs, Locals(p),
         CallEnsureCa(p) \/ CallEnsureCert(p) \/ CallRegenWipe(p) \/ CallRegenKeep(p)
  PROVE  Locals(p)'
  <1>1. /\ UNCHANGED <<files, clock, cut>> /\ pc[p] = "idle" /\ result'[p] = "none" /\ pc'[p] \in {"ca_check", "wipe_pem"}
        /\ \A o \in Owners : Readable(pem[o]) => pem[o].issued < clock
    BY DEF CallEnsureCa, CallEnsureCert, CallRegenWipe, CallRegenKeep, Enter, TypeOK, Sole
  <1>2. CallInv(p)'
    <2>1. CASE CallEnsureCa(p)
      <3>1. pc'[p] = "ca_check" /\ call'[p].op = "ensure_ca"
        BY <2>1 DEF CallEnsureCa, Enter, TypeOK, NoCall
      <3>2. QED
        BY <1>1, <3>1 DEF CallInv, LeafPhase, WritePhase
    <2>2. CASE CallEnsureCert(p)
      <3>1. PICK i \in Starts[p] : \E s \in Asks[i] : \E f \in Forces["ensure_cert"] :
              Enter(p, [op |-> "ensure_cert", inst |-> i, sans |-> s, force |-> f], "ca_check", NoMem)
        BY <2>2 DEF CallEnsureCert
      <3>2. PICK s \in Asks[i] : \E f \in Forces["ensure_cert"] :
              Enter(p, [op |-> "ensure_cert", inst |-> i, sans |-> s, force |-> f], "ca_check", NoMem)
        BY <3>1
      <3>3. call'[p].op = "ensure_cert" /\ call'[p].inst = i /\ call'[p].sans = s /\ pc'[p] = "ca_check"
        BY <3>2 DEF Enter, TypeOK
      <3>4. i \in Instances
        BY CertsAssumption
      <3>5. QED
        BY <1>1, <3>3, <3>4 DEF CallInv, LeafPhase, WritePhase
    <2>3. CASE CallRegenWipe(p)
      BY <2>3, <1>1 DEF CallRegenWipe, Enter, CallInv, TypeOK, LeafPhase, WritePhase
    <2>4. CASE CallRegenKeep(p)
      BY <2>4, <1>1 DEF CallRegenKeep, Enter, CallInv, TypeOK, LeafPhase, WritePhase
    <2>5. QED
      BY <2>1, <2>2, <2>3, <2>4
  <1>3. KeyWritten(p)' /\ CaInv(p)' /\ AgeInv(p)' /\ IssueInv(p)' /\ ReturnInv(p)'
    BY <1>1, SameFiles DEF Locals, KeyWritten, CaInv, AgeInv, IssueInv, ReturnInv, LeafPhase, WritePhase, Writes,
       Halfway, files, Owners
  <1>4. RegenInv(p)'
    <2>1. CASE CallEnsureCa(p) \/ CallEnsureCert(p)
      <3>1. call'[p].op # "regen"
        BY <2>1 DEF CallEnsureCa, CallEnsureCert, Enter, TypeOK, NoCall
      <3>2. QED
        BY <3>1 DEF RegenInv
    <2>2. CASE CallRegenWipe(p)
      <3>1. pc'[p] = "wipe_pem" /\ mem'[p] = [NoMem EXCEPT !.todo = {o \in Owners : Present(pem[o])}]
        BY <2>2 DEF CallRegenWipe, Enter, TypeOK
      <3>2. mem'[p].todo = {o \in Owners : Present(pem[o])}
        BY <3>1 DEF NoMem
      <3>3. QED
        BY <1>1, <3>1, <3>2 DEF RegenInv, WritePhase, files
    <2>3. CASE CallRegenKeep(p)
      <3>1. pc'[p] = "ca_check" /\ ~call'[p].force
        BY <2>3 DEF CallRegenKeep, Enter, TypeOK
      <3>2. QED
        BY <3>1 DEF RegenInv, WritePhase
    <2>4. QED
      BY <2>1, <2>2, <2>3
  <1>5. PairInv(p)'
    BY <1>1, SamePairs DEF Locals, Halfway
  <1>6. QED
    BY <1>2, <1>3, <1>4, <1>5 DEF Locals

(* A call that fails or is cut short leaves nothing to be kept in order.   *)
LEMMA EndLocals ==
  ASSUME TypeOK, TypeOK', NEW p \in Procs, Locals(p), NEW r \in {"error", "crashed"}, End(p, r),
         UNCHANGED files, clock' \in {clock, clock + 1}, ~cut' => ~cut /\ ~Halfway(p)
  PROVE  Locals(p)'
  <1>1. pc'[p] = "idle" /\ result'[p] = r /\ UNCHANGED call
    BY DEF End, TypeOK
  <1>2. CallInv(p)' /\ KeyWritten(p)' /\ AgeInv(p)' /\ IssueInv(p)' /\ RegenInv(p)' /\ ReturnInv(p)'
    BY <1>1 DEF Locals, CallInv, KeyWritten, AgeInv, IssueInv, RegenInv, ReturnInv, LeafPhase, WritePhase, Writes
  <1>3. CaInv(p)'
    <2>1. InDate(CA)' => InDate(CA)
      BY TimePasses DEF Owners
    <2>2. QED
      BY <1>1, <2>1 DEF Locals, CaInv, LeafPhase, WritePhase, Writes, files
  <1>4. PairInv(p)'
    BY SamePairs DEF Locals
  <1>5. QED
    BY <1>2, <1>3, <1>4 DEF Locals

LEMMA TickLocals ==
  ASSUME TypeOK, TypeOK', NEW p \in Procs, Locals(p), UNCHANGED <<files, pc, call, mem, result, cut>>,
         clock' \in {clock, clock + 1}
  PROVE  Locals(p)'
  <1>0. (Halfway(p)' <=> Halfway(p)) /\ (Overwrites(p)' <=> Overwrites(p))
    BY DEF Halfway, Overwrites
  <1>1. CallInv(p)' /\ KeyWritten(p)' /\ RegenInv(p)' /\ ReturnInv(p)'
    BY DEF Locals, CallInv, KeyWritten, RegenInv, ReturnInv, Verifies, files
  <1>2. \A o \in Owners : InDate(o)' => InDate(o)
    BY TimePasses
  <1>3. CaInv(p)'
    BY <1>0, <1>2 DEF Locals, CaInv, Writes, files, Owners
  <1>4. AgeInv(p)'
    BY Numbers DEF Locals, AgeInv, Writes, files, Owners
  <1>5. IssueInv(p)'
    <2>1. pc[p] \in {"leaf_load_pem", "leaf_load_key"} => call[p].inst \in Instances
      BY DEF Locals, CallInv, LeafPhase
    <2>2. pc[p] \in WritePhase /\ mem[p].owner # CA => mem[p].owner \in Instances
      BY DEF TypeOK, Mem, Owners
    <2>3. QED
      BY <2>1, <2>2, TimePasses DEF Locals, IssueInv, files
  <1>6. PairInv(p)'
    BY <1>0, <1>2 DEF Locals, PairInv, files, Owners
  <1>7. QED
    BY <1>1, <1>3, <1>4, <1>5, <1>6 DEF Locals

(* The end of ensure_ca: the CA on disk is in order.                       *)
LEMMA CaDoneLocals ==
  ASSUME Sole, TypeOK, TypeOK', NEW p \in Procs, CallInv(p), CaDone(p), UNCHANGED <<clock, cut>>,
         pc[p] # "idle",
         Readable(pem[CA])' /\ (~cut /\ Readable(key[CA]) => key[CA] = pem[CA].subject)',
         \A i \in Instances : Readable(pem[i])' => (pem[i].issued < clock)',
         ~cut => \A i \in Instances :
                    (Readable(pem[i]) /\ InDate(i) /\ pem[i].issued >= pem[CA].issued
                        => key[i] = pem[i].subject)',
         call[p].op = "regen" =>
             /\ call[p].force => \A i \in Instances : pem'[i] = NoFile /\ key'[i] = NoFile
             /\ key'[CA] = pem'[CA].subject
  PROVE  Locals(p)'
  <1> USE DEF LeafPhase, WritePhase, Writes
  <1>1. CASE call[p].op = "ensure_cert"
    <2>1. pc'[p] = "leaf_check" /\ UNCHANGED <<call, result>>
      BY <1>1 DEF CaDone, Goto, TypeOK
    <2>2. result'[p] = "none"
      BY <2>1 DEF CallInv
    <2>3. QED
      BY <1>1, <2>1, <2>2 DEF Locals, CallInv, KeyWritten, CaInv, AgeInv, IssueInv, RegenInv, ReturnInv, PairInv, InDate
  <1>2. CASE call[p].op # "ensure_cert"
    <2>1. pc'[p] = "idle" /\ UNCHANGED call /\ result'[p] = "ok"
      BY <1>2 DEF CaDone, Return, End, TypeOK
    <2>2. QED
      BY <1>2, <2>1 DEF Locals, CallInv, KeyWritten, CaInv, AgeInv, IssueInv, RegenInv, ReturnInv, PairInv, InDate
  <1>3. QED
    BY <1>1, <1>2

LEMMA EnsureCaLocals ==
  ASSUME Sole, TypeOK, TypeOK', Disk, NEW p \in Procs, Locals(p),
         EnsureCaReuse(p) \/ EnsureCaIssue(p)
  PROVE  Locals(p)' /\ Disk'
  <1> USE DEF LeafPhase, WritePhase, Writes
  <1>0. /\ UNCHANGED <<files, clock, cut>> /\ pc[p] = "ca_check" /\ Disk'
        /\ ~Halfway(p)
        /\ \A i \in Instances : Readable(pem[i]) => pem[i].issued < clock
    <2>1. UNCHANGED <<files, clock, cut>> /\ pc[p] = "ca_check"
      BY DEF EnsureCaReuse, EnsureCaIssue, CaDone, Goto, Return
    <2>2. QED
      BY <2>1, SameFiles DEF Locals, AgeInv, Halfway
  <1>1. CASE EnsureCaReuse(p)
    <2>1. Readable(pem[CA]) /\ ~Missing(CA) /\ call[p].op # "regen"
      BY <1>1 DEF EnsureCaReuse, Fresh, InDate, ForcesCa
    <2>2. ~cut /\ Readable(key[CA]) => key[CA] = pem[CA].subject
      BY <1>0, <1>1 DEF EnsureCaReuse, Fresh, Locals, CaInv
    <2>3. Readable(pem[CA])' /\ (~cut /\ Readable(key[CA]) => key[CA] = pem[CA].subject)'
      BY <1>0, <2>1, <2>2 DEF files
    <2>4. \A i \in Instances : Readable(pem[i])' => (pem[i].issued < clock)'
      BY <1>0 DEF files
    <2>5. CallInv(p) /\ CaDone(p) /\ UNCHANGED <<clock, cut>> /\ pc[p] # "idle"
      BY <1>0, <1>1 DEF EnsureCaReuse, Locals
    <2>6. ~cut => \A i \in Instances :
            (Readable(pem[i]) /\ InDate(i) /\ pem[i].issued >= pem[CA].issued => key[i] = pem[i].subject)'
      BY <1>0, <2>1 DEF Locals, PairInv, InDate, Lifetime, files
    <2>7. Locals(p)'
      BY <2>1, <2>3, <2>4, <2>5, <2>6, CaDoneLocals
    <2>8. QED
      BY <1>0, <2>7
  <1>2. CASE EnsureCaIssue(p)
    <2>1. /\ pc'[p] = "open_key" /\ UNCHANGED <<call, result>>
          /\ mem'[p].owner = CA /\ mem'[p].new.issued = clock
      BY <1>2 DEF EnsureCaIssue, Goto, TypeOK
    <2>2. ~InDate(CA) \/ Overwrites(p)'
      <3>1. CASE call[p].op = "regen" /\ call[p].force
        BY <1>0, <3>1 DEF Locals, RegenInv, InDate, Readable, Owners
      <3>2. CASE Stale(CA)
        BY <3>2 DEF Stale, Fresh, Garbled, Missing, InDate, Readable, Disk, PemHasKey, Owners, Present
      <3>3. CASE ForcesCa(p) /\ ~(call[p].op = "regen" /\ call[p].force)
        BY <2>1, <3>3 DEF ForcesCa, Overwrites
      <3>4. QED
        BY <1>2, <3>1, <3>2, <3>3 DEF EnsureCaIssue
    <2>3. result'[p] = "none"
      BY <1>0, <2>1 DEF Locals, CallInv
    <2>4. CallInv(p)' /\ KeyWritten(p)' /\ IssueInv(p)' /\ ReturnInv(p)'
      BY <2>1, <2>3, <1>0 DEF Locals, CallInv, KeyWritten, IssueInv, ReturnInv
    <2>5. CaInv(p)' /\ AgeInv(p)'
      BY <1>0, <2>1, <2>2, SameFiles DEF Locals, CaInv, AgeInv, Halfway, files, Owners
    <2>6. RegenInv(p)'
      BY <1>0, <2>1, CertsAssumption DEF Locals, RegenInv, files, Owners
    <2>7. PairInv(p)'
      BY <1>0, SamePairs DEF Locals
    <2>8. QED
      BY <1>0, <2>4, <2>5, <2>6, <2>7 DEF Locals
  <1>3. QED
    BY <1>1, <1>2

(* The leaf is of use, or it is to be replaced.                            *)
LEMMA LeafLocals ==
  ASSUME Sole, TypeOK, TypeOK', Disk, NEW p \in Procs, Locals(p),
         EnsureCertReuse(p) \/ EnsureCertReissue(p)
  PROVE  Locals(p)' /\ Disk'
  <1> USE DEF LeafPhase, WritePhase, Writes
  <1>0. /\ UNCHANGED <<files, clock, cut>> /\ pc[p] = "leaf_check" /\ Disk'
        /\ call[p].op = "ensure_cert" /\ call[p].inst \in Instances /\ call[p].sans \in Asks[call[p].inst]
        /\ result[p] = "none" /\ ~Halfway(p)
    <2>1. UNCHANGED <<files, clock, cut>> /\ pc[p] = "leaf_check"
      BY DEF EnsureCertReuse, EnsureCertReissue, Goto, Return
    <2>2. QED
      BY <2>1, SameFiles DEF Locals, CallInv, Halfway
  <1>a. PairInv(p)'
    BY <1>0, SamePairs DEF Locals
  <1>1. CASE EnsureCertReuse(p)
    <2>1. pc'[p] = "idle" /\ UNCHANGED call
      BY <1>1 DEF EnsureCertReuse, Return, End, TypeOK
    <2>2. LeafReusable(call[p].inst, call[p].sans)
      BY <1>1 DEF EnsureCertReuse
    <2>3. ~cut => Verifies(call[p].inst, call[p].sans)
      BY <1>0, <2>2 DEF LeafReusable, Fresh, InDate, Disk, LeafInv, Locals, PairInv, Verifies
    <2>4. CaInv(p)'
      BY <1>0, <2>1, SameFiles DEF Locals, CaInv, files, Owners
    <2>5. QED
      BY <1>0, <1>a, <2>1, <2>3, <2>4
         DEF Locals, CallInv, KeyWritten, AgeInv, IssueInv, RegenInv, ReturnInv, Verifies, files
  <1>2. CASE EnsureCertReissue(p)
    <2>1. pc'[p] = "leaf_load_pem" /\ UNCHANGED <<call, result, mem>>
      BY <1>2 DEF EnsureCertReissue, Goto, TypeOK
    <2>2. Replaceable(call[p].inst) \/ call[p].force
      <3> DEFINE i == call[p].inst
      <3>1. CASE Stale(i)
        BY <1>0, <3>1 DEF Stale, Fresh, Garbled, Missing, Present, Readable, Replaceable, Disk, PemHasKey, Owners
      <3>2. CASE Fresh(i) /\ Readable(pem[CA]) /\ ~LeafReusable(i, call[p].sans)
        <4>1. Readable(pem[i]) => call[p].sans \subseteq pem[i].sans
          BY <1>0 DEF Disk, LeafInv
        <4>2. Readable(pem[i]) => ~(pem[i].issued >= pem[CA].issued)
          BY <3>2, <4>1 DEF LeafReusable
        <4>3. Readable(pem[i]) => pem[i].issued \in Nat /\ pem[CA].issued \in Nat
          BY <1>0, <3>2, Numbers DEF Owners
        <4>4. QED
          BY <3>2, <4>2, <4>3 DEF Replaceable
      <3>3. QED
        BY <1>2, <3>1, <3>2 DEF EnsureCertReissue
    <2>3. CaInv(p)'
      BY <1>0, <2>1, SameFiles DEF Locals, CaInv, files, Owners
    <2>4. IssueInv(p)'
      BY <1>0, <2>1, <2>2, SameFiles DEF IssueInv, files
    <2>5. QED
      BY <1>0, <1>a, <2>1, <2>3, <2>4 DEF Locals, CallInv, KeyWritten, AgeInv, RegenInv, ReturnInv, files
  <1>3. QED
    BY <1>1, <1>2

LEMMA LoadLocals ==
  ASSUME Sole, TypeOK, TypeOK', Disk, NEW p \in Procs, Locals(p),
         \/ LoadCaCert(p) /\ Readable(pem[CA])
         \/ LoadCaKeyAndSign(p) /\ Readable(key[CA])
  PROVE  Locals(p)' /\ Disk'
  <1> USE DEF LeafPhase, WritePhase, Writes
  <1>0. /\ UNCHANGED <<files, clock, call, result, cut>> /\ Disk' /\ pc[p] \in {"leaf_load_pem", "leaf_load_key"}
        /\ call[p].op = "ensure_cert" /\ call[p].inst \in Instances
        /\ result[p] = "none" /\ (Replaceable(call[p].inst) \/ call[p].force)
        /\ Readable(pem[CA]) /\ (~cut /\ Readable(key[CA]) => key[CA] = pem[CA].subject)
        /\ ~Halfway(p)
    <2>1. UNCHANGED <<files, clock, call, result, cut>> /\ pc[p] \in {"leaf_load_pem", "leaf_load_key"}
      BY DEF LoadCaCert, LoadCaKeyAndSign, Goto
    <2>2. QED
      BY <2>1, SameFiles DEF Locals, CallInv, IssueInv, CaInv, Halfway
  <1>a. PairInv(p)'
    BY <1>0, SamePairs DEF Locals
  <1>1. CASE LoadCaCert(p) /\ Readable(pem[CA])
    <2>1. pc'[p] = "leaf_load_key" /\ mem' = [mem EXCEPT ![p].new.aki = pem[CA].subject]
      BY <1>0, <1>1 DEF LoadCaCert, Goto, TypeOK
    <2>2. mem'[p].new.aki = pem[CA].subject
      BY <2>1 DEF TypeOK, Mem, Certificate
    <2>3. CaInv(p)' /\ IssueInv(p)'
      BY <1>0, <2>1, <2>2, SameFiles DEF Locals, CaInv, IssueInv, files, Owners
    <2>4. QED
      BY <1>0, <1>a, <2>1, <2>3 DEF Locals, CallInv, KeyWritten, AgeInv, RegenInv, ReturnInv, files
  <1>2. CASE LoadCaKeyAndSign(p) /\ Readable(key[CA])
    <2>0. Readable(key[CA])
      BY <1>2
    <2>1. /\ pc'[p] = "open_key" /\ mem'[p].owner = call[p].inst
          /\ mem'[p].new.signer = key[CA] /\ mem'[p].new.aki = mem[p].new.aki /\ mem'[p].new.sans = call[p].sans
      BY <2>0, <1>2 DEF LoadCaKeyAndSign, Goto, TypeOK
    <2>2. Readable(key[CA]) /\ mem[p].new.aki = pem[CA].subject /\ call[p].inst # CA
      <3>1. pc[p] = "leaf_load_key"
        BY <1>2 DEF LoadCaKeyAndSign
      <3>2. QED
        BY <1>0, <2>0, <3>1, CertsAssumption DEF Locals, IssueInv
    <2>3. CaInv(p)' /\ IssueInv(p)'
      BY <1>0, <2>1, <2>2, SameFiles DEF Locals, CaInv, IssueInv, Halfway, files, Owners
    <2>4. QED
      BY <1>0, <1>a, <2>1, <2>2, <2>3 DEF Locals, CallInv, KeyWritten, AgeInv, RegenInv, ReturnInv, files
  <1>3. QED
    BY <1>1, <1>2

(* What is known of the certificate that is being replaced.                *)
LEMMA AtHand ==
  ASSUME TypeOK, NEW p \in Procs, Locals(p), pc[p] \in WritePhase
  PROVE  /\ mem[p].owner \in Owners /\ mem[p].new \in Certificate
         /\ result[p] = "none"
         /\ mem[p].owner = CA => ~InDate(CA) \/ Overwrites(p)
         /\ mem[p].owner # CA =>
               /\ mem[p].owner \in Instances /\ mem[p].owner = call[p].inst /\ call[p].op = "ensure_cert"
               /\ Replaceable(mem[p].owner) \/ Overwrites(p)
               /\ Readable(pem[CA])
  BY DEF TypeOK, Mem, Owners, Locals, CallInv, CaInv, IssueInv, Writes, WritePhase, Overwrites

LEMMA WriteKeyLocals ==
  ASSUME TypeOK, TypeOK', Disk, NEW p \in Procs, Locals(p), OpenKey(p) \/ WriteKey(p)
  PROVE  Locals(p)' /\ Disk'
  <1> USE DEF LeafPhase, WritePhase, Writes
  <1> DEFINE o == mem[p].owner
  <1>0. /\ UNCHANGED <<pem, clock, call, result, mem, cut>>
        /\ pc[p] \in {"open_key", "write_key"} /\ pc'[p] \in {"write_key", "open_pem"}
        /\ key' = [key EXCEPT ![o] = key'[o]] /\ Present(key'[o])
        /\ pc'[p] = "write_key" => key'[o] = Torn
        /\ pc'[p] = "open_pem" => key'[o] = mem[p].new.subject
    <2>1. o \in Owners /\ mem[p].new.subject \in Keys
      BY DEF TypeOK, Mem, Certificate
    <2>2. CASE OpenKey(p)
      BY <2>1, <2>2, CertsAssumption DEF OpenKey, Goto, TypeOK, Present
    <2>3. CASE WriteKey(p)
      <3>1. mem[p].new.subject # NoFile
        BY <2>1, FilesAssumption
      <3>2. QED
        BY <2>1, <2>3, <3>1 DEF WriteKey, Goto, TypeOK, Present
    <2>4. QED
      BY <2>2, <2>3
  <1>1. /\ o \in Owners /\ result[p] = "none"
        /\ o = CA => ~InDate(CA) \/ Overwrites(p)
        /\ o # CA => /\ o \in Instances /\ o = call[p].inst /\ call[p].op = "ensure_cert"
                     /\ Replaceable(o) \/ Overwrites(p)
                     /\ Readable(pem[CA])
    BY <1>0, AtHand
  <1>2. \A q \in Owners : q # o => key'[q] = key[q]
    BY <1>0 DEF TypeOK
  <1>3. /\ (Overwrites(p)' <=> Overwrites(p)) /\ (Overwrites(p) => Halfway(p)')
        /\ \A q \in Owners : InDate(q)' <=> InDate(q)
    BY <1>0 DEF Overwrites, Halfway, InDate
  <1>4. Disk'
    <2>1. PemHasKey'
      BY <1>0, <1>2 DEF Disk, PemHasKey
    <2>2. ASSUME NEW i \in Instances PROVE LeafInv(i)'
      BY <1>0 DEF Disk, LeafInv
    <2>3. QED
      BY <2>1, <2>2 DEF Disk
  <1>5. CallInv(p)' /\ KeyWritten(p)' /\ AgeInv(p)' /\ ReturnInv(p)'
    BY <1>0, <1>1 DEF Locals, CallInv, KeyWritten, AgeInv, ReturnInv
  <1>6. CaInv(p)'
    <2>1. CASE o = CA
      BY <1>0, <1>1, <1>3, <2>1 DEF CaInv, Owners
    <2>2. CASE o # CA
      BY <1>0, <1>1, <1>2, <1>3, <2>2 DEF Locals, CaInv, Owners
    <2>3. QED
      BY <2>1, <2>2
  <1>7. IssueInv(p)'
    BY <1>0, <1>1 DEF Locals, IssueInv, Replaceable, InDate
  <1>8. RegenInv(p)'
    BY <1>0, <1>1, <1>2, CertsAssumption DEF Locals, RegenInv, Owners
  <1>9. PairInv(p)'
    <2>1. SUFFICES ASSUME ~cut, NEW i \in Instances, InDate(i), Readable(pem[CA]), pem[i].issued >= pem[CA].issued,
                          ~(Halfway(p)' /\ o = i)
                   PROVE  key'[i] = pem[i].subject
      BY <1>0, <1>3 DEF PairInv, Owners
    <2>2. CASE i # o
      BY <1>2, <2>1, <2>2 DEF Locals, PairInv, Owners
    <2>3. CASE i = o
      <3>1. Replaceable(i) /\ Readable(pem[i])
        BY <1>1, <1>3, <2>1, <2>3, CertsAssumption DEF InDate
      <3>2. pem[i].issued \in Nat /\ pem[CA].issued \in Nat
        BY <2>1, <3>1, Numbers DEF Owners
      <3>3. QED
        BY <2>1, <3>1, <3>2 DEF Replaceable
    <2>4. QED
      BY <2>2, <2>3
  <1>10. QED
    BY <1>4, <1>5, <1>6, <1>7, <1>8, <1>9 DEF Locals

LEMMA OpenCertLocals ==
  ASSUME TypeOK, TypeOK', Disk, NEW p \in Procs, Locals(p), OpenCert(p)
  PROVE  Locals(p)' /\ Disk'
  <1> USE DEF LeafPhase, WritePhase, Writes
  <1> DEFINE o == mem[p].owner
  <1>0. /\ UNCHANGED <<key, clock, call, result, mem, cut>>
        /\ pc[p] = "open_pem" /\ pc'[p] = "write_pem"
        /\ pem' = [pem EXCEPT ![o] = Torn]
    BY DEF OpenCert, Goto, TypeOK
  <1>1. /\ o \in Owners /\ mem[p].new \in Certificate /\ result[p] = "none"
        /\ key[o] = mem[p].new.subject /\ Present(key[o])
        /\ o # CA => /\ o \in Instances /\ o = call[p].inst /\ call[p].op = "ensure_cert"
    <2>1. o \in Owners /\ key[o] = mem[p].new.subject /\ mem[p].new \in Certificate
      BY <1>0, AtHand DEF Locals, KeyWritten
    <2>2. Present(key[o])
      BY <2>1, FilesAssumption DEF Certificate, Present
    <2>3. QED
      BY <1>0, <2>1, <2>2, AtHand
  <1>2. pem'[o] = Torn /\ ~Readable(pem'[o]) /\ \A q \in Owners : q # o => pem'[q] = pem[q]
    BY <1>0, <1>1 DEF TypeOK, Readable
  <1>3. Disk'
    <2>1. PemHasKey'
      BY <1>0, <1>1, <1>2 DEF Disk, PemHasKey
    <2>2. ASSUME NEW i \in Instances PROVE LeafInv(i)'
      BY <1>0, <1>1, <1>2 DEF Disk, LeafInv, InDate, Owners
    <2>3. QED
      BY <2>1, <2>2 DEF Disk
  <1>4. CallInv(p)' /\ ReturnInv(p)'
    BY <1>0, <1>1 DEF Locals, CallInv, ReturnInv
  <1>5. KeyWritten(p)'
    BY <1>0, <1>1, <1>2 DEF KeyWritten
  <1>6. AgeInv(p)'
    BY <1>0, <1>2 DEF Locals, AgeInv, Owners
  <1>7. CaInv(p)'
    BY <1>0, <1>1, <1>2, AtHand DEF Locals, CaInv, InDate, Overwrites, Halfway, Owners
  <1>8. IssueInv(p)'
    BY <1>0, <1>1, <1>2 DEF Locals, IssueInv, Replaceable, InDate, Owners
  <1>9. RegenInv(p)'
    BY <1>0, <1>1, <1>2, CertsAssumption DEF Locals, RegenInv, Owners
  <1>10. PairInv(p)'
    BY <1>0, <1>1, <1>2 DEF Locals, PairInv, Halfway, InDate, Owners
  <1>11. QED
    BY <1>3, <1>4, <1>5, <1>6, <1>7, <1>8, <1>9, <1>10 DEF Locals

LEMMA WriteCertLocals ==
  ASSUME Sole, TypeOK, TypeOK', Disk, NEW p \in Procs, Locals(p), WriteCert(p)
  PROVE  Locals(p)' /\ Disk'
  <1> USE DEF LeafPhase, WritePhase, Writes
  <1> DEFINE o == mem[p].owner
             new == mem[p].new
  <1>0. /\ UNCHANGED <<key, clock, cut>> /\ pc[p] = "write_pem" /\ ~Halfway(p)
        /\ pem' = [pem EXCEPT ![o] = new]
    BY DEF WriteCert, CaDone, Goto, Return, Halfway
  <1>1. /\ o \in Owners /\ new \in Certificate /\ result[p] = "none"
        /\ key[o] = new.subject /\ key[o] \in Keys
        /\ o # CA => /\ o \in Instances /\ o = call[p].inst /\ call[p].op = "ensure_cert"
                     /\ Readable(pem[CA])
    BY <1>0, AtHand DEF Locals, KeyWritten, Certificate
  <1>2. pem'[o] = new /\ Readable(new) /\ Present(key[o]) /\ \A q \in Owners : q # o => pem'[q] = pem[q]
    BY <1>0, <1>1, FilesAssumption DEF TypeOK, Readable, Present
  <1>3. PemHasKey'
    BY <1>0, <1>2 DEF Disk, PemHasKey
  <1>4. CASE o = CA
    <2>1. \A i \in Instances : pem'[i] = pem[i] /\ i \in Owners
      BY <1>2, <1>4, CertsAssumption DEF Owners
    <2>2. \A i \in Instances : Readable(pem[i]) => pem[i].issued < clock /\ pem[i].issued < new.issued
      BY <1>0, <1>4 DEF Locals, AgeInv
    <2>3. ASSUME NEW i \in Instances PROVE LeafInv(i)'
      <3>1. Readable(pem[i]) => ~(pem[i].issued >= new.issued)
        BY <2>1, <2>2, Numbers
      <3>2. QED
        BY <1>2, <1>4, <2>1, <3>1 DEF Disk, LeafInv
    <2>4. /\ Readable(pem[CA])' /\ (~cut /\ Readable(key[CA]) => key[CA] = pem[CA].subject)'
          /\ key'[CA] = pem'[CA].subject
      BY <1>0, <1>1, <1>2, <1>4
    <2>5. \A i \in Instances : Readable(pem[i])' => (pem[i].issued < clock)'
      BY <1>0, <2>1, <2>2
    <2>6. call[p].op = "regen" /\ call[p].force => \A i \in Instances : pem'[i] = NoFile /\ key'[i] = NoFile
      BY <1>0, <2>1 DEF Locals, RegenInv
    <2>7. CaDone(p) /\ CallInv(p) /\ pc[p] # "idle" /\ UNCHANGED <<clock, cut>>
      BY <1>0, <1>4 DEF WriteCert, Locals
    <2>8. \A i \in Instances : Readable(pem[i])' => ~(pem[i].issued >= pem[CA].issued)'
      BY <1>2, <1>4, <2>1, <2>2, Numbers
    <2>9. ~cut => \A i \in Instances :
            (Readable(pem[i]) /\ InDate(i) /\ pem[i].issued >= pem[CA].issued => key[i] = pem[i].subject)'
      BY <2>8
    <2>10. Locals(p)'
      BY <2>4, <2>5, <2>6, <2>7, <2>9, CaDoneLocals
    <2>11. QED
      BY <1>3, <2>3, <2>10 DEF Disk
  <1>5. CASE o # CA
    <2>1. pc'[p] = "idle" /\ UNCHANGED call
      BY <1>5 DEF WriteCert, Return, End, TypeOK
    <2>2. /\ ~cut => new.signer = pem[CA].subject
          /\ new.aki = pem[CA].subject /\ new.sans = call[p].sans
          /\ call[p].sans \in Asks[o] /\ pem'[CA] = pem[CA]
      BY <1>0, <1>1, <1>2, <1>5 DEF Locals, IssueInv, CallInv, Owners
    <2>3. ASSUME NEW i \in Instances PROVE LeafInv(i)'
      <3>1. CASE i # o
        BY <1>0, <1>2, <2>2, <3>1 DEF Disk, LeafInv, InDate, Owners
      <3>2. CASE i = o
        <4>1. \A s \in Asks[i] : s \subseteq new.sans
          BY <1>1, <1>5, <2>2, <3>2 DEF Sole
        <4>2. QED
          BY <1>0, <1>1, <1>2, <2>2, <3>2, <4>1 DEF LeafInv
      <3>3. QED
        BY <3>1, <3>2
    <2>4. ~cut => Verifies(call[p].inst, call[p].sans)'
      BY <1>0, <1>1, <1>2, <1>5, <2>1, <2>2 DEF Verifies
    <2>5. CaInv(p)'
      BY <1>0, <2>1, <2>2 DEF Locals, CaInv, InDate
    <2>6. PairInv(p)'
      BY <1>0, <1>1, <1>2, <2>2 DEF Locals, PairInv, InDate, Owners
    <2>7. QED
      BY <1>0, <1>1, <1>3, <1>5, <2>1, <2>3, <2>4, <2>5, <2>6
         DEF Disk, Locals, CallInv, KeyWritten, AgeInv, IssueInv, RegenInv, ReturnInv
  <1>6. QED
    BY <1>4, <1>5

LEMMA WipeLocals ==
  ASSUME TypeOK, TypeOK', Disk, NEW p \in Procs, Locals(p),
         \/ WipeCert(p) /\ ~Raise(p)
         \/ WipeKey(p) /\ ~Raise(p)
         \/ ListKeys(p) \/ WipeDone(p)
  PROVE  Locals(p)' /\ Disk'
  <1> USE DEF LeafPhase, WritePhase, Writes
  <1>0. /\ pc[p] \in {"wipe_pem", "wipe_key"} /\ call[p].op = "regen" /\ result[p] = "none"
        /\ UNCHANGED <<clock, call, result>> /\ call[p].force /\ ~Halfway(p) /\ ~Halfway(p)'
    BY DEF WipeCert, WipeKey, ListKeys, WipeDone, Goto, Locals, CallInv, Halfway, Overwrites
  <1>1. CASE WipeCert(p) /\ ~Raise(p)
    <2>1. PICK o \in mem[p].todo :
            /\ pem' = [pem EXCEPT ![o] = NoFile] /\ mem' = [mem EXCEPT ![p].todo = @ \ {o}]
            /\ pc[p] = "wipe_pem" /\ UNCHANGED <<key, clock, pc, call, result, cut>>
      BY <1>1 DEF WipeCert
    <2>2. /\ o \in Owners /\ mem'[p].todo = mem[p].todo \ {o}
      BY <2>1 DEF TypeOK, Mem
    <2>3. pem'[o] = NoFile /\ ~Readable(pem'[o]) /\ \A q \in Owners : q # o => pem'[q] = pem[q]
      BY <2>1, <2>2 DEF TypeOK, Readable
    <2>4. Disk'
      BY <2>1, <2>3 DEF Disk, PemHasKey, LeafInv, InDate, Owners, Present
    <2>5. CaInv(p)' /\ AgeInv(p)' /\ PairInv(p)'
      BY <1>0, <2>1, <2>3 DEF Locals, CaInv, AgeInv, PairInv, InDate, Owners
    <2>6. RegenInv(p)'
      BY <1>0, <2>1, <2>2, <2>3 DEF Locals, RegenInv, Present
    <2>7. CallInv(p)' /\ KeyWritten(p)' /\ IssueInv(p)' /\ ReturnInv(p)'
      BY <1>0, <2>1 DEF Locals, CallInv, KeyWritten, IssueInv, ReturnInv
    <2>8. QED
      BY <2>4, <2>5, <2>6, <2>7 DEF Locals
  <1>2. CASE WipeKey(p) /\ ~Raise(p)
    <2>1. PICK o \in mem[p].todo :
            /\ key' = [key EXCEPT ![o] = NoFile] /\ mem' = [mem EXCEPT ![p].todo = @ \ {o}]
            /\ pc[p] = "wipe_key" /\ UNCHANGED <<pem, clock, pc, call, result, cut>>
      BY <1>2 DEF WipeKey
    <2>2. /\ o \in Owners /\ mem'[p].todo = mem[p].todo \ {o}
      BY <2>1 DEF TypeOK, Mem
    <2>3. key'[o] = NoFile /\ \A q \in Owners : q # o => key'[q] = key[q]
      BY <2>1, <2>2 DEF TypeOK
    <2>4. \A q \in Owners : pem'[q] = NoFile /\ ~Readable(pem'[q]) /\ ~Present(pem'[q])
      BY <1>0, <2>1 DEF Locals, RegenInv, Readable, Present
    <2>5. Disk'
      BY <2>4 DEF Disk, PemHasKey, LeafInv, Owners
    <2>6. CaInv(p)' /\ AgeInv(p)' /\ PairInv(p)'
      BY <1>0, <2>1, <2>4 DEF CaInv, AgeInv, PairInv, InDate, Owners
    <2>7. RegenInv(p)'
      BY <1>0, <2>1, <2>2, <2>3, <2>4 DEF Locals, RegenInv, Present
    <2>8. CallInv(p)' /\ KeyWritten(p)' /\ IssueInv(p)' /\ ReturnInv(p)'
      BY <1>0, <2>1 DEF Locals, CallInv, KeyWritten, IssueInv, ReturnInv
    <2>9. QED
      BY <2>5, <2>6, <2>7, <2>8 DEF Locals
  <1>3. CASE ListKeys(p)
    <2>1. /\ pc[p] = "wipe_pem" /\ mem[p].todo = {} /\ pc'[p] = "wipe_key" /\ UNCHANGED <<files, clock, cut>>
          /\ mem'[p].todo = {o \in Owners : Present(key[o])}
      BY <1>3 DEF ListKeys, Goto, TypeOK, Mem
    <2>2. \A o \in Owners : pem[o] = NoFile
      BY <1>0, <2>1 DEF Locals, RegenInv, Present
    <2>3. CaInv(p)' /\ PairInv(p)'
      BY <1>0, <2>1, <2>2, SameFiles, SamePairs DEF Locals, CaInv, files, Owners
    <2>4. QED
      BY <1>0, <2>1, <2>2, <2>3, SameFiles
         DEF Locals, CallInv, KeyWritten, AgeInv, IssueInv, RegenInv, ReturnInv, files
  <1>4. CASE WipeDone(p)
    <2>1. /\ pc[p] = "wipe_key" /\ mem[p].todo = {} /\ pc'[p] = "ca_check" /\ UNCHANGED <<pem, key, clock>>
      BY <1>4 DEF WipeDone, TypeOK, files
    <2>2. \A o \in Owners : pem[o] = NoFile /\ key[o] = NoFile /\ ~Readable(pem[o])
      BY <1>0, <2>1 DEF Locals, RegenInv, Present, Readable
    <2>3. Disk' /\ CaInv(p)' /\ PairInv(p)'
      BY <2>1, <2>2 DEF Disk, PemHasKey, LeafInv, CaInv, PairInv, InDate, Present, Owners
    <2>4. QED
      BY <1>0, <2>1, <2>2, <2>3
         DEF Locals, CallInv, KeyWritten, AgeInv, IssueInv, RegenInv, ReturnInv, Owners
  <1>5. QED
    BY <1>1, <1>2, <1>3, <1>4

LEMMA StepKeepsInv ==
  ASSUME Sole, TypeOK, TypeOK', Disk, NEW p \in Procs, Locals(p), Step(p)
  PROVE  Locals(p)' /\ Disk'
  <1>1. CASE CallEnsureCa(p) \/ CallEnsureCert(p) \/ CallRegenWipe(p) \/ CallRegenKeep(p)
    <2>1. UNCHANGED <<files, clock, cut>>
      BY <1>1 DEF CallEnsureCa, CallEnsureCert, CallRegenWipe, CallRegenKeep, Enter
    <2>2. QED
      BY <1>1, <2>1, EnterLocals, SameFiles
  <1>2. CASE Raise(p) /\ ~Halfway(p)
    <2>1. End(p, "error") /\ UNCHANGED <<files, clock, cut>>
      BY <1>2 DEF Raise, Return
    <2>2. QED
      BY <1>2, <2>1, EndLocals, SameFiles
  <1>3. CASE Crash(p)
    <2>1. End(p, "crashed") /\ UNCHANGED files /\ clock' \in {clock, clock + 1} /\ cut' = (cut \/ Halfway(p))
      BY <1>3 DEF Crash
    <2>2. QED
      BY <2>1, EndLocals, TimePasses DEF TypeOK
  <1>4. CASE EnsureCaReuse(p) \/ EnsureCaIssue(p)
    BY <1>4, EnsureCaLocals
  <1>5. CASE EnsureCertReuse(p) \/ EnsureCertReissue(p)
    BY <1>5, LeafLocals
  <1>6. CASE (LoadCaCert(p) \/ LoadCaKeyAndSign(p)) /\ ~Raise(p)
    <2>1. \/ LoadCaCert(p) /\ Readable(pem[CA])
          \/ LoadCaKeyAndSign(p) /\ Readable(key[CA])
      BY <1>6 DEF LoadCaCert, LoadCaKeyAndSign
    <2>2. QED
      BY <2>1, LoadLocals
  <1>7. CASE OpenKey(p) \/ WriteKey(p)
    BY <1>7, WriteKeyLocals
  <1>8. CASE OpenCert(p) \/ WriteCert(p)
    BY <1>8, OpenCertLocals, WriteCertLocals
  <1>9. CASE (WipeCert(p) \/ ListKeys(p) \/ WipeKey(p) \/ WipeDone(p)) /\ ~Raise(p)
    BY <1>9, WipeLocals
  <1>10. CASE EnsureCaUnreadable(p) \/ EnsureCertUnreadable(p)
    BY <1>2, <1>10 DEF EnsureCaUnreadable, EnsureCertUnreadable, Halfway
  <1>a. ASSUME \/ LoadCaCert(p) \/ LoadCaKeyAndSign(p)
               \/ WipeCert(p) \/ ListKeys(p) \/ WipeKey(p) \/ WipeDone(p)
        PROVE  ~Halfway(p)
    BY <1>a DEF LoadCaCert, LoadCaKeyAndSign, WipeCert, ListKeys, WipeKey, WipeDone, Halfway
  <1>11. QED
    BY <1>1, <1>2, <1>3, <1>4, <1>5, <1>6, <1>7, <1>8, <1>9, <1>10, <1>a DEF Step

LEMMA InvInductive ==
  ASSUME Sole
  PROVE  CertsInv /\ [Next]_vars => CertsInv'
  <1> SUFFICES ASSUME CertsInv, [Next]_vars PROVE CertsInv'
    OBVIOUS
  <1>1. TypeOK /\ Disk /\ \A p \in Procs : Locals(p)
    BY DEF CertsInv, Disk, Locals
  <1>2. TypeOK'
    BY <1>1, NextTypes
  <1>3. CASE Tick \/ UNCHANGED vars
    <2>1. UNCHANGED <<files, pc, call, mem, result, cut>> /\ clock' \in {clock, clock + 1}
      BY <1>3 DEF Tick, vars, files
    <2>2. Disk' /\ \A p \in Procs : Locals(p)'
      BY <1>1, <1>2, <2>1, TimePasses, TickLocals
    <2>3. QED
      BY <1>2, <2>2 DEF CertsInv, Disk, Locals
  <1>4. ASSUME NEW p \in Procs, Step(p) PROVE CertsInv'
    <2>1. Disk' /\ Locals(p)'
      BY <1>1, <1>2, <1>4, StepKeepsInv
    <2>2. \A q \in Procs : q = p
      BY DEF Sole
    <2>3. \A q \in Procs : Locals(q)'
      BY <2>1, <2>2
    <2>4. QED
      BY <1>2, <2>1, <2>3 DEF CertsInv, Disk, Locals
  <1>5. QED
    BY <1>3, <1>4 DEF Next

LEMMA InitInv == Init => CertsInv
  <1> SUFFICES ASSUME Init PROVE CertsInv
    OBVIOUS
  <1>1. /\ \A p \in Procs : pc[p] = "idle" /\ result[p] = "none" /\ call[p] = NoCall
        /\ \A i \in Instances : pem[i] = NoFile
        /\ key[CA] = 1 => pem[CA].subject = 1
        /\ pem[CA] # NoFile => key[CA] # NoFile
        /\ Readable(key[CA]) => key[CA] = 1
    <2>1. /\ \A p \in Procs : pc[p] = "idle" /\ result[p] = "none" /\ call[p] = NoCall
          /\ \A i \in Instances : pem[i] = NoFile
      BY CertsAssumption DEF Init, Owners
    <2>2. CASE Prepared
      <3>1. /\ pem[CA] = [NoCert EXCEPT !.subject = 1, !.signer = 1, !.aki = 1] /\ key[CA] = 1
        BY <2>2 DEF Init, Owners
      <3>2. 1 \in Keys
        BY CertsAssumption DEF Keys
      <3>3. QED
        BY <2>1, <3>1, <3>2, FilesAssumption DEF NoCert
    <2>3. CASE ~Prepared
      <3>1. pem[CA] = NoFile /\ key[CA] = NoFile
        BY <2>3 DEF Init, Owners
      <3>2. 1 \in Keys
        BY CertsAssumption DEF Keys
      <3>3. QED
        BY <2>1, <3>1, <3>2, FilesAssumption DEF Readable
    <2>4. QED
      BY <2>2, <2>3
  <1>2. TypeOK /\ PemHasKey /\ \A i \in Instances : LeafInv(i)
    BY <1>1, InitTypes DEF PemHasKey, LeafInv, Owners, Present, Readable
  <1>3. ASSUME NEW p \in Procs PROVE Locals(p)
    BY <1>1 DEF Locals, CallInv, KeyWritten, CaInv, AgeInv, PairInv, IssueInv, RegenInv, ReturnInv, NoCall,
       LeafPhase, WritePhase, Writes, Readable, InDate
  <1>4. QED
    BY <1>2, <1>3 DEF CertsInv, Locals

LEMMA InvImplies ==
  ASSUME Sole, CertsInv
  PROVE  ReusableLeafVerifies /\ IssuedLeafVerifies /\ CaPairAtRest /\ RegenLeavesOnlyFreshCa
  <1>1. CaPairAtRest
    BY DEF Sole, CertsInv, CaInv, CaPairAtRest, Halfway
  <1>2. IssuedLeafVerifies /\ RegenLeavesOnlyFreshCa
    BY DEF CertsInv, ReturnInv, IssuedLeafVerifies, RegenLeavesOnlyFreshCa
  <1>3. ReusableLeafVerifies
    BY DEF Sole, CertsInv, LeafInv, PairInv, ReusableLeafVerifies, LeafReusable, Fresh, InDate, Verifies, Halfway
  <1>4. QED
    BY <1>1, <1>2, <1>3

(* With one kernel and any values of force: unless a crash cut a forced    *)
(* reissue and nothing was wiped since, a leaf that the reuse test accepts *)
(* verifies, for any number of instances and any lifetimes.                *)
THEOREM ReuseIsSafe ==
  ASSUME Sole
  PROVE  Spec => []ReusableLeafVerifies
  BY InitInv, InvInductive, InvImplies, PTL DEF Spec

(* With one kernel and any values of force, with the same exception: the   *)
(* leaf of an ensure_cert that returns verifies for every name asked for.  *)
THEOREM IssuedIsGood ==
  ASSUME Sole
  PROVE  Spec => []IssuedLeafVerifies
  BY InitInv, InvInductive, InvImplies, PTL DEF Spec

(* With one kernel and any values of force, with the same exception: CA    *)
(* certificate and CA key are a pair outside calls.                        *)
THEOREM CaPairBelongs ==
  ASSUME Sole
  PROVE  Spec => []CaPairAtRest
  BY InitInv, InvInductive, InvImplies, PTL DEF Spec

(* With one kernel, whatever was cut before, a regen() that returns has    *)
(* left a CA pair, and with force=True nothing of the old CA.              *)
THEOREM RegenIsThorough ==
  ASSUME Sole
  PROVE  Spec => []RegenLeavesOnlyFreshCa
  BY InitInv, InvInductive, InvImplies, PTL DEF Spec

=============================================================================
