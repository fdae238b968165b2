-------------------------------- MODULE Certs --------------------------------
(***************************************************************************)
(* The lab CA and the leaf certificates of dnslab (dnslab/certs.py).       *)
(*                                                                         *)
(* Every kernel that imports dnslab works on the same directory,           *)
(* <workspace>/certs/dnslab, without a lock.  The directory holds a .pem   *)
(* and a .key file for the CA and for every instance.  A process runs one  *)
(* of the three entry points                                               *)
(*      ensure_ca()            through ca_file(), on every DoT probe       *)
(*      ensure_cert(instance)  at the beginning of every docker start      *)
(*      regen()                by hand, from a notebook                    *)
(* each with its argument force, which makes the first two overwrite a     *)
(* pair that is still good and, when it is False, regen keep the old files *)
(* until the new CA overwrites them; a process runs it                     *)
(* as a sequence of file operations that other processes interleave with   *)
(* and that a crash (kernel restart, interrupted cell) cuts anywhere.      *)
(*                                                                         *)
(* What is abstracted: a key pair is a number, a certificate a record of   *)
(* the key pairs it names and of its issue time.  Reads that Python does   *)
(* back to back (exists, exists, load) are one step.  A write is two       *)
(* steps, because open() truncates the file before write() fills it.       *)
(***************************************************************************)
EXTENDS Integers

CONSTANTS
    Procs,        \* kernels and terminals that import dnslab
    Instances,    \* instance names
    CA,           \* the owner "dnslab-ca" of the CA files
    NoFile,       \* the file does not exist
    Torn,         \* the file is open for writing: truncated, not yet filled
    ExtraSans,    \* names a caller of ensure_cert may ask for besides <instance>.dnslab.test
    Asks,         \* Asks[i]: the sets of extra names that callers ask for; the providers ask for none
    Starts,       \* Starts[p]: the instances p calls ensure_cert for
    Regens,       \* the processes that call regen()
    Forces,       \* Forces[op]: the values of the argument force that callers of op pass
    SameSecond,   \* TRUE: a call may begin within the second in which a certificate was issued
    Prepared,     \* TRUE: the CA exists at the beginning; FALSE: fresh workspace
    CaLife,       \* CA_DAYS less the one-day renewal margin, in ticks
    LeafLife,     \* LEAF_DAYS less the renewal margin, in ticks
    MaxTime,      \* bound on the clock
    MaxKeys       \* bound on the key pairs generated

ASSUME CertsAssumption ==
    /\ CA \notin Instances
    /\ Torn # NoFile
    /\ Starts \in [Procs -> SUBSET Instances]
    /\ Asks \in [Instances -> SUBSET SUBSET ExtraSans]
    /\ Regens \subseteq Procs
    /\ Forces \in [{"ensure_ca", "ensure_cert", "regen"} -> SUBSET BOOLEAN]
    /\ SameSecond \in BOOLEAN /\ Prepared \in BOOLEAN
    /\ CaLife \in Nat \ {0} /\ LeafLife \in Nat \ {0}
    /\ MaxTime \in Nat /\ MaxKeys \in Nat \ {0}

VARIABLES
    pem,      \* pem[o]: content of <o>.pem
    key,      \* key[o]: content of <o>.key
    clock,    \* the time, at the one-second resolution of X.509 validity
    keys,     \* number of key pairs generated so far
    pc,       \* pc[p]: what p does next
    call,     \* call[p]: the call p is in, or was in last
    mem,      \* mem[p]: the locals of that call
    result,   \* result[p]: how the last call of p ended
    cut       \* history: a crash cut an overwriting in place, and no wipe since; no guard reads it

files == <<pem, key>>
vars  == <<pem, key, clock, keys, pc, call, mem, result, cut>>

-----------------------------------------------------------------------------
(* Certificates and the contents of the directory.                         *)

Owners == Instances \cup {CA}
Time   == 0..MaxTime
Keys   == 0..MaxKeys           \* 0: no key

Certificate == [subject : Keys,              \* the key pair it certifies
                signer  : Keys,              \* the key that signed it
                aki     : Keys,              \* authority key identifier
                issued  : Time,              \* not_valid_before, shifted by 5 minutes
                sans    : SUBSET ExtraSans]  \* besides the instance's own name

NoCert == [subject |-> 0, signer |-> 0, aki |-> 0, issued |-> 0, sans |-> {}]

ASSUME FilesAssumption == {NoFile, Torn} \cap (Keys \cup Certificate) = {}

Present(file) == file # NoFile
Readable(file) == file \notin {NoFile, Torn}

Lifetime(o) == IF o = CA THEN CaLife ELSE LeafLife

(* The three outcomes of _expired_or_missing: FALSE, TRUE, and the          *)
(* exception of the parser when both files exist and the .pem is torn.      *)
Missing(o) == ~Present(pem[o]) \/ ~Present(key[o])
InDate(o)  == Readable(pem[o]) /\ pem[o].issued + Lifetime(o) > clock

Fresh(o)   == ~Missing(o) /\ InDate(o)
Garbled(o) == ~Missing(o) /\ pem[o] = Torn
Stale(o)   == ~Fresh(o) /\ ~Garbled(o)

-----------------------------------------------------------------------------
(* Calls.                                                                  *)

Ops == {"ensure_ca", "ensure_cert", "regen"}

Call == [op : Ops, inst : Owners, sans : SUBSET ExtraSans, force : BOOLEAN]
Mem  == [owner : Owners,              \* whose files are being written
         new   : Certificate,         \* the certificate being issued
         todo  : SUBSET Owners]       \* files regen still has to unlink

NoCall == [op |-> "ensure_ca", inst |-> CA, sans |-> {}, force |-> FALSE]
NoMem  == [owner |-> CA, new |-> NoCert, todo |-> {}]

Init ==
    /\ pem = [o \in Owners |->
                IF o = CA /\ Prepared
                THEN [NoCert EXCEPT !.subject = 1, !.signer = 1, !.aki = 1]
                ELSE NoFile]
    /\ key = [o \in Owners |-> IF o = CA /\ Prepared THEN 1 ELSE NoFile]
    /\ clock = 0
    /\ keys = IF Prepared THEN 1 ELSE 0
    /\ pc = [p \in Procs |-> "idle"]
    /\ call = [p \in Procs |-> NoCall]
    /\ mem = [p \in Procs |-> NoMem]
    /\ result = [p \in Procs |-> "none"]
    /\ cut = FALSE

Goto(p, label) ==
    /\ pc' = [pc EXCEPT ![p] = label]
    /\ UNCHANGED <<call, result, cut>>

End(p, outcome) ==
    /\ pc' = [pc EXCEPT ![p] = "idle"]
    /\ mem' = [mem EXCEPT ![p] = NoMem]
    /\ result' = [result EXCEPT ![p] = outcome]
    /\ UNCHANGED call

Return(p, outcome) == End(p, outcome) /\ UNCHANGED cut

(* An exception of the file system or of the parser leaves the call.       *)
Raise(p) == Return(p, "error") /\ UNCHANGED <<files, clock, keys>>

Enter(p, c, label, locals) ==
    /\ pc[p] = "idle"
    /\ SameSecond \/ \A o \in Owners : Readable(pem[o]) => pem[o].issued < clock
    /\ call' = [call EXCEPT ![p] = c]
    /\ pc' = [pc EXCEPT ![p] = label]
    /\ mem' = [mem EXCEPT ![p] = locals]
    /\ result' = [result EXCEPT ![p] = "none"]
    /\ UNCHANGED <<files, clock, keys, cut>>

CallEnsureCa(p) ==
    \E f \in Forces["ensure_ca"] : Enter(p, [NoCall EXCEPT !.force = f], "ca_check", NoMem)

CallEnsureCert(p) ==
    \E i \in Starts[p] : \E s \in Asks[i] : \E f \in Forces["ensure_cert"] :
        Enter(p, [op |-> "ensure_cert", inst |-> i, sans |-> s, force |-> f], "ca_check", NoMem)

(* regen(force=True), the default, unlinks what d.glob("*.pem") listed,    *)
(* then what a second glob lists for "*.key".                              *)
CallRegenWipe(p) ==
    /\ p \in Regens /\ TRUE \in Forces["regen"]
    /\ Enter(p, [op |-> "regen", inst |-> CA, sans |-> {}, force |-> TRUE], "wipe_pem",
             [NoMem EXCEPT !.todo = {o \in Owners : Present(pem[o])}])

(* regen(force=False) goes straight to ensure_ca(force=True).              *)
CallRegenKeep(p) ==
    /\ p \in Regens /\ FALSE \in Forces["regen"]
    /\ Enter(p, [op |-> "regen", inst |-> CA, sans |-> {}, force |-> FALSE], "ca_check", NoMem)

-----------------------------------------------------------------------------
(* ensure_ca.  regen passes force=True, ensure_cert and ca_file nothing.    *)

ForcesCa(p) == call[p].op = "regen" \/ (call[p].op = "ensure_ca" /\ call[p].force)

(* The end of ensure_ca: ensure_cert goes on, the other calls return.      *)
CaDone(p) ==
    IF call[p].op = "ensure_cert"
    THEN Goto(p, "leaf_check") /\ mem' = [mem EXCEPT ![p] = NoMem]
    ELSE Return(p, "ok")

EnsureCaReuse(p) ==
    /\ pc[p] = "ca_check" /\ ~ForcesCa(p)
    /\ Fresh(CA)
    /\ CaDone(p)
    /\ UNCHANGED <<files, clock, keys>>

EnsureCaUnreadable(p) ==
    /\ pc[p] = "ca_check" /\ ~ForcesCa(p)
    /\ Garbled(CA)
    /\ Raise(p)

(* Mutant: the CA is backdated by more than the leaves are.                *)
EnsureCaIssueBackdated(p) ==
    /\ pc[p] = "ca_check"
    /\ ForcesCa(p) \/ Stale(CA)
    /\ keys < MaxKeys
    /\ keys' = keys + 1
    /\ mem' = [mem EXCEPT ![p] =
                 [owner |-> CA,
                  new   |-> [subject |-> keys + 1, signer |-> keys + 1, aki |-> keys + 1,
                             issued |-> IF clock = 0 THEN 0 ELSE clock - 1, sans |-> {}],
                  todo  |-> {}]]
    /\ Goto(p, "open_key")
    /\ UNCHANGED <<files, clock>>

EnsureCaIssue(p) ==
    /\ pc[p] = "ca_check"
    /\ ForcesCa(p) \/ Stale(CA)
    /\ keys < MaxKeys
    /\ keys' = keys + 1
    /\ mem' = [mem EXCEPT ![p] =
                 [owner |-> CA,
                  new   |-> [subject |-> keys + 1, signer |-> keys + 1, aki |-> keys + 1,
                             issued |-> clock, sans |-> {}],
                  todo  |-> {}]]
    /\ Goto(p, "open_key")
    /\ UNCHANGED <<files, clock>>

-----------------------------------------------------------------------------
(* ensure_cert, after its call of ensure_ca.                               *)

(* The reuse test, which force=True skips, reads the leaf, then the CA     *)
(* certificate.                                                            *)
EnsureCertUnreadable(p) ==
    /\ pc[p] = "leaf_check" /\ ~call[p].force
    /\ LET i == call[p].inst IN
       Garbled(i) \/ (Fresh(i) /\ ~Readable(pem[CA]))
    /\ Raise(p)

(* Mutant: the reuse test without the comparison with the CA.              *)
LeafReusableAnyAge(i, sans) == Fresh(i) /\ Readable(pem[CA]) /\ sans \subseteq pem[i].sans

LeafReusable(i, sans) ==
    /\ Fresh(i)
    /\ Readable(pem[CA])
    /\ pem[i].issued >= pem[CA].issued
    /\ sans \subseteq pem[i].sans

EnsureCertReuse(p) ==
    /\ pc[p] = "leaf_check" /\ ~call[p].force
    /\ LeafReusable(call[p].inst, call[p].sans)
    /\ Return(p, "ok")
    /\ UNCHANGED <<files, clock, keys>>

EnsureCertReissue(p) ==
    /\ pc[p] = "leaf_check"
    /\ LET i == call[p].inst IN
       \/ call[p].force
       \/ Stale(i)
       \/ Fresh(i) /\ Readable(pem[CA]) /\ ~LeafReusable(i, call[p].sans)
    /\ Goto(p, "leaf_load_pem")
    /\ UNCHANGED <<files, clock, keys, mem>>

(* The issuer's certificate and the issuer's key are read one after the    *)
(* other; the certificate only contributes the key identifier.             *)
LoadCaCert(p) ==
    /\ pc[p] = "leaf_load_pem"
    /\ IF Readable(pem[CA])
       THEN /\ mem' = [mem EXCEPT ![p].new.aki = pem[CA].subject]
            /\ Goto(p, "leaf_load_key")
            /\ UNCHANGED <<files, clock, keys>>
       ELSE Raise(p)

LoadCaKeyAndSign(p) ==
    /\ pc[p] = "leaf_load_key"
    /\ IF Readable(key[CA])
       THEN /\ keys < MaxKeys
            /\ keys' = keys + 1
            /\ mem' = [mem EXCEPT ![p] =
                         [owner |-> call[p].inst,
                          new   |-> [subject |-> keys + 1, signer |-> key[CA],
                                     aki |-> mem[p].new.aki, issued |-> clock,
                                     sans |-> call[p].sans],
                          todo  |-> {}]]
            /\ Goto(p, "open_key")
            /\ UNCHANGED <<files, clock>>
       ELSE Raise(p)

-----------------------------------------------------------------------------
(* _write_key and _write_cert, in this order for the CA and for a leaf.    *)

(* Mutant: a key file that is there is kept.                               *)
OpenKeyKeeps(p) ==
    /\ pc[p] = "open_key"
    /\ IF Readable(key[mem[p].owner])
       THEN Goto(p, "open_pem") /\ UNCHANGED key
       ELSE Goto(p, "write_key") /\ key' = [key EXCEPT ![mem[p].owner] = Torn]
    /\ UNCHANGED <<pem, clock, keys, mem>>

OpenKey(p) ==
    /\ pc[p] = "open_key"
    /\ key' = [key EXCEPT ![mem[p].owner] = Torn]
    /\ Goto(p, "write_key")
    /\ UNCHANGED <<pem, clock, keys, mem>>

WriteKey(p) ==
    /\ pc[p] = "write_key"
    /\ key' = [key EXCEPT ![mem[p].owner] = mem[p].new.subject]
    /\ Goto(p, "open_pem")
    /\ UNCHANGED <<pem, clock, keys, mem>>

OpenCert(p) ==
    /\ pc[p] = "open_pem"
    /\ pem' = [pem EXCEPT ![mem[p].owner] = Torn]
    /\ Goto(p, "write_pem")
    /\ UNCHANGED <<key, clock, keys, mem>>

(* Mutant: the certificate is backdated a second time.                     *)
WriteCertBackdated(p) ==
    /\ pc[p] = "write_pem"
    /\ pem' = [pem EXCEPT ![mem[p].owner] = [mem[p].new EXCEPT !.issued = @ - 1]]
    /\ IF mem[p].owner = CA THEN CaDone(p) ELSE Return(p, "ok")
    /\ UNCHANGED <<key, clock, keys>>

WriteCert(p) ==
    /\ pc[p] = "write_pem"
    /\ pem' = [pem EXCEPT ![mem[p].owner] = mem[p].new]
    /\ IF mem[p].owner = CA THEN CaDone(p) ELSE Return(p, "ok")
    /\ UNCHANGED <<key, clock, keys>>

-----------------------------------------------------------------------------
(* regen(force=True): unlink every .pem, then every .key, then             *)
(* ensure_ca(force=True).  A file that another regen unlinked first raises *)
(* FileNotFoundError.                                                      *)

WipeCert(p) ==
    /\ pc[p] = "wipe_pem"
    /\ \E o \in mem[p].todo :
        IF Present(pem[o])
        THEN /\ pem' = [pem EXCEPT ![o] = NoFile]
             /\ mem' = [mem EXCEPT ![p].todo = @ \ {o}]
             /\ UNCHANGED <<key, clock, keys, pc, call, result, cut>>
        ELSE Raise(p)

(* Mutant: the second glob is forgotten.                                   *)
ListKeysNone(p) ==
    /\ pc[p] = "wipe_pem" /\ mem[p].todo = {}
    /\ Goto(p, "wipe_key")
    /\ UNCHANGED <<files, clock, keys, mem>>

ListKeys(p) ==
    /\ pc[p] = "wipe_pem" /\ mem[p].todo = {}
    /\ mem' = [mem EXCEPT ![p].todo = {o \in Owners : Present(key[o])}]
    /\ Goto(p, "wipe_key")
    /\ UNCHANGED <<files, clock, keys>>

WipeKey(p) ==
    /\ pc[p] = "wipe_key"
    /\ \E o \in mem[p].todo :
        IF Present(key[o])
        THEN /\ key' = [key EXCEPT ![o] = NoFile]
             /\ mem' = [mem EXCEPT ![p].todo = @ \ {o}]
             /\ UNCHANGED <<pem, clock, keys, pc, call, result, cut>>
        ELSE Raise(p)

WipeDone(p) ==
    /\ pc[p] = "wipe_key" /\ mem[p].todo = {}
    /\ pc' = [pc EXCEPT ![p] = "ca_check"]
    /\ cut' = FALSE
    /\ UNCHANGED <<files, clock, keys, call, mem, result>>

-----------------------------------------------------------------------------
(* The environment.                                                        *)

Tick ==
    /\ clock < MaxTime
    /\ clock' = clock + 1
    /\ UNCHANGED <<files, keys, pc, call, mem, result, cut>>

(* p writes a pair over one that may be good, because it was told to, and  *)
(* the new key is there or being written and the certificate is the old    *)
(* one.                                                                    *)
Overwrites(p) ==
    \/ call[p].op = "ensure_ca" /\ call[p].force
    \/ call[p].op = "regen" /\ ~call[p].force
    \/ call[p].op = "ensure_cert" /\ call[p].force /\ mem[p].owner # CA

Halfway(p) == Overwrites(p) /\ pc[p] \in {"write_key", "open_pem"}

(* The kernel dies or the cell is interrupted: the locals are lost, the    *)
(* files stay as they are.  Getting back to a prompt takes longer than the *)
(* one-second resolution of the clock.                                     *)
Crash(p) ==
    /\ pc[p] # "idle"
    /\ clock < MaxTime
    /\ clock' = clock + 1
    /\ End(p, "crashed")
    /\ cut' = (cut \/ Halfway(p))
    /\ UNCHANGED <<files, keys>>

Step(p) ==
    \/ CallEnsureCa(p) \/ CallEnsureCert(p) \/ CallRegenWipe(p) \/ CallRegenKeep(p)
    \/ EnsureCaReuse(p) \/ EnsureCaUnreadable(p) \/ EnsureCaIssue(p)
    \/ EnsureCertUnreadable(p) \/ EnsureCertReuse(p) \/ EnsureCertReissue(p)
    \/ LoadCaCert(p) \/ LoadCaKeyAndSign(p)
    \/ OpenKey(p) \/ WriteKey(p) \/ OpenCert(p) \/ WriteCert(p)
    \/ WipeCert(p) \/ ListKeys(p) \/ WipeKey(p) \/ WipeDone(p)
    \/ Crash(p)

Next == Tick \/ \E p \in Procs : Step(p)

Spec == Init /\ [][Next]_vars

-----------------------------------------------------------------------------
(* Properties.                                                             *)

Labels == {"idle", "ca_check", "leaf_check", "leaf_load_pem", "leaf_load_key",
           "open_key", "write_key", "open_pem", "write_pem", "wipe_pem", "wipe_key"}

(* Types of the files, of the calls and of their locals.                   *)
TypeOK ==
    /\ pem \in [Owners -> Certificate \cup {NoFile, Torn}]
    /\ key \in [Owners -> Keys \cup {NoFile, Torn}]
    /\ clock \in Time /\ keys \in Keys
    /\ pc \in [Procs -> Labels]
    /\ call \in [Procs -> Call] /\ mem \in [Procs -> Mem]
    /\ result \in [Procs -> {"none", "ok", "error", "crashed"}]
    /\ cut \in BOOLEAN

(* A TLS client that trusts dnslab-ca.pem accepts the leaf of i: the       *)
(* server can load its pair, and the signature and the authority key       *)
(* identifier lead to the CA certificate on disk.                          *)
Verifies(i, sans) ==
    /\ Readable(pem[i]) /\ Readable(pem[CA])
    /\ key[i] = pem[i].subject
    /\ pem[i].signer = pem[CA].subject
    /\ pem[i].aki = pem[CA].subject
    /\ sans \subseteq pem[i].sans

(* When ensure_cert returns, the leaf on disk is one that a client of the  *)
(* lab accepts, for every name asked for, if it is always asked for the    *)
(* same names.  Only a crash in the middle of a forced reissue spoils it   *)
(* (certs.py:96-97, 161-162), for the calls to come, until regen() wipes.  *)
IssuedLeafVerifies ==
    ~cut =>
        \A p \in Procs :
            result[p] = "ok" /\ call[p].op = "ensure_cert"
                => Verifies(call[p].inst, call[p].sans)

(* The reuse test of ensure_cert compares issue times and names and never  *)
(* looks at signatures.  Whenever nobody is in a call, a leaf that passes  *)
(* it must verify all the same: one that an old CA signed, or a pair that  *)
(* a crash cut in two, would be reused by every start from then on.  A     *)
(* crash in the middle of a forced reissue is the one thing that leads     *)
(* there.                                                                  *)
ReusableLeafVerifies ==
    ~cut /\ (\A p \in Procs : pc[p] = "idle") /\ Fresh(CA) =>
        \A i \in Instances : \A s \in Asks[i] :
            LeafReusable(i, s) => Verifies(i, s)

(* The CA certificate and the CA key are two files; outside a call they    *)
(* are a pair whenever both can be read, or every leaf issued from then on *)
(* is refused.  Forced or not, a reissue that completes keeps it so, and   *)
(* so does a crash anywhere but in a reissue over a CA that was kept:      *)
(* regen(force=False), ensure_ca(force=True).                              *)
CaPairAtRest ==
    /\ ~cut
    /\ \A p \in Procs : pc[p] = "idle"
    /\ Readable(key[CA]) /\ InDate(CA)
    => key[CA] = pem[CA].subject

(* When regen returns, the CA files are a pair, whatever crashed before;   *)
(* unless it was told to keep them, nothing of the old CA is left: no      *)
(* leaf, no torn file.                                                     *)
RegenLeavesOnlyFreshCa ==
    \A p \in Procs :
        result[p] = "ok" /\ call[p].op = "regen"
            => /\ call[p].force => \A i \in Instances : pem[i] = NoFile /\ key[i] = NoFile
               /\ Readable(pem[CA]) /\ key[CA] = pem[CA].subject

=============================================================================
