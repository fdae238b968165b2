---------------------------------- MODULE Lab ----------------------------------
(***************************************************************************)
(* The facade (dnslab/__init__.py) over several servers: the lab-auth pair *)
(* and the forwarders whose configuration names the pair's addresses, the  *)
(* EC2 tier beside the containers, and the test matrix a notebook runs     *)
(* over what it finds.                                                     *)
(*                                                                         *)
(* Providers are seen from outside: a provider call is one step that       *)
(* succeeds, or raises and leaves what such a call may leave;              *)
(* DockerProvider and Ec2Provider have their insides.  What is kept of a   *)
(* rendered configuration is the one upstream address its template uses.   *)
(***************************************************************************)
EXTENDS Checks, FiniteSets, FiniteSetsExt, SequencesExt

CONSTANTS
    Kernels,    \* Jupyter kernels that use the facade
    Addrs,      \* addresses of the docker network; a free one is given out again
    Depth,      \* how many servers in a row a query may pass
    MaxCa,      \* bound on the CA generations
    Hangs,      \* the instances whose server may stop answering
    NoAddr,     \* the address of a container that exited
    None

VARIABLES
    box,      \* box[i]: the container of instance i, or None
    cloud,    \* the EC2 servers that run
    ca,       \* generation of the CA on disk
    call,     \* call[k]: the facade call of kernel k, or None
    row,      \* row[k]: a row of a matrix, in the state after k made it, or None
    fresh     \* instances (re)started, or found unchanged, since the lab-auth pair changed

vars == <<box, cloud, ca, call, row, fresh>>

Pair == {"lab-auth-do53", "lab-auth-dot"}

ServersOf(provider) == {s \in DOMAIN Catalogue : Catalogue[s].provider = provider}

Declared(s) ==
    IF Catalogue[s].instances = <<>> THEN {s} ELSE {e.inst : e \in ToSet(Catalogue[s].instances)}

Instances == UNION {Declared(s) : s \in ServersOf("docker")}

ServerOf(i) == CHOOSE s \in DOMAIN Catalogue : i \in Declared(s)

ProfileOf(i) == Catalogue[ServerOf(i)].profiles[box[i].profile]

Running(i) == box[i] # None /\ box[i].addr # NoAddr

Boxes == [profile : UNION {DOMAIN Catalogue[s].profiles : s \in ServersOf("docker")},
          addr : Addrs \cup {NoAddr}, up : Addrs \cup {NoAddr},
          leaf : 0..MaxCa, trusts : 0..MaxCa, answers : BOOLEAN]

Present == {i \in Instances : box[i] # None}

-----------------------------------------------------------------------------
(* What the manifests, zones and templates under dnslab/servers say of the *)
(* servers, for the proofs.                                                *)

(* An instance is declared by one server and with one of its profiles.     *)
ASSUME CatalogueAssumption ==
    \A s \in DOMAIN Catalogue :
       /\ Catalogue[s].instances \in Seq([inst : STRING, profile : STRING])
       /\ \A e \in ToSet(Catalogue[s].instances) : e.profile \in DOMAIN Catalogue[s].profiles
       /\ "default" \notin DOMAIN Catalogue[s].profiles
       /\ Catalogue[s].provider = "ec2" => Catalogue[s].instances = <<>>
       /\ \A r \in DOMAIN Catalogue : Declared(r) \cap Declared(s) # {} => r = s

(* lab-auth is two instances with one listener and one marker each.        *)
ASSUME PairAssumption ==
    /\ "lab-auth" \in ServersOf("docker")
    /\ ToSet(Catalogue["lab-auth"].instances) =
           {[inst |-> "lab-auth-do53", profile |-> "auth-do53"],
            [inst |-> "lab-auth-dot", profile |-> "auth-dot"]}
    /\ LET profiles == Catalogue["lab-auth"].profiles
       IN /\ profiles["auth-do53"].serves = "do53" /\ profiles["auth-do53"].listeners = {"do53"}
          /\ profiles["auth-dot"].serves = "dot" /\ profiles["auth-dot"].listeners = {"dot"}

(* A zone with the DoT marker is served over TLS alone; what is no         *)
(* authoritative server has no zone, and profiles of forwarders whose name *)
(* ends in "dot" forward over TLS, to the pair or to public resolvers.     *)
ASSUME ProfilesAssumption ==
    \A s \in ServersOf("docker") : \A p \in DOMAIN Catalogue[s].profiles :
       LET spec == Catalogue[s]
           profile == spec.profiles[p]
       IN /\ profile.listeners # {} /\ profile.listeners \subseteq CanListen(spec)
          /\ profile.serves \in Transports \cup {"nothing"}
          /\ profile.serves = "dot" => profile.listeners = {"dot"}
          /\ Forwards(spec) => profile.serves = "nothing"
          /\ Forwards(spec) /\ DotProfile(p) => profile.forwards \in {"dot", "public"}

ASSUME BoundsAssumption == Depth \in Nat \ {0} /\ MaxCa \in Nat \ {0} /\ None \notin Boxes

-----------------------------------------------------------------------------
(* Mutant: addresses of forwarders are given out a second time.            *)
HeldByPair(b) == {b[i].addr : i \in {j \in Pair : b[j] # None}}

Held(b) == {b[i].addr : i \in {j \in Instances : b[j] # None}}

NoRow == [k \in Kernels |-> None]

Init ==
    /\ box = [i \in Instances |-> None]
    /\ cloud \in SUBSET ServersOf("ec2")
    /\ ca = 1
    /\ call = [k \in Kernels |-> None]
    /\ row = NoRow
    /\ fresh = {}

-----------------------------------------------------------------------------
(* What a query to an address comes back with.  A server that forwards to  *)
(* an address passes on what it gets there; the address may have another   *)
(* owner by now, or be the server's own.                                   *)

(* A client of TLS: the name it expects and the CA generation it validates *)
(* with.  Anybody does not validate.                                       *)
Client(host, generation) == [host |-> host, ca |-> generation]

Anybody == Client("anybody", 0)

Clients == [host : Instances \cup {"anybody"}, ca : 0..MaxCa]

(* A server that hangs accepts nothing; TLS is refused under a name that   *)
(* is not the owner's, and with a leaf of another CA than the client's.    *)
Accepts(i, tr, client) ==
    /\ box[i].answers
    /\ tr \in ListenersOf(Catalogue[ServerOf(i)], box[i].profile)
    /\ tr = "dot" => client \in {Client(i, box[i].leaf), Anybody}

(* A forwarder that validates has loaded the CA at its start.              *)
Validates(i) == Catalogue[ServerOf(i)].validates

AsClient(i) == IF Validates(i) THEN Client("lab-auth-dot", box[i].trusts) ELSE Anybody

(* A query: to which address, over which transport, from which client.     *)
Queries == [ip : Addrs \cup {NoAddr}, tr : Transports, by : Clients]

Owners(q) == {i \in Instances : Running(i) /\ box[i].addr = q.ip /\ Accepts(i, q.tr, q.by)}

Forwarded(i) == [ip |-> box[i].up, tr |-> ProfileOf(i).forwards, by |-> AsClient(i)]

(* What i says when its upstream would say got; the public upstreams know  *)
(* no lab.test.                                                            *)
Says(i, got) ==
    CASE ProfileOf(i).serves # "nothing" -> ProfileOf(i).serves
      [] ProfileOf(i).serves = "nothing" /\ ProfileOf(i).forwards \in Transports ->
            IF got[Forwarded(i)] = "error" THEN "none" ELSE got[Forwarded(i)]
      [] OTHER -> "none"

Answers(got) ==
    [q \in Queries |->
        IF Owners(q) = {} THEN "error" ELSE Says(CHOOSE i \in Owners(q) : TRUE, got)]

(* The marker that a query comes back with, after n servers in a row.      *)
Silence == [q \in Queries |-> "error"]

Marker[n \in 0 .. Depth] == Answers(IF n = 0 THEN Silence ELSE Marker[n - 1])

(* How a container answers; the lab zone's SOA comes from where the marker *)
(* does.                                                                   *)
LabReply(t) ==
    [c \in Questions \X Transports |->
        LET m == Marker[Depth][[ip |-> t.ip, tr |-> c[2], by |-> Client(t.name, ca)]] IN
        IF c[1] = "marker" \/ m \in {"error", "none"} THEN m ELSE "data"]

-----------------------------------------------------------------------------
Enter(k, c) ==
    /\ call[k] = None
    /\ call' = [call EXCEPT ![k] = c]
    /\ row' = NoRow

Leave(k) == call' = [call EXCEPT ![k] = None]

(* A change of the pair ends everybody's freshness, and that of renders    *)
(* under way.                                                              *)
Restale(calls) ==
    [k \in Kernels |-> IF calls[k] = None THEN None ELSE [calls[k] EXCEPT !.tidy = FALSE]]

Idle == [op |-> "none", name |-> "none", plan |-> <<>>, up |-> NoAddr, leaf |-> 0, tidy |-> FALSE,
         target |-> None]

(* start(): the plan first, then one provider.start after the other; for   *)
(* an external server there is nothing to start.                           *)
CallStart(k, name, requested) ==
    /\ Catalogue[name].provider # "external"
    /\ Plan(name, requested) # <<>>
    /\ Enter(k, [Idle EXCEPT !.op = "start", !.name = name, !.plan = Plan(name, requested)])
    /\ UNCHANGED <<box, cloud, ca, fresh>>

Entry(k) == Head(call[k].plan)

Chosen(k) == ProfileFor(Catalogue[call[k].name], Entry(k).profile)

(* The call raises: an unknown profile, a capability that is lacking, or   *)
(* an error before anything is changed.  Earlier instances stay started.   *)
StartRaises(k) ==
    /\ call[k] # None /\ call[k].op = "start"
    /\ Leave(k)
    /\ row' = NoRow
    /\ UNCHANGED <<box, cloud, ca, fresh>>

(* provider.start issues a leaf of the current CA where it has to, then    *)
(* renders: upstreams() goes by the names of the instances that discover() *)
(* finds, running or not.                                                  *)
Upstream(tr) ==
    LET i == IF tr = "do53" THEN "lab-auth-do53" ELSE "lab-auth-dot"
    IN IF tr \in Transports /\ box[i] # None THEN box[i].addr ELSE NoAddr

Render(k) ==
    /\ call[k] # None /\ call[k].op = "start"
    /\ Catalogue[call[k].name].provider = "docker"
    /\ HasProfile(Catalogue[call[k].name], Entry(k).profile)
    /\ Lacking(Catalogue[call[k].name], Chosen(k)) = {}
    /\ LET profile == Catalogue[call[k].name].profiles[Chosen(k)] IN
       call' = [call EXCEPT ![k].op = "launch", ![k].tidy = TRUE,
                            ![k].up = Upstream(profile.forwards), ![k].leaf = ca]
    /\ row' = NoRow
    /\ UNCHANGED <<box, cloud, ca, fresh>>

(* The call goes on with the rest of its plan, or returns.                 *)
Proceed(k, calls) ==
    LET c == calls[k] IN
    [calls EXCEPT ![k] = IF Len(c.plan) = 1 THEN None
                         ELSE [c EXCEPT !.op = "start", !.plan = Tail(c.plan),
                                        !.up = NoAddr, !.leaf = 0, !.tidy = FALSE]]

Freshen(k, i) == fresh' = IF call[k].tidy /\ i \notin Pair THEN fresh \cup {i} ELSE fresh \ {i}

(* What is left of a container that exited: its labels.                    *)
Exited(profile) == [profile |-> profile, addr |-> NoAddr, up |-> NoAddr, leaf |-> 0, trusts |-> 0,
                    answers |-> FALSE]

(* A new container loads the CA as it is now if it validates, and the leaf *)
(* if it serves TLS; when the CA was regenerated since it was issued, that *)
(* may be gone or be any other.                                            *)
LeafNow(k) ==
    IF "dot" \notin Catalogue[call[k].name].profiles[Chosen(k)].listeners THEN {0}
    ELSE IF call[k].leaf = ca THEN {ca} ELSE 0..ca

Booted(k, a, l, answers) ==
    [profile |-> Chosen(k), addr |-> a, up |-> call[k].up, leaf |-> l,
     trusts |-> IF Catalogue[call[k].name].validates THEN ca ELSE 0, answers |-> answers]

(* Mutant: the fingerprint leaves the rendered config out.                 *)
UnchangedProfile(k, i) == Running(i) /\ box[i].profile = Chosen(k)

Unchanged(k, i) ==
    Running(i) /\ box[i].profile = Chosen(k) /\ box[i].up = call[k].up

(* The probe is over TLS only where there is no plain listener.            *)
Probed(i) == box[i].answers /\ ("do53" \in ProfileOf(i).listeners \/ box[i].leaf = ca)

Reuse(k) ==
    /\ call[k] # None /\ call[k].op = "launch"
    /\ LET i == Entry(k).inst IN Unchanged(k, i) /\ Probed(i) /\ Freshen(k, i)
    /\ call' = Proceed(k, call)
    /\ row' = NoRow
    /\ UNCHANGED <<box, cloud, ca>>

(* Drift, force, or no answer in time: the old container goes, a new one   *)
(* comes with any address that is free then.  Without wait nobody asks     *)
(* whether it answers.                                                     *)
Replace(k) ==
    /\ call[k] # None /\ call[k].op = "launch"
    /\ LET i == Entry(k).inst IN
       \E a \in Addrs \ Held([box EXCEPT ![i] = None]), l \in LeafNow(k), answers \in BOOLEAN :
          /\ i \in Hangs \/ answers
          /\ box' = [box EXCEPT ![i] = Booted(k, a, l, answers)]
          /\ IF i \in Pair
             THEN fresh' = {} /\ call' = Restale(Proceed(k, call))
             ELSE Freshen(k, i) /\ call' = Proceed(k, call)
    /\ row' = NoRow
    /\ UNCHANGED <<cloud, ca>>

(* provider.start raises half-way: the old container is gone, a new one    *)
(* has exited or does not answer in time, and the instances after this one *)
(* are not tried.                                                          *)
LaunchFails(k) ==
    /\ call[k] # None /\ call[k].op = "launch"
    /\ LET i == Entry(k).inst IN
       /\ \/ \E b \in {None, Exited(Chosen(k))} : box' = [box EXCEPT ![i] = b]
          \/ \E a \in Addrs \ Held([box EXCEPT ![i] = None]), l \in LeafNow(k) :
                i \in Hangs /\ box' = [box EXCEPT ![i] = Booted(k, a, l, FALSE)]
       /\ fresh' = IF i \in Pair THEN {} ELSE fresh \ {i}
       /\ IF i \in Pair THEN call' = Restale([call EXCEPT ![k] = None]) ELSE Leave(k)
    /\ row' = NoRow
    /\ UNCHANGED <<cloud, ca>>

(* certs.regen(): a new CA, no leaf left; servers keep what they loaded.   *)
Regen(k) ==
    /\ call[k] = None
    /\ ca < MaxCa
    /\ ca' = ca + 1
    /\ row' = NoRow
    /\ UNCHANGED <<box, cloud, call, fresh>>

(* The EC2 tier.                                                           *)
StartCloud(k) ==
    /\ call[k] # None /\ call[k].op = "start"
    /\ Catalogue[call[k].name].provider = "ec2"
    /\ cloud' = cloud \cup {Entry(k).inst}
    /\ call' = Proceed(k, call)
    /\ row' = NoRow
    /\ UNCHANGED <<box, ca, fresh>>

-----------------------------------------------------------------------------
Removed(which) ==
    /\ box' = [i \in Instances |-> IF i \in which THEN None ELSE box[i]]
    /\ fresh' = IF which \cap Pair # {} THEN {} ELSE fresh \ which

Touch(which, calls) == IF which \cap Pair # {} THEN Restale(calls) ELSE calls

(* stop() and nuke() remove what they found one by one, each removal a     *)
(* step; a provider that does not answer, or an error, leaves the rest.    *)
Stop(k) ==
    /\ call[k] = None
    /\ \E n \in Present \cup cloud :
          /\ Removed({n} \cap Instances)
          /\ cloud' = cloud \ {n}
          /\ call' = Touch({n}, call)
    /\ row' = NoRow
    /\ UNCHANGED ca

-----------------------------------------------------------------------------
(* The target of what a provider that answers finds, and of the servers    *)
(* outside the lab.                                                        *)
BoxTarget(i) == Target(i, ServerOf(i), box[i].profile, box[i].addr)

CloudTarget(s) == Target(s, s, Catalogue[s].default, "public")

TargetOf(n) == IF n \in Instances THEN BoxTarget(n) ELSE CloudTarget(n)

(* target(name), for one; a name that matches none or several raises, and  *)
(* what is found has its own name.  targets() and a matrix: any one of its *)
(* rows, which do not depend on each other.                                *)
CallTarget(k) ==
    /\ \E n \in Present \cup cloud \cup ServersOf("external") :
          Enter(k, [Idle EXCEPT !.op = "check", !.target = TargetOf(n)])
    /\ UNCHANGED <<box, cloud, ca, fresh>>

(* Servers outside the docker network answer as they like.                 *)
PublicReplies ==
    {[c \in Questions \X Transports |-> says[c[2]]] :
        says \in [Transports -> Replies \ Transports]}

RepliesOf(t) == IF t.provider = "docker" THEN {LabReply(t)} ELSE PublicReplies

Show(k, matrix, cells, kdigFails) ==
    row' = [NoRow EXCEPT ![k] = [matrix |-> matrix, cells |-> cells, kdigFailed |-> kdigFails]]

Check(k) ==
    /\ call[k] # None /\ call[k].op = "check"
    /\ LET t == call[k].target IN
       \E reply \in RepliesOf(t), kdigFails \in BOOLEAN :
          Show(k, "checks", RunChecks(t, reply, kdigFails), kdigFails)
    /\ Leave(k)
    /\ UNCHANGED <<box, cloud, ca, fresh>>

(* Or the query matrix, here over names of the lab zone.                   *)
Query(k) ==
    /\ call[k] # None /\ call[k].op = "check"
    /\ LET t == call[k].target IN
       \E reply \in RepliesOf(t) :
          Show(k, "queries", RunQueryMatrix(t, {"soa", "marker"}, reply), FALSE)
    /\ Leave(k)
    /\ UNCHANGED <<box, cloud, ca, fresh>>

(* A kdig that hangs raises out of the whole matrix.                       *)
CheckRaises(k) ==
    /\ call[k] # None /\ call[k].op = "check"
    /\ "dot" \in call[k].target.ports
    /\ Leave(k)
    /\ row' = NoRow
    /\ UNCHANGED <<box, cloud, ca, fresh>>

(* A server exits.                                                         *)
Exits(i) ==
    /\ Running(i)
    /\ box' = [box EXCEPT ![i] = Exited(@.profile)]
    /\ IF i \in Pair THEN fresh' = {} /\ call' = Restale(call)
       ELSE fresh' = fresh \ {i} /\ UNCHANGED call
    /\ row' = NoRow
    /\ UNCHANGED <<cloud, ca>>

(* It hangs, or comes (back) to answering.                                 *)
Turns(i) ==
    /\ Running(i) /\ i \in Hangs
    /\ box' = [box EXCEPT ![i].answers = ~@]
    /\ row' = NoRow
    /\ UNCHANGED <<cloud, ca, call, fresh>>

Next ==
    \/ \E k \in Kernels :
          \/ \E name \in DOMAIN Catalogue :
                \E p \in {"default"} \cup DOMAIN Catalogue[name].profiles : CallStart(k, name, p)
          \/ StartRaises(k) \/ Render(k) \/ Reuse(k) \/ Replace(k) \/ LaunchFails(k)
          \/ StartCloud(k) \/ Regen(k) \/ Stop(k)
          \/ CallTarget(k) \/ Check(k) \/ Query(k) \/ CheckRaises(k)
    \/ \E i \in Instances : Exits(i) \/ Turns(i)

Spec == Init /\ [][Next]_vars

-----------------------------------------------------------------------------
(* Each container has one profile of its server and an address that no     *)
(* other one holds.                                                        *)
TypeOK ==
    /\ \A i \in Instances :
          box[i] # None => /\ box[i] \in Boxes
                           /\ box[i].profile \in DOMAIN Catalogue[ServerOf(i)].profiles
    /\ \A i, j \in Instances : Running(i) /\ Running(j) /\ box[i].addr = box[j].addr => i = j
    /\ cloud \subseteq ServersOf("ec2") /\ ca \in 1..MaxCa
    /\ fresh \subseteq Instances

(* Nothing happened to the target between target() and the check.          *)
StillTrue(t) ==
    t.name \in Instances /\ Running(t.name) /\ BoxTarget(t.name) = t

(* A server with a copy of the lab zone, or with the pair as its upstream. *)
KnowsLab(profile) == profile.serves # "nothing" \/ profile.forwards \in Transports

NewRow(k) == call[k] # None /\ call[k].op = "check" /\ row'[k] # None

(* The server answers, and loaded what it has of TLS files after the last  *)
(* regeneration of the CA.                                                 *)
Sound(i) ==
    /\ Running(i) /\ box[i].answers
    /\ "dot" \in ProfileOf(i).listeners => box[i].leaf = ca
    /\ Validates(i) => box[i].trusts = ca

(* A FAIL points at something: in a lab that was set up in the documented  *)
(* order, pair first, it means that the pair or the server itself does not *)
(* answer or still has the TLS files of before a regen, or it is kdig that *)
(* failed.  Whatever was restarted, reused, renumbered or stopped before:  *)
(* a forwarder that was started again after the pair changed asks the      *)
(* addresses of the pair that runs now, and capabilities that are lacking  *)
(* are skipped.  (Not for a profile that has no way to the lab zone, such  *)
(* as global-forwarder-dot.)                                               *)
NoFalseAlarm ==
    [][\A k \in Kernels :
          LET t == call[k].target IN
          /\ NewRow(k) /\ StillTrue(t)
          /\ \A i \in Pair \cup {t.name} : Sound(i)
          /\ t.name \in Pair \cup fresh /\ KnowsLab(ProfileOf(t.name))
          => \A c \in DOMAIN row'[k].cells :
                row'[k].cells[c] = "FAIL" => c = "dotQuery" /\ row'[k].kdigFailed]_vars

(* "Answer content therefore identifies the transport actually used        *)
(* upstream": dot-upstream passes only for a forwarder that asks over TLS, *)
(* and while a server runs that has the DoT zone and no plain listener,    *)
(* however stale the addresses in the configurations on the way are.       *)
MarkerProvesTls ==
    [][\A k \in Kernels :
          LET t == call[k].target IN
          /\ NewRow(k) /\ StillTrue(t)
          /\ row'[k].matrix = "checks" /\ row'[k].cells.dotUpstream = "PASS"
          => /\ ProfileOf(t.name).forwards = "dot"
             /\ \E i \in Instances : Running(i) /\ ProfileOf(i).serves = "dot"
                                      /\ ProfileOf(i).listeners = {"dot"}]_vars

=============================================================================
