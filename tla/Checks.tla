-------------------------------- MODULE Checks --------------------------------
(***************************************************************************)
(* The functional checks of dnslab/checks.py: what each of them reports    *)
(* about a target, given how the target answers.  Queries are kept apart   *)
(* by what the checks tell them apart by, replies by rcode and TXT.        *)
(***************************************************************************)
EXTENDS Naturals, Sequences, StartPlan

CONSTANT Catalogue   \* the manifests: server name -> ServerSpec

Transports == {"do53", "dot"}

(* The lab zone's SOA, the transport marker, and a public name.            *)
Questions == {"soa", "marker", "public"}

(* What comes back: no reply at all, one with an rcode other than NOERROR, *)
(* a NOERROR reply without or with answers; that to the marker query says  *)
(* which marker it carries.                                                *)
Replies == {"error", "none", "empty", "data"} \cup Transports

NoError(reply) == reply \notin {"error", "none"}

-----------------------------------------------------------------------------
(* ServerSpec.profile_for                                                  *)
ProfileFor(spec, requested) == IF requested = "default" THEN spec.default ELSE requested

HasProfile(spec, requested) == ProfileFor(spec, requested) \in DOMAIN spec.profiles

(* The plan of dnslab.start: the declared instances, those of a profile    *)
(* when one is asked for, or one instance with the name of the server.     *)
Plan(name, requested) ==
    LET spec == Catalogue[name]
    IN IF spec.instances # <<>> THEN Planned(spec.instances, requested, "default")
       ELSE <<[inst |-> name, profile |-> requested]>>

(* The flags a profile requires that the server does not have.             *)
Lacking(spec, profile) == spec.profiles[profile].requires \ spec.flags

-----------------------------------------------------------------------------
(* Provider.target: the listeners are those of the profile, or a default   *)
(* when the manifest no longer has it; an external server has no profiles  *)
(* that say anything about listeners.                                      *)
ListenersOf(spec, profile) ==
    IF spec.provider = "external" THEN Transports
    ELSE IF profile \in DOMAIN spec.profiles THEN spec.profiles[profile].listeners
    ELSE IF spec.provider = "docker" THEN Transports ELSE {"do53"}

CanListen(spec) ==
    (IF "do53_listener" \in spec.flags THEN {"do53"} ELSE {})
    \cup (IF {"dot_listener", "dot_listener_via_proxy"} \cap spec.flags # {} THEN {"dot"} ELSE {})

Target(inst, server, profile, ip) ==
    LET spec == Catalogue[server] IN
    [name |-> inst, ip |-> ip, provider |-> spec.provider, profile |-> profile,
     ports |-> ListenersOf(spec, profile) \cap CanListen(spec),
     roles |-> spec.roles, flags |-> spec.flags]

-----------------------------------------------------------------------------
(* The checks.  reply[<<q, tr>>] is how target t answers question q over tr.   *)

Verdict(good) == IF good THEN "PASS" ELSE "FAIL"

BasicProbe(t) == IF t.provider = "docker" THEN "soa" ELSE "public"

QueryDo53(t, reply) ==
    IF "do53" \notin t.ports THEN "SKIP"
    ELSE Verdict(NoError(reply[<<BasicProbe(t), "do53">>]))

(* dnspython first, then kdig, which may fail where it is installed.        *)
QueryDot(t, reply, kdigFails) ==
    IF "dot" \notin t.ports THEN "SKIP"
    ELSE Verdict(NoError(reply[<<BasicProbe(t), "dot">>]) /\ ~kdigFails)

(* The handshake alone: no reply over TLS at all means that it failed.     *)
CheckCert(t, reply) ==
    IF "dot" \notin t.ports THEN "SKIP" ELSE Verdict(reply[<<"soa", "dot">>] # "error")

Preferred(t) == IF "do53" \in t.ports THEN "do53" ELSE "dot"

CheckForwarding(t, reply) ==
    IF Preferred(t) \notin t.ports THEN "SKIP"
    ELSE IF t.provider = "docker"
         THEN Verdict(reply[<<"marker", Preferred(t)>>] \in Transports)
         ELSE Verdict(reply[<<"public", Preferred(t)>>] = "data")

Forwards(t) == {"forwarder", "recursive"} \cap t.roles # {}

(* The profile's name ends in "dot".                                       *)
DotProfile(profile) == profile \in {"auth-dot", "forwarder-dot", "global-forwarder-dot", "stub-dot"}

(* Mutant: the suffix of the profile is not looked at.                     *)
CheckDotUpstreamAnyProfile(t, reply) ==
    IF ~Forwards(t) \/ "dot_upstream_forwarding" \notin t.flags
    THEN "SKIP"
    ELSE Verdict(reply[<<"marker", Preferred(t)>>] = "dot")

CheckDotUpstreamMarker(t, reply) ==
    IF ~Forwards(t) \/ "dot_upstream_forwarding" \notin t.flags \/ ~DotProfile(t.profile)
    THEN "SKIP"
    ELSE Verdict(reply[<<"marker", Preferred(t)>>] = "dot")

RunChecks(t, reply, kdigFails) ==
    [do53Query   |-> QueryDo53(t, reply),
     dotQuery    |-> QueryDot(t, reply, kdigFails),
     cert        |-> CheckCert(t, reply),
     forwarding  |-> CheckForwarding(t, reply),
     dotUpstream |-> CheckDotUpstreamMarker(t, reply)]

(* query_report: the status of one query over one transport.               *)
QueryReport(t, question, tr, reply) ==
    IF tr \notin t.ports THEN "SKIP" ELSE Verdict(NoError(reply[<<question, tr>>]))

RunQueryMatrix(t, queries, reply) ==
    [c \in queries \X Transports |-> QueryReport(t, c[1], c[2], reply)]

=============================================================================
