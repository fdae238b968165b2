-------------------------------- MODULE MCLab --------------------------------
(* A small lab for TLC: the pair, a forwarder that validates its upstream  *)
(* (unbound), one that does not and has no TLS listener (pdns-recursor), a *)
(* server on EC2 and one that the lab does not manage.                     *)
EXTENDS Lab, TLC

CONSTANTS k1, k2

Symmetry == Permutations(Addrs)

(* No step reads a row: states that differ in it alone are one.            *)
View == <<box, cloud, ca, call, fresh>>

Profile(listeners, forwards, serves, requires) ==
    [listeners |-> listeners, forwards |-> forwards, serves |-> serves, requires |-> requires]

Both == {"do53", "dot"}
TlsUpstream == {"dot_upstream_forwarding"}

Server(provider, roles, flags, validates, default, instances, profiles) ==
    [provider |-> provider, roles |-> roles, flags |-> flags, validates |-> validates,
     default |-> default, instances |-> instances, profiles |-> profiles]

LabAuth ==
    Server("docker", {"authoritative"}, {"do53_listener", "dot_listener"}, FALSE, "auth-do53",
           <<[inst |-> "lab-auth-do53", profile |-> "auth-do53"],
             [inst |-> "lab-auth-dot", profile |-> "auth-dot"]>>,
           "auth-do53" :> Profile({"do53"}, "nowhere", "do53", {})
           @@ "auth-dot" :> Profile({"dot"}, "nowhere", "dot", {}))

Unbound ==
    Server("docker", {"recursive", "forwarder"},
           {"do53_listener", "dot_listener", "dot_upstream_forwarding"}, TRUE, "forwarder-dot", <<>>,
           "forwarder-do53" :> Profile(Both, "do53", "nothing", {})
           @@ "forwarder-dot" :> Profile(Both, "dot", "nothing", TlsUpstream))

PdnsRecursor ==
    Server("docker", {"recursive", "forwarder"}, {"do53_listener", "dot_upstream_forwarding"},
           FALSE, "forwarder-dot", <<>>,
           "forwarder-dot" :> Profile({"do53"}, "dot", "nothing", TlsUpstream)
           @@ "global-forwarder-dot" :> Profile({"do53"}, "public", "nothing", TlsUpstream))

WindowsDns ==
    Server("ec2", {"forwarder", "recursive"}, {"do53_listener"}, FALSE, "forwarder-do53", <<>>,
           "forwarder-do53" :> Profile({"do53"}, "public", "nothing", {}))

Appliance ==
    Server("external", {"recursive"}, {"do53_listener", "dot_listener"}, FALSE, "auth-do53", <<>>,
           "auth-do53" :> Profile(Both, "public", "nothing", {}))

MCCatalogue ==
    "lab-auth" :> LabAuth @@ "unbound" :> Unbound @@ "pdns-recursor" :> PdnsRecursor
    @@ "windows-dns" :> WindowsDns @@ "appliance" :> Appliance

=============================================================================
