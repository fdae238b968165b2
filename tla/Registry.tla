------------------------------- MODULE Registry -------------------------------
(***************************************************************************)
(* The registry of server modules (dnslab/registry.py), the lint of it     *)
(* (dnslab/selfcheck.py) and the facade calls that load manifests, while   *)
(* the authors of other modules write theirs.  There is no central file:   *)
(* what a directory holds is the registry, also half-way through an edit.  *)
(*                                                                         *)
(* What a directory holds is a record: the shape of the manifest ("un-     *)
(* parsable", "no mapping" or "mapping"), the required keys it has, name,  *)
(* provider, flags, default profile, the sequence of its instances, and    *)
(* its profiles, each with the capabilities it requires, the names that    *)
(* its template uses, and a state: "ok", "keys" (some are missing),        *)
(* "no template" or "lint" (the server's own syntax check complains).      *)
(***************************************************************************)
EXTENDS Naturals, Sequences, FiniteSets, SequencesExt, StartPlan

CONSTANTS
    Drafts,   \* Drafts[d]: what manifest.yaml of directory d may hold, or None
    None

VARIABLES
    manifest,   \* manifest[d]: the file of directory d, or None
    up,         \* the instances that run: [inst, server]
    vetted,     \* the directories that passed selfcheck and are unchanged since
    starting,   \* the start() under way, or None
    said        \* how the call ended that was the last step, None after other steps

vars == <<manifest, up, vetted, starting, said>>

Dirs == DOMAIN Drafts

RequiredKeys == {"name", "provider", "capabilities", "profiles", "ports"}
Providers == {"docker", "ec2", "external"}

Init ==
    /\ manifest \in [Dirs -> UNION {Drafts[d] : d \in Dirs}]
    /\ \A d \in Dirs : manifest[d] \in Drafts[d]
    /\ up = {} /\ vetted = {} /\ starting = None /\ said = None

-----------------------------------------------------------------------------
(* load_manifest: what it raises, in the order in which it looks.          *)

InState(raw, state) == \E p \in DOMAIN raw.profiles : raw.profiles[p].state = state

Misfit(dir, raw) ==
    \/ raw.shape = "no mapping"
    \/ ~(RequiredKeys \subseteq raw.keys)
    \/ raw.provider \notin Providers
    \/ raw.name # dir

(* Profile.from_dict takes two keys for granted.                           *)
ProfileIncomplete(raw) == InState(raw, "keys")

InstancesUnknown(raw) == \E e \in ToSet(raw.instances) : e.profile \notin DOMAIN raw.profiles

(* Mutant: the profiles of the instances are left to start().              *)
LoadInstancesUnseen(dir, raw) ==
    CASE raw.shape = "unparsable"                                -> "YAMLError"
      [] Misfit(dir, raw)                                        -> "ManifestError"
      [] ProfileIncomplete(raw)                                  -> "KeyError"
      [] DOMAIN raw.profiles = {} \/ InState(raw, "no template") -> "ManifestError"
      [] OTHER                                                   -> "none"

Load(dir, raw) ==
    CASE raw.shape = "unparsable"                                -> "YAMLError"
      [] Misfit(dir, raw)                                        -> "ManifestError"
      [] ProfileIncomplete(raw)                                  -> "KeyError"
      [] DOMAIN raw.profiles = {} \/ InState(raw, "no template") -> "ManifestError"
      [] InstancesUnknown(raw)                                   -> "ManifestError"
      [] OTHER                                                   -> "none"

Present == {d \in Dirs : manifest[d] # None}

Broken == {d \in Present : Load(d, manifest[d]) # "none"}

(* discover(): a broken manifest is skipped, with strict it raises.        *)
Discover(strict) ==
    [raises |-> IF strict THEN {Load(d, manifest[d]) : d \in Broken} ELSE {},
     specs  |-> Present \ Broken]

(* Mutant: every manifest is loaded to get one, as it once was.            *)
GetThroughAll(dir) ==
    IF Broken # {} THEN CHOOSE e \in Discover(TRUE).raises : TRUE
    ELSE IF dir \in Present THEN "none" ELSE "KeyError"

(* get(): what it raises.                                                  *)
Get(dir) == IF dir \in Present THEN Load(dir, manifest[dir]) ELSE "KeyError"

-----------------------------------------------------------------------------
(* The names a template may use, beside those that are always there: in    *)
(* selfcheck, in a docker start, which has those of the pair that runs,    *)
(* and in the user data of an EC2 instance.                                *)
DummyContext == {"common", "upstream_ca_path", "upstream_do53", "upstream_dot"}

Runs(inst) == \E i \in up : i.server = "lab-auth" /\ i.inst = inst

DockerContext ==
    {"common", "upstream_ca_path"}
    \cup (IF Runs("lab-auth-do53") THEN {"upstream_do53"} ELSE {})
    \cup (IF Runs("lab-auth-dot") THEN {"upstream_dot"} ELSE {})

UserdataContext == {"common"}

(* The template is that on disk, whatever was loaded before.               *)
Renders(raw, p, context) ==
    /\ raw # None /\ p \in DOMAIN raw.profiles
    /\ raw.profiles[p].state # "no template"
    /\ raw.profiles[p].uses \subseteq context

ProviderRenders(spec, dir, p) ==
    CASE spec.provider = "docker"   -> Renders(manifest[dir], p, DockerContext)
      [] spec.provider = "ec2"      -> Renders(manifest[dir], p, UserdataContext)
      [] spec.provider = "external" -> TRUE

-----------------------------------------------------------------------------
(* An author saves a manifest, or the editor is half-way through it.       *)
Save(d) ==
    /\ \E raw \in Drafts[d] \ {manifest[d]} : manifest' = [manifest EXCEPT ![d] = raw]
    /\ vetted' = vetted \ {d}
    /\ starting' = IF starting # None /\ starting.dir = d
                   THEN [starting EXCEPT !.vetted = FALSE] ELSE starting
    /\ said' = None
    /\ UNCHANGED up

(* The end of a call: about which servers it was, what it raised or, for   *)
(* selfcheck, the exit status; what a start() has started, and if what it  *)
(* worked from was vetted.                                                 *)
SayStart(dir, outcome, started, wasVetted) ==
    said' = [op |-> "start", about |-> {dir}, outcome |-> outcome, started |-> started,
             vetted |-> wasVetted]

Say(op, about, outcome) ==
    said' = [op |-> op, about |-> about, outcome |-> outcome, started |-> {}, vetted |-> FALSE]

(* start(): the manifest is read once, then one instance comes up after    *)
(* the other.                                                              *)
PlanOf(spec, dir, asked) ==
    IF spec.instances # <<>> THEN Planned(spec.instances, asked, None)
    ELSE <<[inst |-> dir, profile |-> asked]>>

CallStart(dir, asked) ==
    /\ starting = None
    /\ LET spec == manifest[dir] IN
       IF Get(dir) # "none"
       THEN SayStart(dir, Get(dir), {}, dir \in vetted) /\ UNCHANGED starting
       ELSE IF PlanOf(spec, dir, asked) = <<>>
       THEN SayStart(dir, "KeyError", {}, dir \in vetted) /\ UNCHANGED starting
       ELSE /\ starting' = [dir |-> dir, spec |-> spec, started |-> {},
                            plan |-> PlanOf(spec, dir, asked), vetted |-> dir \in vetted]
            /\ said' = None
    /\ UNCHANGED <<manifest, up, vetted>>

(* ServerSpec.profile_for: the first profile when there is no default.     *)
ProfileFor(spec, requested) ==
    IF requested # None THEN {requested}
    ELSE IF spec.default # None THEN {spec.default}
    ELSE DOMAIN spec.profiles

Ends(outcome) ==
    /\ SayStart(starting.dir, outcome, starting.started, starting.vetted)
    /\ starting' = None
    /\ UNCHANGED <<manifest, up, vetted>>

StartInstance ==
    /\ starting # None
    /\ LET spec == starting.spec
           entry == Head(starting.plan)
       IN \E p \in ProfileFor(spec, entry.profile) :
          IF p \notin DOMAIN spec.profiles THEN Ends("KeyError")
          ELSE IF ~(spec.profiles[p].requires \subseteq spec.flags) THEN Ends("RuntimeError")
          ELSE IF ~ProviderRenders(spec, starting.dir, p) THEN Ends("TemplateError")
          ELSE LET started == starting.started \cup {entry.inst} IN
               /\ up' = IF spec.provider = "external" THEN up
                        ELSE up \cup {[inst |-> entry.inst, server |-> starting.dir]}
               /\ IF Len(starting.plan) = 1
                  THEN /\ SayStart(starting.dir, "none", started, starting.vetted)
                       /\ starting' = None
                  ELSE /\ starting' = [starting EXCEPT !.plan = Tail(@), !.started = started]
                       /\ said' = None
               /\ UNCHANGED <<manifest, vetted>>

ProviderRaises == starting # None /\ Ends("RuntimeError")

(* _find goes by what runs and needs no manifest.                          *)
Matches(name) == {i \in up : name \in {i.inst, i.server}}

Stop(name) ==
    /\ starting = None /\ Matches(name) # {}
    /\ up' = up \ Matches(name)
    /\ Say("stop", {name}, "none")
    /\ UNCHANGED <<manifest, vetted, starting>>

(* target(): provider.target() loads the manifest of the instance.         *)
CallTarget(name) ==
    /\ starting = None
    /\ LET found == Matches(name)
           server == IF found = {} THEN name ELSE (CHOOSE i \in found : TRUE).server
           raises == Get(server)
       IN Say("target", {server},
              CASE Cardinality(found) > 1 -> "RuntimeError"
                [] found = {} /\ raises = "none" /\ manifest[name].provider # "external"
                                          -> "RuntimeError"
                [] OTHER                  -> raises)
    /\ UNCHANGED <<manifest, up, vetted, starting>>

(* targets(): every running instance, so one broken manifest among those   *)
(* ends it.                                                                *)
CallTargets ==
    /\ starting = None
    /\ LET servers == {i.server : i \in up}
           raises == {Get(s) : s \in servers} \ {"none"}
       IN IF raises = {} THEN Say("targets", servers, "none")
          ELSE \E e \in raises : Say("targets", servers, e)
    /\ UNCHANGED <<manifest, up, vetted, starting>>

-----------------------------------------------------------------------------
(* selfcheck for the named modules, for all of them if none is named.      *)
LintComplains(d) == InState(manifest[d], "lint")

Failures(specs) ==
    \E d \in specs :
       \/ \E p \in DOMAIN manifest[d].profiles : ~Renders(manifest[d], p, DummyContext)
       \/ LintComplains(d)
       \/ InstancesUnknown(manifest[d])

Selfcheck(only) ==
    /\ starting = None
    /\ LET raises == IF only = {} THEN Discover(TRUE).raises
                     ELSE {Get(d) : d \in only} \ {"none"}
           specs == IF only = {} THEN Discover(TRUE).specs ELSE only
           Exit(status) == Say("selfcheck", IF only = {} THEN Dirs ELSE only, status)
       IN IF raises # {}
          THEN /\ \E e \in raises : Exit(IF only # {} /\ e # "YAMLError" THEN "exit 2" ELSE e)
               /\ UNCHANGED vetted
          ELSE IF specs = {} \/ Failures(specs)
          THEN Exit(IF specs = {} THEN "exit 2" ELSE "exit 1") /\ UNCHANGED vetted
          ELSE Exit("exit 0") /\ vetted' = vetted \cup specs
    /\ UNCHANGED <<manifest, up, starting>>

ProfileNames == UNION {DOMAIN raw.profiles : raw \in UNION {Drafts[d] \ {None} : d \in Dirs}}

Next ==
    \/ \E d \in Dirs :
          \/ Save(d) \/ Stop(d) \/ CallTarget(d)
          \/ \E asked \in {None} \cup ProfileNames : CallStart(d, asked)
    \/ StartInstance \/ ProviderRaises \/ CallTargets
    \/ \E only \in SUBSET Dirs : Selfcheck(only)

Spec == Init /\ [][Next]_vars

-----------------------------------------------------------------------------
TypeOK ==
    /\ \A d \in Dirs : manifest[d] \in Drafts[d]
    /\ \A i \in up : i.server \in Dirs
    /\ vetted \subseteq Present \ Broken
    /\ starting # None => starting.plan # <<>> /\ starting.dir \in Dirs

(* "one module-in-progress can't take down start/stop/target for every     *)
(* other server", nor the check of another module: a call ends because of  *)
(* a manifest or a template only if one that it is about is bad, whatever  *)
(* is saved meanwhile.  (targets() is about all that runs.)                *)
OthersUnaffected ==
    said # None /\ said.outcome \in {"YAMLError", "ManifestError", "exit 1", "exit 2"}
    => \E d \in said.about :
          \/ d \notin Present \/ d \in Broken
          \/ Failures({d})

(* What is wrong with a manifest shows before anything runs: a start that  *)
(* ends by it leaves no instance behind, while one that ends for a lacking *)
(* capability, a template or in a provider may; and what passed selfcheck  *)
(* renders in a docker start while the pair runs.  (The context of EC2 has *)
(* fewer names than the dummy one.)                                        *)
ManifestFaultsShowEarly ==
    said # None /\ said.op = "start" =>
    /\ said.outcome \in {"YAMLError", "ManifestError", "KeyError"} => said.started = {}
    /\ said.outcome = "TemplateError" /\ said.vetted
       => \E d \in said.about :
             manifest[d].provider = "ec2" \/ ~(DummyContext \subseteq DockerContext)

=============================================================================
