----------------------------- MODULE MCNotebooks -----------------------------
(* The notebooks, the report they ask a Windows client for, and the        *)
(* registry of server modules.  One of them is open at a time: the others  *)
(* stay as they are, so that the state spaces of the five modules add up   *)
(* and do not multiply.                                                    *)
EXTENDS DotClientReport, TLC

CONSTANTS
    r1, r2,                                    \* two reports
    N, MsgIds, Qtypes,                         \* Pipelining
    Forwarders, WithDot,                       \* TestPlan
    Servers, Steps, Total, MaxRuns,            \* ScalingTest
    Drafts,                                    \* Registry
    None

VARIABLES
    open,
    runner, sent, asked, wire, answers, rcodes, repeated, hungUp, verdict,
    cell, row, verdicts, skipped, targets, tested, whole, overall,
    phase, job, runs, running, out, results, table,
    manifest, up, vetted, starting, said

Tp6 == INSTANCE Pipelining
Plan == INSTANCE TestPlan
Scaling == INSTANCE ScalingTest
Modules == INSTANCE Registry

tp6 == <<runner, sent, asked, wire, answers, rcodes, repeated, hungUp, verdict>>
plan == <<cell, row, verdicts, skipped, targets, tested, whole, overall>>
scaling == <<phase, job, runs, running, out, results, table>>
registry == <<manifest, up, vetted, starting, said>>
notebooks == <<open, vars, tp6, plan, scaling, registry>>

(* The lookups of the second report are like those of any other program.   *)
OnlyFirst == [r \in Reports |-> IF r = r1 THEN 1 ELSE 0]
TwoTypes == <<"A", "AAAA">>
TwoForwarders == <<"unbound", "stubby">>
OneServer == <<"s1">>
ThreeSteps == <<10, 50, 90>>

(* Drafts of two modules: what an author may have saved on the way.        *)
AllKeys == {"name", "provider", "capabilities", "profiles", "ports"}

Profile(requires, uses) == [state |-> "ok", requires |-> requires, uses |-> uses]

Pair ==
    [shape |-> "mapping", keys |-> AllKeys, name |-> "lab-auth",
     provider |-> "docker", flags |-> {"do53_listener"}, default |-> "auth-do53",
     instances |-> <<[inst |-> "lab-auth-do53", profile |-> "auth-do53"],
                     [inst |-> "lab-auth-dot", profile |-> "auth-dot"]>>,
     profiles |-> "auth-do53" :> Profile({}, {"common"})
                  @@ "auth-dot" :> Profile({}, {"common"})]

Bind ==
    [shape |-> "mapping", keys |-> AllKeys, name |-> "bind",
     provider |-> "docker", flags |-> {}, default |-> None, instances |-> <<>>,
     profiles |-> "forwarder-dot" :> Profile({}, {"common", "upstream_dot"})]

ManifestDrafts ==
    "lab-auth" :> {None, Pair,
                   [Pair EXCEPT !.shape = "no mapping"],
                   [Pair EXCEPT !.profiles["auth-dot"].requires = {"dot_listener"}],
                   [Pair EXCEPT !.profiles["auth-dot"].state = "no template"],
                   [Pair EXCEPT !.profiles["auth-dot"].uses = {"tls_crt_path"}],
                   [Pair EXCEPT !.instances[2].profile = "auth-tls"]}
    @@ "bind" :> {None, Bind,
                  [Bind EXCEPT !.shape = "unparsable"],
                  [Bind EXCEPT !.name = "unbound"],
                  [Bind EXCEPT !.default = "forwarder"],
                  [Bind EXCEPT !.provider = "external"],
                  [Bind EXCEPT !.provider = "ec2",
                               !.profiles["forwarder-dot"].uses = {"upstream_ca_path"}],
                  [Bind EXCEPT !.profiles["forwarder-dot"].state = "keys"],
                  [Bind EXCEPT !.profiles["forwarder-dot"].state = "lint"]}

-----------------------------------------------------------------------------
(* What the constants are, for the proofs.                                 *)

(* None is no name and no verdict.  (That a literal is a string is nothing *)
(* the provers know.)                                                      *)
ASSUME NoneAssumption == None \notin STRING \cup {"PASS", "report", "nothing"}

(* PIPELINE_QTYPES is not empty, and a row is of one query at least.       *)
ASSUME SessionAssumption == N \in Nat \ {0} /\ Qtypes \in Seq(STRING) \ {<<>>}

(* FORWARDERS and DNS_SERVERS are lists, SCALING_STEPS percentages.        *)
ASSUME PlanAssumption == Forwarders \in Seq(STRING)
ASSUME ScalingAssumption ==
    Servers \in Seq(STRING) /\ Steps \in Seq(0 .. 100) /\ Total \in Nat

(* There are servers, and their instances have names and profiles.         *)
ASSUME DraftsAssumption ==
    /\ DOMAIN Drafts # {}
    /\ \A d \in DOMAIN Drafts : \A raw \in Drafts[d] \ {None} :
          raw.instances \in Seq([inst : STRING, profile : STRING])

(* The reports that block, and how many names each looks up.               *)
ASSUME ReportsAssumption == Blocking \subseteq Reports /\ Wanted \in [Reports -> Nat]

-----------------------------------------------------------------------------
(* What stays closed starts in one state only.                             *)
NotebooksInit ==
    /\ open \in {"report", "tp6", "plan", "scaling", "registry"}
    /\ Init /\ Tp6!Init /\ Plan!Init /\ Scaling!Init
    /\ IF open = "registry" THEN Modules!Init
       ELSE /\ manifest = [d \in DOMAIN Drafts |-> None]
            /\ up = {} /\ vetted = {} /\ starting = None /\ said = None
    /\ open # "tp6" => runner = "sequential"

InReport == open = "report" /\ UNCHANGED <<open, tp6, plan, scaling, registry>>
InTp6 == open = "tp6" /\ UNCHANGED <<open, vars, plan, scaling, registry>>
InPlan == open = "plan" /\ UNCHANGED <<open, vars, tp6, scaling, registry>>
InScaling == open = "scaling" /\ UNCHANGED <<open, vars, tp6, plan, registry>>
InRegistry == open = "registry" /\ UNCHANGED <<open, vars, tp6, plan, scaling>>

NotebooksNext ==
    \/ InReport /\ Next
    \/ InTp6 /\ Tp6!Next
    \/ InPlan /\ Plan!Next
    \/ InScaling /\ Scaling!Next
    \/ InRegistry /\ Modules!Next

NotebooksSpec ==
    /\ NotebooksInit /\ [][NotebooksNext]_notebooks
    /\ \A r \in Reports : WF_notebooks(InReport /\ Script(r))
    /\ WF_notebooks(InTp6 /\ Tp6!Client)
    /\ WF_notebooks(InScaling /\ Scaling!Kernel)
    /\ WF_notebooks(InScaling /\ Scaling!TimesOut)

-----------------------------------------------------------------------------
(* The properties are those of the modules; PassProvesDot and BlockLifted  *)
(* come with DotClientReport.                                              *)

TypesOK ==
    CASE open = "report"  -> TypeOK
      [] open = "tp6"     -> Tp6!TypeOK
      [] open = "plan"    -> Plan!TypeOK
      [] open = "scaling" -> Scaling!TypeOK
      [] open = "registry" -> Modules!TypeOK

(* A session row is PASS only if every query was answered NOERROR.         *)
PassIsEarned == Tp6!PassIsEarned

(* A session row of a correct server is no FAIL if message ids differ.     *)
CorrectServerPasses == Tp6!CorrectServerPasses

(* A silent server does not hang the cell.                                 *)
CellEnds == open = "tp6" ~> verdict # "none"

(* OVERALL is PASS only for a complete forwarded tier, or with a SKIP row, *)
(* if the cells of the tier ran to their ends.                             *)
TierComplete == Plan!TierComplete

(* The forwarded tier fails no reply that is a PASS in the direct tier.    *)
ForwardedNoStricter == Plan!ForwardedNoStricter

(* The report has every row under one heading.                             *)
ReportShowsEachRowOnce == Plan!ReportShowsEachRowOnce

(* The tools of one step share the total rate, and nothing else runs.      *)
LoadWithinTotal == Scaling!LoadWithinTotal

(* The table has each step once, of one run of the cell.                   *)
TableOfOneRun == Scaling!TableOfOneRun

(* A call fails for a manifest only if it is about that one.               *)
OthersUnaffected == Modules!OthersUnaffected

(* A start that ends because of its manifest has started nothing, and a    *)
(* template that passed selfcheck renders in docker.                       *)
ManifestFaultsShowEarly == Modules!ManifestFaultsShowEarly

(* The scaling cell comes to an end.                                       *)
ScalingEnds == Scaling!ScalingEnds

=============================================================================
