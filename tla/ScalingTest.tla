------------------------------ MODULE ScalingTest ------------------------------
(***************************************************************************)
(* The scaling cell of dns-dot-migration-test.ipynb: at each step dnsperf  *)
(* (Do53) and dnspyre (DoT) run at the same time and share a constant      *)
(* total of queries per second; their reports become a row, the rows a     *)
(* table when the cell is through.  The user may interrupt the cell and    *)
(* run it again.                                                           *)
(***************************************************************************)
EXTENDS Naturals, Sequences, FiniteSets, FiniteSetsExt, SequencesExt

CONSTANTS
    Servers,   \* DNS_SERVERS, in order
    Steps,     \* SCALING_STEPS: percentages of DoT, in order
    Total,     \* PERF_TOTAL_QPS
    MaxRuns,   \* how often the cell is run (bound)
    None

VARIABLES
    phase,     \* "idle", "submit", "await" or "leaving" (interrupted)
    job,       \* number of the step
    runs,      \* how often the cell was run
    running,   \* the tools at work: [tool, job]
    out,       \* out[tool]: what came of its run at this step, or None
    results,   \* scaling_results
    table      \* scaling_df

vars == <<phase, job, runs, running, out, results, table>>

Tools == {"dnsperf", "dnspyre"}

Jobs == FlattenSeq([s \in DOMAIN Servers |->
            [p \in DOMAIN Steps |-> [server |-> Servers[s], pct |-> Steps[p]]]])

(* int() cuts the fraction off.                                            *)
Rate(tool, pct) == (Total * (IF tool = "dnspyre" THEN pct ELSE 100 - pct)) \div 100

Nothing == [tool \in Tools |-> None]

Init ==
    /\ phase = "idle" /\ job = 1 /\ runs = 0
    /\ running = {} /\ out = Nothing
    /\ results = <<>> /\ table = <<>>

(* Mutant: scaling_results is created in an earlier cell.                  *)
RunCellAppending ==
    /\ phase = "idle" /\ runs < MaxRuns
    /\ phase' = "submit" /\ job' = 1 /\ runs' = runs + 1 /\ out' = Nothing
    /\ UNCHANGED <<running, results, table>>

RunCell ==
    /\ phase = "idle" /\ runs < MaxRuns
    /\ phase' = "submit" /\ job' = 1 /\ runs' = runs + 1
    /\ results' = <<>> /\ out' = Nothing
    /\ UNCHANGED <<running, table>>

Submit ==
    /\ phase = "submit" /\ job <= Len(Jobs)
    /\ running' = running \cup [tool : Tools, job : {job}]
    /\ phase' = "await"
    /\ UNCHANGED <<job, runs, out, results, table>>

(* run_cmd never raises: a tool that is missing, or is killed when its     *)
(* time is up, has printed nothing, and then its numbers are zeros.        *)
Ends(t, printed) ==
    /\ t \in running
    /\ running' = running \ {t}
    /\ out' = IF t.job = job THEN [out EXCEPT ![t.tool] = printed] ELSE out
    /\ UNCHANGED <<phase, job, runs, results, table>>

ToolEnds == \E t \in running : \E printed \in {"report", "nothing"} : Ends(t, printed)

(* Mutant: subprocess.run without a timeout.                               *)
TimesOutNever == FALSE /\ UNCHANGED vars

TimesOut == \E t \in running : Ends(t, "nothing")

(* Mutant: only the first future is asked for its result.                  *)
FirstDone == out["dnsperf"] # None

(* f53.result(), fdot.result()                                             *)
BothDone == \A tool \in Tools : out[tool] # None

Collect ==
    /\ phase = "await" /\ BothDone
    /\ results' = Append(results, [job |-> Jobs[job], run |-> runs, out |-> out])
    /\ phase' = "submit" /\ job' = job + 1 /\ out' = Nothing
    /\ UNCHANGED <<runs, running, table>>

Complete ==
    /\ phase = "submit" /\ job > Len(Jobs)
    /\ table' = results
    /\ phase' = "idle"
    /\ UNCHANGED <<job, runs, running, out, results>>

(* KeyboardInterrupt: the pool is left only when its tools have ended.     *)
Interrupt ==
    /\ phase \in {"submit", "await"}
    /\ phase' = "leaving"
    /\ UNCHANGED <<job, runs, running, out, results, table>>

Leave ==
    /\ phase = "leaving" /\ running = {}
    /\ phase' = "idle"
    /\ UNCHANGED <<job, runs, running, out, results, table>>

Kernel == Submit \/ Collect \/ Complete \/ Leave

Next == RunCell \/ Kernel \/ ToolEnds \/ TimesOut \/ Interrupt

Spec == Init /\ [][Next]_vars

(* The kernel goes on, and subprocess.run kills a tool whose time is up.   *)
FairSpec == Spec /\ WF_vars(Kernel) /\ WF_vars(TimesOut)

-----------------------------------------------------------------------------
TypeOK ==
    /\ phase \in {"idle", "submit", "await", "leaving"}
    /\ job \in 1 .. Len(Jobs) + 1
    /\ running \subseteq [tool : Tools, job : 1 .. Len(Jobs)]
    /\ out \in [Tools -> {None, "report", "nothing"}]
    /\ Len(results) <= Len(Jobs)

(* "This test holds total QPS constant": whatever was interrupted or timed *)
(* out before, the tools at work are those of one step, and the rates they *)
(* are asked for add up to the total, but for the fractions.               *)
LoadWithinTotal ==
    LET load == MapThenSumSet(LAMBDA t : Rate(t.tool, Jobs[t.job].pct), running) IN
    /\ load <= Total
    /\ Cardinality(running) = 2 => load >= Total - 1

(* The table that charts and summary are drawn from is that of one run of  *)
(* the cell and has every step once, also after a run that was interrupted.*)
TableOfOneRun ==
    table # <<>> => /\ [i \in DOMAIN table |-> table[i].job] = Jobs
                    /\ Cardinality({table[i].run : i \in DOMAIN table}) = 1

(* The cell comes to an end though the tools may hang.                     *)
ScalingEnds == phase # "idle" ~> phase = "idle"

=============================================================================
