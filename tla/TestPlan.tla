------------------------------- MODULE TestPlan -------------------------------
(***************************************************************************)
(* dot-functionality-test-plan.ipynb: the verdict rules of its sections,   *)
(* the forwarded tier that repeats some of them through forwarders started *)
(* for the purpose, the RESULTS they append to, and the summary and report *)
(* drawn from them.  The cells are run one by one, in any order and any    *)
(* number of times, and may be interrupted: `except Exception` does not    *)
(* catch a KeyboardInterrupt.                                              *)
(*                                                                         *)
(* A reply is "error", or an rcode with the marks that the verdict of the  *)
(* test looks at.  Every direct server gets the same rows; one stands for  *)
(* all of them.  TP-6 is module Pipelining.                                *)
(***************************************************************************)
EXTENDS Naturals, Sequences, FiniteSets, SequencesExt

CONSTANTS
    Forwarders,   \* FORWARDERS, in order
    WithDot,      \* those with a DoT listener
    None

VARIABLES
    cell,       \* where the kernel is: a cell with a row number, "summary" or "idle"
    row,        \* the row recorded last by the cell run last
    verdicts,   \* those in RESULTS: "FAIL", and "other" for all the others
    skipped,    \* RESULTS has the row that says that forwarders are missing
    targets,    \* FWD_TARGETS, None before TP-7a was run
    tested,     \* server and transport pairs with a full set of TP-7b rows
    whole,      \* cells of the tier that ran to their end since RESULTS was empty,
                \* TP-7b counted only after a TP-7a that did
    overall     \* what the summary said of RESULTS, None when there are newer rows

vars == <<cell, row, verdicts, skipped, targets, tested, whole, overall>>

-----------------------------------------------------------------------------
(* Replies.                                                                *)

Rcodes == {"NOERROR", "NXDOMAIN", "SERVFAIL", "REFUSED", "BADVERS"}

(* What the tests ask of the reply beside its rcode: answers at all, the   *)
(* type asked for, an alias, RRSIGs, a key or signature of the declared    *)
(* algorithm, flags, OPT version 0, ECS and EDE options, enough days left. *)
Relevant(test) ==
    CASE test = "cert"                              -> {"days"}
      [] test = "types"                             -> {"type", "alias"}
      [] test = "rd"                                -> {"answers", "RA"}
      [] test = "do"                                -> {"AD", "rrsig"}
      [] test \in {"noedns", "buf"}                 -> {"answers", "TC", "OPT"}
      [] test \in {"cd", "unkopt", "none", "cookie"} -> {"answers"}
      [] test \in {"ecs", "badscope"}               -> {"ecs"}
      [] test = "ede"                               -> {"ede"}
      [] test \in {"dnskey", "ds"}                  -> {"alg"}
      [] test = "valid"                             -> {"alg", "AD"}
      [] OTHER                                      -> {}

Error == [rcode |-> "error", marks |-> {}]

(* (A handshake that succeeds counts as NOERROR.)                          *)
Replies(test) ==
    {Error} \cup [rcode : IF test = "cert" THEN {"NOERROR"} ELSE Rcodes,
                  marks : SUBSET Relevant(test)]

Good(r, needed) == r.rcode = "NOERROR" /\ needed \subseteq r.marks

-----------------------------------------------------------------------------
(* The direct tier, section by section.                                    *)

Grade(pass, inform) == IF pass THEN "PASS" ELSE IF inform THEN "INFO" ELSE "FAIL"

TlsCert(r) == Grade(Good(r, {"days"}), FALSE)

RecordTypes(r) == Grade(Good(r, {"type"}) \/ Good(r, {"alias"}), FALSE)

Flags(test, r) ==
    CASE test = "rd"    -> Grade(Good(r, {"answers", "RA"}), FALSE)
      [] test = "nord"  -> Grade(FALSE, r # Error)
      [] test = "do"    -> Grade(Good(r, {"AD"}) \/ Good(r, {"rrsig"}), FALSE)
      [] test = "bogus" -> Grade(r.rcode = "SERVFAIL", FALSE)
      [] test = "cd"    -> Grade(Good(r, {"answers"}), FALSE)

Edns(test, r) ==
    CASE test = "noedns" -> Grade(Good(r, {"answers"}) /\ "TC" \notin r.marks, FALSE)
      [] test = "buf"    -> Grade(Good(r, {"answers", "OPT"}) /\ "TC" \notin r.marks, FALSE)
      [] test = "unkopt" -> Grade(Good(r, {"answers"}), FALSE)
      [] test = "v1"     -> Grade(r.rcode = "BADVERS", r.rcode = "NOERROR")

Ecs(test, r) ==
    CASE test = "badscope" -> Grade(FALSE, r # Error)
      [] test = "ecs" -> Grade(Good(r, {"ecs"}),
                               \/ r.rcode = "NOERROR"
                               \/ r.rcode = "REFUSED" /\ "ecs" \in r.marks)

Ede(r) == Grade(r.rcode = "SERVFAIL" /\ "ede" \in r.marks, r.rcode = "SERVFAIL")

Cookies(test, r) ==
    IF test = "malformed" THEN Grade(FALSE, r # Error) ELSE Grade(Good(r, {"answers"}), FALSE)

Dnssec(test, r) ==
    Grade(Good(r, IF test = "valid" THEN {"alg", "AD"} ELSE {"alg"}), FALSE)

Verdict(section, test, r) ==
    CASE section = <<1, "">>  -> TlsCert(r)
      [] section = <<2, "">>  -> RecordTypes(r)
      [] section = <<3, "">>  -> Flags(test, r)
      [] section = <<4, "">>  -> Edns(test, r)
      [] section = <<4, "A">> -> Ecs(test, r)
      [] section = <<4, "B">> -> Ede(r)
      [] section = <<4, "C">> -> Cookies(test, r)
      [] section = <<5, "">>  -> Dnssec(test, r)

(* The forwarded tier has rules of its own.                                *)

(* Mutant: an alias is no answer behind a forwarder.                       *)
ForwardedPassesTypeOnly(test, r) ==
    CASE test = "types" -> Good(r, {"type"})
      [] test = "do"    -> Good(r, {"AD"}) \/ Good(r, {"rrsig"})
      [] test = "bogus" -> r.rcode = "SERVFAIL"
      [] test \in {"noedns", "buf", "cookie"} -> Good(r, {"answers"})
      [] test = "ecs"   -> r.rcode = "NOERROR"

ForwardedPasses(test, r) ==
    CASE test = "types" -> Good(r, {"type"}) \/ Good(r, {"alias"})
      [] test = "do"    -> Good(r, {"AD"}) \/ Good(r, {"rrsig"})
      [] test = "bogus" -> r.rcode = "SERVFAIL"
      [] test \in {"noedns", "buf", "cookie"} -> Good(r, {"answers"})
      [] test = "ecs"   -> r.rcode = "NOERROR"

ForwardedTests == <<"types", "do", "bogus", "noedns", "buf", "ecs", "cookie">>

ForwardedVerdict(test, r) == IF ForwardedPasses(test, r) THEN "PASS" ELSE "FAIL"

-----------------------------------------------------------------------------
(* The cells, from top to bottom.  A section's id is a number and a suffix.*)

Tests ==
    LET Cell(sec, tests) == [i \in DOMAIN tests |-> [section |-> sec, test |-> tests[i]]]
    IN Cell(<<1, "">>, <<"cert">>) \o Cell(<<2, "">>, <<"types">>)
       \o Cell(<<3, "">>, <<"rd", "nord", "do", "bogus", "cd">>)
       \o Cell(<<4, "">>, <<"noedns", "buf", "unkopt", "v1">>)
       \o Cell(<<4, "A">>, <<"ecs", "badscope">>) \o Cell(<<4, "B">>, <<"ede">>)
       \o Cell(<<4, "C">>, <<"none", "cookie", "malformed">>)
       \o Cell(<<5, "">>, <<"dnskey", "ds", "valid">>)

(* What TP-7b does: every test over every transport of every target.       *)
Transports(f) == IF f \in WithDot THEN <<"do53", "dot">> ELSE <<"do53">>

Pairs(forwarders) ==
    FlattenSeq([i \in DOMAIN forwarders |->
        [j \in DOMAIN Transports(forwarders[i]) |-> <<forwarders[i], Transports(forwarders[i])[j]>>]])

At(name, n) == [at |-> name, n |-> n]

Idle == At("idle", 1)

Init ==
    /\ cell = Idle
    /\ row = None
    /\ verdicts = {} /\ skipped = FALSE
    /\ targets = None /\ tested = {} /\ whole = {}
    /\ overall = None

(* record(): a row more in RESULTS.                                        *)
Record(section, test, reply, verdict) ==
    /\ row' = [section |-> section, test |-> test, reply |-> reply, verdict |-> verdict]
    /\ verdicts' = verdicts \cup {IF verdict = "FAIL" THEN "FAIL" ELSE "other"}
    /\ overall' = None

(* Where a cell begins; those of the direct tier are one after another.    *)
Starts(name) ==
    IF name = "direct" THEN {n \in DOMAIN Tests : n = 1 \/ Tests[n - 1].section # Tests[n].section}
    ELSE {1}

(* Mutant: FWD_TARGETS survives another run of the cell.                   *)
RunKeeping(name) ==
    /\ cell.at = "idle"
    /\ name = "7b" => targets # None
    /\ name = "summary" => verdicts # {}
    /\ \E n \in Starts(name) : cell' = At(name, n)
    /\ targets' = IF name = "7a" /\ targets = None THEN <<>> ELSE targets
    /\ whole' = IF name = "7a" THEN whole \ {"7a"} ELSE whole
    /\ row' = None
    /\ UNCHANGED <<verdicts, skipped, tested, overall>>

(* A cell is run: nothing is cleared but by the cell itself, so RESULTS    *)
(* keeps the rows of earlier runs.  (Without FWD_TARGETS, or without a row *)
(* to pivot, the cell raises and changes nothing.)                         *)
Run(name) ==
    /\ cell.at = "idle"
    /\ name = "7b" => targets # None
    /\ name = "summary" => verdicts # {}
    /\ \E n \in Starts(name) : cell' = At(name, n)
    /\ targets' = IF name = "7a" THEN <<>> ELSE targets
    /\ whole' = IF name = "7a" THEN whole \ {"7a"} ELSE whole
    /\ row' = None
    /\ UNCHANGED <<verdicts, skipped, tested, overall>>

(* Between two rows, or with a forwarder listed and its listener not yet   *)
(* looked at.                                                              *)
Interrupt ==
    /\ cell.at # "idle"
    /\ cell' = Idle
    /\ \/ UNCHANGED targets
       \/ /\ cell.at = "7a" /\ cell.n <= Len(Forwarders)
          /\ targets' = Append(targets, Forwarders[cell.n])
    /\ UNCHANGED <<row, verdicts, skipped, tested, whole, overall>>

(* RESULTS = []: the cell with record() again, or in a new kernel.         *)
Harness ==
    /\ cell.at = "idle" /\ verdicts # {}
    /\ row' = None /\ verdicts' = {} /\ skipped' = FALSE
    /\ tested' = {} /\ whole' = {} /\ overall' = None
    /\ targets' \in {targets, None}
    /\ UNCHANGED cell

Direct ==
    /\ cell.at = "direct"
    /\ LET t == Tests[cell.n] IN
       \E r \in Replies(t.test) : Record(t.section, t.test, r, Verdict(t.section, t.test, r))
    /\ cell' = IF cell.n < Len(Tests) THEN At("direct", cell.n + 1) ELSE Idle
    /\ UNCHANGED <<skipped, targets, tested, whole>>

(* TP-7a: a forwarder comes up and its listener is looked at, over TLS.    *)
StartForwarder ==
    /\ cell.at = "7a" /\ cell.n <= Len(Forwarders)
    /\ LET f == Forwarders[cell.n] IN
       /\ targets' = Append(targets, f)
       /\ IF f \in WithDot
          THEN \E v \in {"PASS", "FAIL"} : Record(<<7, "a">>, "cert", None, v)
          ELSE Record(<<7, "a">>, "cert", None, "SKIP")
    /\ cell' = At("7a", cell.n + 1)
    /\ UNCHANGED <<skipped, tested, whole>>

(* Mutant: only a tier without any forwarder is reported as missing.       *)
StartRaisesQuietly ==
    /\ cell.at = "7a" /\ cell.n <= Len(Forwarders)
    /\ IF targets = <<>> THEN Record(<<7, "a">>, "start", None, "SKIP") /\ skipped' = TRUE
       ELSE UNCHANGED <<row, verdicts, skipped, overall>>
    /\ cell' = Idle /\ whole' = whole \cup {"7a"}
    /\ UNCHANGED <<targets, tested>>

(* start() or target() raises: the loop ends, the targets before it stay.  *)
StartRaises ==
    /\ cell.at = "7a" /\ cell.n <= Len(Forwarders)
    /\ Record(<<7, "a">>, "start", None, "SKIP")
    /\ skipped' = TRUE
    /\ cell' = Idle /\ whole' = whole \cup {"7a"}
    /\ UNCHANGED <<targets, tested>>

StartsDone ==
    /\ cell.at = "7a" /\ cell.n = Len(Forwarders) + 1
    /\ cell' = Idle /\ whole' = whole \cup {"7a"}
    /\ UNCHANGED <<row, verdicts, skipped, targets, tested, overall>>

(* TP-7b: a query through a forwarder.  probe() never raises.              *)
Forwarded ==
    /\ cell.at = "7b" /\ cell.n <= Len(Pairs(targets)) * Len(ForwardedTests)
    /\ LET k == Len(ForwardedTests)
           test == ForwardedTests[((cell.n - 1) % k) + 1]
           pair == Pairs(targets)[((cell.n - 1) \div k) + 1]
       IN /\ \E v \in {ForwardedVerdict(test, r) : r \in Replies(test)} :
                Record(<<7, "b">>, test, None, v)
          /\ tested' = IF cell.n % k = 0 THEN tested \cup {pair} ELSE tested
    /\ cell' = At("7b", cell.n + 1)
    /\ UNCHANGED <<skipped, targets, whole>>

ForwardedEnds == cell' = Idle /\ whole' = whole \cup (IF "7a" \in whole THEN {"7b"} ELSE {})

NoForwarders ==
    /\ cell.at = "7b" /\ targets = <<>> /\ cell.n = 1
    /\ Record(<<7, "b">>, "none", None, "SKIP")
    /\ skipped' = TRUE
    /\ ForwardedEnds
    /\ UNCHANGED <<targets, tested>>

ForwardedDone ==
    /\ cell.at = "7b" /\ targets # <<>> /\ cell.n > Len(Pairs(targets)) * Len(ForwardedTests)
    /\ ForwardedEnds
    /\ UNCHANGED <<row, verdicts, skipped, targets, tested, overall>>

(* The summary, and the report that follows it.                            *)
Summary ==
    /\ cell.at = "summary"
    /\ overall' = IF "FAIL" \in verdicts THEN "FAIL" ELSE "PASS"
    /\ cell' = Idle
    /\ UNCHANGED <<row, verdicts, skipped, targets, tested, whole>>

Next ==
    \/ \E name \in {"direct", "7a", "7b", "summary"} : Run(name)
    \/ Interrupt \/ Harness \/ Direct
    \/ StartForwarder \/ StartRaises \/ StartsDone
    \/ Forwarded \/ NoForwarders \/ ForwardedDone \/ Summary

Spec == Init /\ [][Next]_vars

-----------------------------------------------------------------------------
(* _sec_rows: the headings of the report, and which sections each shows.   *)
Headings == {<<n, "">> : n \in 1..7} \cup {<<4, suffix>> : suffix \in {"A", "B", "C"}}

(* Mutant: any suffix makes a section part of the heading.                 *)
OwnsAnySuffix(heading, section) ==
    section = heading \/ (heading[2] = "" /\ section[1] = heading[1])

Owns(heading, section) ==
    \/ section = heading
    \/ heading[2] = "" /\ section[1] = heading[1] /\ section[2] \in {"a", "b"}

(* FWD_TARGETS are the first of the forwarders, each of them once.         *)
TypeOK ==
    /\ cell.at \in {"idle", "direct", "7a", "7b", "summary"}
    /\ verdicts \subseteq {"FAIL", "other"} /\ skipped \in BOOLEAN
    /\ overall \in {None, "PASS", "FAIL"}
    /\ targets = None \/ IsPrefix(targets, Forwarders)
    /\ whole \subseteq {"7a", "7b"}
    /\ tested \subseteq ToSet(Pairs(Forwarders))

(* OVERALL is PASS without the row that says that forwarders are missing   *)
(* only if every configured forwarder was tested over every transport it   *)
(* listens on, provided that since RESULTS was empty TP-7a ran to its end  *)
(* once and TP-7b after it, whatever was interrupted before and since,     *)
(* whichever cells were run again, and whatever failed to start in the     *)
(* middle of the list.  (Nothing in RESULTS tells whether they did: after  *)
(* an interrupted TP-7a the summary says PASS of the forwarders it has.)   *)
TierComplete ==
    overall = "PASS" /\ ~skipped /\ "7b" \in whole => tested = ToSet(Pairs(Forwarders))

(* "identical verdicts to the direct tier means the forwarding layer is    *)
(* transparent": a forwarder that passes a reply on as it is gets no FAIL  *)
(* for a reply that is a PASS in the direct tier.  (One that only informs  *)
(* there may fail behind a forwarder: a REFUSED with the ECS echoed.)      *)
ForwardedNoStricter ==
    row # None /\ row.section[1] < 7 /\ row.verdict = "PASS"
    => (row.test \in ToSet(ForwardedTests) => ForwardedVerdict(row.test, row.reply) = "PASS")

(* "Results come straight from this kernel's RESULTS": the report shows    *)
(* every row under one heading, TP-7a and TP-7b under TP-7 but TP-4A under *)
(* a heading of its own.                                                   *)
ReportShowsEachRowOnce ==
    row # None => Cardinality({h \in Headings : Owns(h, row.section)}) = 1

=============================================================================
