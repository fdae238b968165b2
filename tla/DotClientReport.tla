--------------------------- MODULE DotClientReport ---------------------------
(***************************************************************************)
(* checks.windows_dot_client_report: a PowerShell script that SSM runs on  *)
(* a Windows client blocks plaintext DNS, resolves some names and lifts    *)
(* the block; the caller polls for the transcript and draws a verdict.     *)
(* Several reports may be under way on one box: another kernel's, or the   *)
(* retry of one whose caller gave up while its script went on.             *)
(*                                                                         *)
(* The script runs under ErrorActionPreference Continue and throws the     *)
(* outcome of its firewall commands away: one that fails is passed over,   *)
(* and nothing in the transcript or in the verdict tells.                  *)
(*                                                                         *)
(* The box also runs other programs, which resolve names as they like.     *)
(* discover() and the reading of the profile change nothing on the box.    *)
(***************************************************************************)
EXTENDS Naturals, Sequences

CONSTANTS
    Reports,    \* calls of windows_dot_client_report on one box
    Blocking,   \* those with block_plaintext=True
    Wanted      \* Wanted[r]: how many names r resolves, from the first on

Names == UNION {1 .. Wanted[r] : r \in Reports}

VARIABLES
    cmd,      \* cmd[r]: status of the report's SSM command, "none" before it is sent
    step,     \* step[r]: where its script is
    how,      \* how[r]: how its names were resolved so far; the transcript tells only whether
    saw853,   \* saw853[r]: its transcript lists connections to port 853 (if it did not block)
    answer,   \* answer[r]: what the caller got
    amiss,    \* amiss[r]: what went wrong unknown to the caller: with its "block", its "lift"
    rules,    \* the firewall rules on the box, by display name
    cache     \* cache[n]: how the cached answer for n was obtained, or "none"

box == <<rules, cache>>
vars == <<cmd, step, how, saw853, answer, amiss, rules, cache>>

Block == {"dnslab-block-udp53", "dnslab-block-tcp53"}

Ended == {"Success", "TimedOut", "Failed"}

Init ==
    /\ cmd = [r \in Reports |-> "none"]
    /\ step = [r \in Reports |-> "ensure"]
    /\ how = [r \in Reports |-> <<>>]
    /\ saw853 = [r \in Reports |-> FALSE]
    /\ answer = [r \in Reports |-> "none"]
    /\ amiss = [r \in Reports |-> {}]
    /\ rules = {}
    /\ cache = [n \in Names |-> "none"]

-----------------------------------------------------------------------------
(* The caller: run_command sends the script and polls until its deadline.  *)

Refused(r) ==
    /\ cmd[r] = "none" /\ answer[r] = "none"
    /\ answer' = [answer EXCEPT ![r] = "raised"]
    /\ UNCHANGED <<cmd, step, how, saw853, amiss, box>>

Send(r) ==
    /\ cmd[r] = "none" /\ answer[r] = "none"
    /\ cmd' = [cmd EXCEPT ![r] = "Pending"]
    /\ UNCHANGED <<step, how, saw853, answer, amiss, box>>

GiveUp(r) ==
    /\ cmd[r] # "none" /\ answer[r] = "none"
    /\ answer' = [answer EXCEPT ![r] = "raised"]
    /\ UNCHANGED <<cmd, step, how, saw853, amiss, box>>

Resolved(r) == {how[r][n] : n \in DOMAIN how[r]}

Verdict(r) ==
    IF /\ Resolved(r) # {} /\ "failed" \notin Resolved(r)
       /\ r \in Blocking \/ saw853[r]
    THEN "PASS" ELSE "FAIL"

(* Any final status will do: the verdict is drawn from the transcript.     *)
Return(r) ==
    /\ cmd[r] \in Ended /\ answer[r] = "none"
    /\ answer' = [answer EXCEPT ![r] = Verdict(r)]
    /\ UNCHANGED <<cmd, step, how, saw853, amiss, box>>

-----------------------------------------------------------------------------
(* SSM: delivers the command within TimeoutSeconds or not at all, and may  *)
(* lose the script half-way (cancelled, execution timeout, reboot).        *)

Deliver(r) ==
    /\ cmd[r] = "Pending"
    /\ \E status \in {"InProgress", "TimedOut"} : cmd' = [cmd EXCEPT ![r] = status]
    /\ UNCHANGED <<step, how, saw853, answer, amiss, box>>

Kill(r) ==
    /\ cmd[r] = "InProgress"
    /\ cmd' = [cmd EXCEPT ![r] = "Failed"]
    /\ UNCHANGED <<step, how, saw853, answer, amiss, box>>

-----------------------------------------------------------------------------
(* The script, statement by statement.                                     *)

At(r, s) == cmd[r] = "InProgress" /\ step[r] = s

Goto(r, s) == step' = [step EXCEPT ![r] = s]

(* A statement of the script fails, and the next one runs.                 *)
PassedOver(r, what) == amiss' = [amiss EXCEPT ![r] = @ \cup {what}]

(* netsh registers the upstreams for DoT, or fails unseen.  User-data may  *)
(* have registered them before: a lookup over TLS is always possible.      *)
Ensure(r) ==
    /\ At(r, "ensure")
    /\ Goto(r, IF r \in Blocking THEN "blockUdp" ELSE "clear")
    /\ UNCHANGED <<cmd, how, saw853, answer, amiss, box>>

AddRule(r, s, rule, next) ==
    /\ At(r, s)
    /\ \/ rules' = rules \cup {rule} /\ UNCHANGED amiss
       \/ PassedOver(r, "block") /\ UNCHANGED rules
    /\ Goto(r, next)
    /\ UNCHANGED <<cmd, how, saw853, answer, cache>>

BlockUdp(r) == AddRule(r, "blockUdp", "dnslab-block-udp53", "blockTcp")
BlockTcp(r) == AddRule(r, "blockTcp", "dnslab-block-tcp53", "clear")

(* Mutant: the cache is left alone.                                        *)
ClearCacheNot(r) ==
    /\ At(r, "clear")
    /\ Goto(r, "resolve")
    /\ UNCHANGED <<cmd, how, saw853, answer, amiss, box>>

ClearCache(r) ==
    /\ At(r, "clear")
    /\ \/ cache' = [n \in Names |-> "none"] /\ UNCHANGED amiss
       \/ PassedOver(r, "block") /\ UNCHANGED cache
    /\ Goto(r, "resolve")
    /\ UNCHANGED <<cmd, how, saw853, answer, rules>>

(* What the stub resolver can do for n: answer from its cache, ask over    *)
(* TLS, or in plaintext unless all of it is blocked; either may fail.      *)
Ways(n) ==
    IF cache[n] # "none" THEN {cache[n]}
    ELSE {"failed", "dot"} \cup (IF Block \subseteq rules THEN {} ELSE {"plain"})

Lookup(n, w) == cache' = IF w = "failed" THEN cache ELSE [cache EXCEPT ![n] = w]

Resolve(r) ==
    /\ At(r, "resolve") /\ Len(how[r]) < Wanted[r]
    /\ LET n == Len(how[r]) + 1 IN
       \E w \in Ways(n) :
          /\ Lookup(n, w)
          /\ how' = [how EXCEPT ![r] = Append(@, w)]
    /\ UNCHANGED <<cmd, step, saw853, answer, amiss, rules>>

(* Connections to port 853 are opened by lookups, those of other programs  *)
(* too, and closed when idle: there may be one or none.  The verdict of a  *)
(* report that blocks does not ask.                                        *)
Look(r) ==
    /\ At(r, "resolve") /\ Len(how[r]) = Wanted[r]
    /\ \E c \in (IF r \in Blocking THEN {FALSE} ELSE BOOLEAN) : saw853' = [saw853 EXCEPT ![r] = c]
    /\ Goto(r, IF r \in Blocking THEN "freeUdp" ELSE "end")
    /\ UNCHANGED <<cmd, how, answer, amiss, box>>

(* The script of r is under way and counts on its block.                   *)
CountsOnBlock(r) == cmd[r] = "InProgress" /\ step[r] \in {"blockTcp", "clear", "resolve"}

(* Remove-NetFirewallRule -DisplayName removes every rule of that name,    *)
(* that of another report too; -ErrorAction SilentlyContinue.              *)
RemoveRule(r, s, rule, next) ==
    /\ At(r, s)
    /\ \/ /\ rules' = rules \ {rule}
          /\ amiss' = [q \in Reports |->
                          IF q # r /\ CountsOnBlock(q) THEN amiss[q] \cup {"block"} ELSE amiss[q]]
       \/ PassedOver(r, "lift") /\ UNCHANGED rules
    /\ Goto(r, next)
    /\ UNCHANGED <<cmd, how, saw853, answer, cache>>

(* Mutant: the rule names of one protocol are mixed up.                    *)
FreeTcpMistyped(r) == RemoveRule(r, "freeTcp", "dnslab-block-udp53", "end")

FreeUdp(r) == RemoveRule(r, "freeUdp", "dnslab-block-udp53", "freeTcp")
FreeTcp(r) == RemoveRule(r, "freeTcp", "dnslab-block-tcp53", "end")

End(r) ==
    /\ At(r, "end")
    /\ cmd' = [cmd EXCEPT ![r] = "Success"]
    /\ UNCHANGED <<step, how, saw853, answer, amiss, box>>

Script(r) ==
    \/ Ensure(r) \/ BlockUdp(r) \/ BlockTcp(r) \/ ClearCache(r) \/ Resolve(r)
    \/ Look(r) \/ FreeUdp(r) \/ FreeTcp(r) \/ End(r)

-----------------------------------------------------------------------------
(* The rest of the box: other programs look names up, answers expire.      *)

OtherProgram ==
    /\ \E n \in Names : \E w \in Ways(n) : Lookup(n, w)
    /\ UNCHANGED <<cmd, step, how, saw853, answer, amiss, rules>>

Expire ==
    /\ \E n \in Names : cache' = [cache EXCEPT ![n] = "none"]
    /\ UNCHANGED <<cmd, step, how, saw853, answer, amiss, rules>>

Next ==
    \/ \E r \in Reports :
          \/ Refused(r) \/ Send(r) \/ GiveUp(r) \/ Return(r)
          \/ Deliver(r) \/ Kill(r) \/ Script(r)
    \/ OtherProgram \/ Expire

Spec == Init /\ [][Next]_vars

(* PowerShell runs on once SSM has started it; nothing else is relied on.  *)
FairSpec == Spec /\ \A r \in Reports : WF_vars(Script(r))

-----------------------------------------------------------------------------
TypeOK ==
    /\ cmd \in [Reports -> {"none", "Pending", "InProgress"} \cup Ended]
    /\ step \in [Reports -> {"ensure", "blockUdp", "blockTcp", "clear", "resolve",
                             "freeUdp", "freeTcp", "end"}]
    /\ how \in [Reports -> Seq({"dot", "plain", "failed"})]
    /\ \A r \in Reports : Len(how[r]) <= Wanted[r]
    /\ saw853 \in [Reports -> BOOLEAN]
    /\ answer \in [Reports -> {"none", "PASS", "FAIL", "raised"}]
    /\ amiss \in [Reports -> SUBSET {"block", "lift"}]
    /\ rules \subseteq Block
    /\ cache \in [Names -> {"none", "dot", "plain"}]

(* "With block_plaintext=True a successful resolution is proof DoT was     *)
(* used", which the verdict relies on for the parameter alone: a PASS of a *)
(* report that blocks means that every name in its transcript was resolved *)
(* over TLS, provided that its rules and the flush of the cache took       *)
(* effect and that no other report lifted the block under it.  That is so  *)
(* whatever the rest of the box resolved before and resolves meanwhile,    *)
(* with any other reports on the box, and also when the script was cut     *)
(* short or failed to lift its block.                                      *)
PassProvesDot ==
    \A r \in Blocking :
        answer[r] = "PASS" /\ "block" \notin amiss[r] => Resolved(r) = {"dot"}

(* The box gets plaintext DNS back: a block is lifted in the end, by the   *)
(* script that put it up or by another, whether or not the caller still    *)
(* waits, unless a script was killed or failed to remove a rule.  ("Always *)
(* removed before it returns" leaves out both.)                            *)
BlockLifted ==
    (rules # {}) ~>
        \/ rules = {}
        \/ \E r \in Blocking : cmd[r] = "Failed" \/ "lift" \in amiss[r]

=============================================================================
