------------------------------ MODULE Lab_proofs ------------------------------
(***************************************************************************)
(* Theorems about the facade and the matrices, for any number of kernels,  *)
(* servers, instances, profiles and addresses.                             *)
(***************************************************************************)
EXTENDS Lab, RecursionFacts, TLAPS

-----------------------------------------------------------------------------
(* The catalogue.                                                          *)
LEMMA ServerIs ==
  ASSUME NEW s \in DOMAIN Catalogue, NEW i \in Declared(s)
  PROVE  ServerOf(i) = s
  <1>1. ServerOf(i) \in DOMAIN Catalogue /\ i \in Declared(ServerOf(i))
    BY Zenon DEF ServerOf
  <1>2. Declared(ServerOf(i)) \cap Declared(s) # {}
    BY <1>1
  <1>3. QED
    BY <1>1, <1>2, CatalogueAssumption

LEMMA ServerIsDocker ==
  ASSUME NEW i \in Instances
  PROVE  ServerOf(i) \in ServersOf("docker") /\ i \in Declared(ServerOf(i))
  <1>1. PICK s \in ServersOf("docker") : i \in Declared(s)
    BY DEF Instances
  <1>2. ServerOf(i) = s
    BY <1>1, ServerIs DEF ServersOf
  <1>3. QED
    BY <1>1, <1>2

LEMMA PairDeclared == Catalogue["lab-auth"].instances # <<>>
  <1>1. ToSet(<<>>) = {}
    BY DEF ToSet
  <1>2. ToSet(Catalogue["lab-auth"].instances) # {}
    BY PairAssumption
  <1>3. QED
    BY <1>1, <1>2

LEMMA PairKnown ==
  /\ Pair \subseteq Instances
  /\ \A i \in Pair : ServerOf(i) = "lab-auth"
  /\ Declared("lab-auth") = Pair
  <1>1. Declared("lab-auth") = Pair
    BY PairDeclared, PairAssumption DEF Declared, Pair
  <1>2. QED
    BY <1>1, PairAssumption, ServerIs DEF Instances, ServersOf

(* What a start has before it.                                             *)
Entries(name) ==
    IF Catalogue[name].instances # <<>> THEN ToSet(Catalogue[name].instances)
    ELSE {[inst |-> name, profile |-> p] : p \in {"default"} \cup DOMAIN Catalogue[name].profiles}

LEMMA PlanKnown ==
  ASSUME NEW name \in DOMAIN Catalogue,
         NEW asked \in {"default"} \cup DOMAIN Catalogue[name].profiles
  PROVE  Plan(name, asked) \in Seq(Entries(name))
  <1> DEFINE declared == Catalogue[name].instances
  <1>1. CASE declared # <<>>
    <2>1. declared \in Seq(ToSet(declared))
      BY CatalogueAssumption DEF ToSet
    <2>2. Plan(name, asked) = Planned(declared, asked, "default")
      BY <1>1 DEF Plan
    <2>3. Entries(name) = ToSet(declared)
      BY <1>1 DEF Entries
    <2> HIDE DEF declared
    <2>4. QED
      BY <2>1, <2>2, <2>3, PlannedType
  <1>2. CASE declared = <<>>
    <2>1. Plan(name, asked) = <<[inst |-> name, profile |-> asked]>>
      BY <1>2 DEF Plan
    <2>2. [inst |-> name, profile |-> asked] \in Entries(name)
      BY <1>2 DEF Entries
    <2>3. QED
      BY <2>1, <2>2
  <1>3. QED
    BY <1>1, <1>2

LEMMA EntryKnown ==
  ASSUME NEW name \in DOMAIN Catalogue, NEW e \in Entries(name)
  PROVE  /\ e.inst \in Declared(name) /\ ServerOf(e.inst) = name
         /\ Catalogue[name].provider = "docker" => e.inst \in Instances
         /\ Catalogue[name].provider = "ec2" => e.inst = name
  <1>1. e.inst \in Declared(name)
    BY DEF Entries, Declared
  <1>2. Catalogue[name].provider = "ec2" => e.inst = name
    BY CatalogueAssumption DEF Entries
  <1>3. QED
    BY <1>1, <1>2, ServerIs DEF Instances, ServersOf

-----------------------------------------------------------------------------
(* The invariant: what is known of containers, calls and what is fresh.    *)
Unshared ==
    \A i, j \in Instances : Running(i) /\ Running(j) /\ box[i].addr = box[j].addr => i = j

PairProfile(i) == IF i = "lab-auth-do53" THEN "auth-do53" ELSE "auth-dot"

BoxKnown(i) ==
    box[i] # None => /\ box[i] \in Boxes
                     /\ box[i].profile \in DOMAIN Catalogue[ServerOf(i)].profiles
                     /\ i \in Pair => box[i].profile = PairProfile(i)

BoxesKnown == box = [i \in Instances |-> box[i]] /\ \A i \in Instances : BoxKnown(i)

(* The profile that the instance in turn is started with.                  *)
Pick(c) == ProfileFor(Catalogue[c.name], Head(c.plan).profile)

Frames(op, name, plan, up, leaf, tidy, target) ==
    [op : {op}, name : {name}, plan : {plan}, up : {up}, leaf : {leaf}, tidy : {tidy},
     target : {target}]

Known(c) ==
    /\ c \in Frames(c.op, c.name, c.plan, c.up, c.leaf, c.tidy, c.target)
    /\ c.op \in {"start", "launch"} =>
          c.name \in DOMAIN Catalogue /\ c.plan \in Seq(Entries(c.name)) /\ c.plan # <<>>
    /\ c.op = "launch" => /\ Catalogue[c.name].provider = "docker"
                          /\ Pick(c) \in DOMAIN Catalogue[c.name].profiles
                          /\ c.up \in Addrs \cup {NoAddr}

(* A tidy launch was rendered for the pair as it is.                       *)
UpToDate(c) ==
    c.op = "launch" /\ c.tidy => c.up = Upstream(Catalogue[c.name].profiles[Pick(c)].forwards)

CallsKnown ==
    /\ call = [k \in Kernels |-> call[k]]
    /\ \A k \in Kernels : call[k] # None => Known(call[k]) /\ UpToDate(call[k])

FreshKnown ==
    /\ fresh \subseteq Instances \ Pair
    /\ \A i \in fresh : box[i].up = Upstream(ProfileOf(i).forwards)

Inv ==
    /\ BoxesKnown /\ Unshared /\ CallsKnown /\ FreshKnown
    /\ cloud \subseteq ServersOf("ec2") /\ ca \in 1 .. MaxCa

LEMMA InvInit == Init => Inv
  <1> SUFFICES ASSUME Init PROVE Inv
    OBVIOUS
  <1> USE DEF Init
  <1>1. BoxesKnown /\ Unshared
    BY DEF BoxesKnown, BoxKnown, Unshared, Running
  <1>2. CallsKnown
    BY DEF CallsKnown
  <1>3. FreshKnown
    BY DEF FreshKnown
  <1>4. ca \in 1 .. MaxCa
    BY BoundsAssumption
  <1>5. QED
    BY <1>1, <1>2, <1>3, <1>4 DEF Inv

LEMMA InvTypes == Inv => TypeOK
  BY DEF Inv, BoxesKnown, BoxKnown, Unshared, FreshKnown, TypeOK

-----------------------------------------------------------------------------
(* What the steps have in common.                                          *)
PairSame ==
    \A i \in Pair : /\ box[i] # None <=> box'[i] # None
                    /\ box[i] # None => box'[i].addr = box[i].addr

LEMMA SameUpstream == PairSame => \A tr : Upstream(tr)' = Upstream(tr)
  BY DEF PairSame, Upstream, Pair

LEMMA UpstreamIs == Inv => \A tr : Upstream(tr) \in Addrs \cup {NoAddr}
  <1> SUFFICES ASSUME Inv, NEW tr PROVE Upstream(tr) \in Addrs \cup {NoAddr}
    OBVIOUS
  <1>1. \A i \in Pair : box[i] # None => box[i].addr \in Addrs \cup {NoAddr}
    BY PairKnown DEF Inv, BoxesKnown, BoxKnown, Boxes
  <1>2. QED
    BY <1>1 DEF Upstream, Pair

(* The calls that a step leaves, before those of an old render are told.   *)
Fits(calls) ==
    /\ calls = [j \in Kernels |-> calls[j]]
    /\ \A j \in Kernels : calls[j] # None => Known(calls[j]) /\ UpToDate(calls[j])

LEMMA FitsOne ==
  ASSUME Inv, NEW k \in Kernels, NEW c, NEW calls, calls = [call EXCEPT ![k] = c],
         c # None => Known(c) /\ UpToDate(c)
  PROVE  Fits(calls)
  BY DEF Inv, CallsKnown, Fits

LEMMA FitsSame == Inv => Fits(call)
  BY DEF Inv, CallsKnown, Fits

LEMMA Stays ==
  ASSUME NEW calls, Fits(calls), call' = calls, PairSame
  PROVE  CallsKnown'
  BY SameUpstream DEF Fits, CallsKnown, UpToDate

LEMMA Restaled ==
  ASSUME NEW calls, Fits(calls), call' = Restale(calls)
  PROVE  CallsKnown'
  <1> SUFFICES ASSUME NEW j \in Kernels, call'[j] # None
               PROVE  Known(call'[j]) /\ UpToDate(call[j])'
    BY DEF Restale, CallsKnown, Fits
  <1>1. calls[j] # None /\ call'[j] = [calls[j] EXCEPT !.tidy = FALSE]
    BY DEF Restale
  <1>2. Known(calls[j])
    BY <1>1 DEF Fits
  <1>3. /\ call'[j].op = calls[j].op /\ call'[j].name = calls[j].name /\ call'[j].up = calls[j].up
        /\ call'[j].plan = calls[j].plan /\ call'[j].target = calls[j].target /\ ~call'[j].tidy
        /\ call'[j] \in Frames(calls[j].op, calls[j].name, calls[j].plan, calls[j].up, calls[j].leaf,
                               FALSE, calls[j].target)
    BY <1>1, <1>2 DEF Known, Frames
  <1>4. Known(call'[j])
    <2>1. call'[j] \in Frames(call'[j].op, call'[j].name, call'[j].plan, call'[j].up, call'[j].leaf,
                             call'[j].tidy, call'[j].target)
      BY <1>3 DEF Frames
    <2>2. Pick(call'[j]) = Pick(calls[j])
      BY <1>3 DEF Pick
    <2>3. QED
      BY <1>2, <1>3, <2>1, <2>2 DEF Known
  <1>5. UpToDate(call[j])'
    BY <1>3 DEF UpToDate
  <1>6. QED
    BY <1>2, <1>3, <1>4, <1>5

(* Containers that stay, go or exit.                                       *)
Goes(i) ==
    \/ box'[i] \in {box[i], None}
    \/ \E p \in DOMAIN Catalogue[ServerOf(i)].profiles :
          box'[i] = Exited(p) /\ (i \in Pair => p = PairProfile(i))

LEMMA BoxesGo ==
  ASSUME Inv, box' = [i \in Instances |-> box'[i]], \A i \in Instances : Goes(i)
  PROVE  BoxesKnown' /\ Unshared'
  <1>1. ASSUME NEW i \in Instances PROVE BoxKnown(i)'
    <2>1. CASE box'[i] \in {box[i], None}
      BY <2>1 DEF Inv, BoxesKnown, BoxKnown
    <2>2. CASE box'[i] \notin {box[i], None}
      <3>1. PICK p \in DOMAIN Catalogue[ServerOf(i)].profiles :
               box'[i] = Exited(p) /\ (i \in Pair => p = PairProfile(i))
        BY <2>2 DEF Goes
      <3>2. Exited(p) \in Boxes /\ Exited(p).profile = p
        BY ServerIsDocker, BoundsAssumption DEF Exited, Boxes
      <3>3. QED
        BY <3>1, <3>2 DEF BoxKnown
    <2>3. QED
      BY <2>1, <2>2
  <1>2. \A i \in Instances : Running(i)' => Running(i) /\ box'[i] = box[i]
    BY DEF Goes, Running, Exited
  <1>3. Unshared'
    BY <1>2 DEF Unshared, Inv, Running
  <1>4. QED
    BY <1>1, <1>3 DEF BoxesKnown

LEMMA FreshStays ==
  ASSUME Inv, fresh' \subseteq fresh, \A i \in fresh' : box'[i] = box[i], fresh' # {} => PairSame
  PROVE  FreshKnown'
  BY SameUpstream DEF Inv, FreshKnown, ProfileOf

LEMMA Untouched ==
  ASSUME Inv, UNCHANGED <<box, fresh>>
  PROVE  BoxesKnown' /\ Unshared' /\ FreshKnown' /\ PairSame
  <1>1. PairSame
    BY DEF PairSame
  <1>2. BoxesKnown' /\ Unshared'
    BY BoxesGo DEF Goes, Inv, BoxesKnown
  <1>3. FreshKnown'
    BY <1>1, FreshStays
  <1>4. QED
    BY <1>1, <1>2, <1>3

-----------------------------------------------------------------------------
(* The steps of a call.                                                    *)
LEMMA EnterKeeps ==
  ASSUME Inv, NEW k \in Kernels, NEW c, Enter(k, c), Known(c), c.op \in {"start", "check"},
         UNCHANGED <<box, cloud, ca, fresh>>
  PROVE  Inv'
  <1>1. Fits([call EXCEPT ![k] = c])
    <2>1. UpToDate(c)
      BY DEF UpToDate
    <2>2. QED
      BY <2>1, FitsOne
  <1>2. CallsKnown'
    BY <1>1, Untouched, Stays DEF Enter
  <1>3. QED
    BY <1>2, Untouched DEF Inv

LEMMA LeaveKeeps ==
  ASSUME Inv, NEW k \in Kernels, Leave(k), UNCHANGED <<box, cloud, ca, fresh>>
  PROVE  Inv'
  <1>1. Fits([call EXCEPT ![k] = None])
    BY FitsOne
  <1>2. CallsKnown'
    BY <1>1, Untouched, Stays DEF Leave
  <1>3. QED
    BY <1>2, Untouched DEF Inv

LEMMA IdleKnown ==
  ASSUME NEW t
  PROVE  Known([Idle EXCEPT !.op = "check", !.target = t])
  <1>1. [Idle EXCEPT !.op = "check", !.target = t]
           \in Frames("check", "none", <<>>, NoAddr, 0, FALSE, t)
    BY DEF Frames, Idle
  <1>2. \A c, o : c \in Frames("check", "none", <<>>, NoAddr, 0, FALSE, o) => Known(c)
    BY DEF Frames, Known
  <1>3. QED
    BY <1>1, <1>2

LEMMA CallStartKeeps ==
  ASSUME Inv, NEW k \in Kernels, NEW name \in DOMAIN Catalogue,
         NEW p \in {"default"} \cup DOMAIN Catalogue[name].profiles, CallStart(k, name, p)
  PROVE  Inv'
  <1> DEFINE c == [Idle EXCEPT !.op = "start", !.name = name, !.plan = Plan(name, p)]
  <1>1. Plan(name, p) \in Seq(Entries(name)) /\ Plan(name, p) # <<>>
    BY PlanKnown DEF CallStart
  <1>2. c \in Frames("start", name, Plan(name, p), NoAddr, 0, FALSE, None)
    BY DEF Frames, Idle
  <1>3. Enter(k, c) /\ UNCHANGED <<box, cloud, ca, fresh>>
    BY DEF CallStart
  <1> HIDE DEF c
  <1>4. Known(c) /\ c.op = "start"
    BY <1>1, <1>2 DEF Known, Frames
  <1>5. QED
    BY <1>3, <1>4, EnterKeeps

LEMMA CallTargetKeeps ==
  ASSUME Inv, NEW k \in Kernels, CallTarget(k)
  PROVE  Inv'
  <1>1. PICK t : Enter(k, [Idle EXCEPT !.op = "check", !.target = t])
    BY DEF CallTarget
  <1>2. UNCHANGED <<box, cloud, ca, fresh>>
    BY DEF CallTarget
  <1>3. Known([Idle EXCEPT !.op = "check", !.target = t])
    BY IdleKnown
  <1>4. [Idle EXCEPT !.op = "check", !.target = t].op = "check"
    BY DEF Idle
  <1>5. QED
    BY <1>1, <1>2, <1>3, <1>4, EnterKeeps

LEMMA RenderKeeps ==
  ASSUME Inv, NEW k \in Kernels, Render(k)
  PROVE  Inv'
  <1> DEFINE profile == Catalogue[call[k].name].profiles[Chosen(k)]
             c == [call[k] EXCEPT !.op = "launch", !.tidy = TRUE, !.up = Upstream(profile.forwards),
                                  !.leaf = ca]
  <1>1. Known(call[k]) /\ call[k].op = "start" /\ call = [j \in Kernels |-> call[j]]
    BY DEF Render, Inv, CallsKnown
  <1>2. call' = [call EXCEPT ![k] = c]
    BY <1>1 DEF Render
  <1> HIDE DEF profile
  <1>3. /\ c \in Frames("launch", call[k].name, call[k].plan, Upstream(profile.forwards), ca, TRUE,
                       call[k].target)
    BY <1>1 DEF Known, Frames
  <1> HIDE DEF c
  <1>10. /\ c.op = "launch" /\ c.tidy = TRUE /\ c.up = Upstream(profile.forwards) /\ c.leaf = ca
         /\ c.name = call[k].name /\ c.plan = call[k].plan /\ c.target = call[k].target
    BY <1>3 DEF Frames
  <1> USE DEF profile
  <1>4. Chosen(k) = Pick(c)
    BY <1>10 DEF Chosen, Entry, Pick
  <1>5. Known(c)
    <2>1. Pick(c) \in DOMAIN Catalogue[c.name].profiles /\ Catalogue[c.name].provider = "docker"
      BY <1>10, <1>4 DEF Render, HasProfile, Chosen
    <2>2. QED
      BY <1>1, <1>3, <1>10, <2>1, UpstreamIs DEF Known
  <1>6. UpToDate(c)
    BY <1>10, <1>4 DEF UpToDate
  <1>7. Fits([call EXCEPT ![k] = c])
    BY <1>10, <1>5, <1>6, FitsOne
  <1>8. CallsKnown'
    BY <1>2, <1>7, Untouched, Stays DEF Render
  <1>9. QED
    BY <1>8, Untouched DEF Inv, Render

(* The instance in turn, and the call when it is done with it.             *)
LEMMA InTurn ==
  ASSUME Inv, NEW k \in Kernels, call[k] # None, call[k].op \in {"start", "launch"}
  PROVE  /\ call[k].name \in DOMAIN Catalogue /\ Entry(k) \in Entries(call[k].name)
         /\ ServerOf(Entry(k).inst) = call[k].name
         /\ Catalogue[call[k].name].provider = "docker" => Entry(k).inst \in Instances
         /\ Catalogue[call[k].name].provider = "ec2" =>
               Entry(k).inst = call[k].name /\ Entry(k).inst \in ServersOf("ec2")
  <1>1. /\ call[k].name \in DOMAIN Catalogue
        /\ call[k].plan \in Seq(Entries(call[k].name)) /\ call[k].plan # <<>>
    BY DEF Inv, CallsKnown, Known
  <1>2. Entry(k) \in Entries(call[k].name)
    BY <1>1 DEF Entry
  <1>3. QED
    BY <1>1, <1>2, EntryKnown DEF ServersOf

LEMMA ProceedFits ==
  ASSUME Inv, NEW k \in Kernels, call[k] # None, call[k].op \in {"start", "launch"}
  PROVE  Fits(Proceed(k, call))
  <1> DEFINE rest == [call[k] EXCEPT !.op = "start", !.plan = Tail(call[k].plan), !.up = NoAddr,
                                     !.leaf = 0, !.tidy = FALSE]
             c == IF Len(call[k].plan) = 1 THEN None ELSE rest
  <1>1. Known(call[k])
    BY DEF Inv, CallsKnown
  <1>2. rest \in Frames("start", call[k].name, Tail(call[k].plan), NoAddr, 0, FALSE,
                       call[k].target)
    BY <1>1 DEF Known, Frames
  <1>3. /\ call[k].name \in DOMAIN Catalogue
        /\ call[k].plan \in Seq(Entries(call[k].name)) /\ call[k].plan # <<>>
    BY <1>1 DEF Known
  <1>4. Len(call[k].plan) # 1 => Tail(call[k].plan) \in Seq(Entries(call[k].name)) \ {<<>>}
    <2> DEFINE S == Entries(call[k].name)
    <2> HIDE DEF S
    <2>1. \A s \in Seq(S) : s # <<>> /\ Len(s) # 1 => Tail(s) \in Seq(S) /\ Len(Tail(s)) # 0
      OBVIOUS
    <2>2. QED
      BY <1>3, <2>1 DEF S
  <1>5. Proceed(k, call) = [call EXCEPT ![k] = c]
    BY DEF Proceed
  <1> HIDE DEF rest
  <1>6. c # None => c = rest /\ Known(rest) /\ UpToDate(rest)
    BY <1>2, <1>3, <1>4 DEF Known, UpToDate, Frames
  <1> HIDE DEF c
  <1>7. QED
    BY <1>5, <1>6, FitsOne

LEMMA Launched ==
  ASSUME Inv, NEW k \in Kernels, call[k] # None, call[k].op = "launch"
  PROVE  /\ Entry(k).inst \in Instances /\ ServerOf(Entry(k).inst) = call[k].name
         /\ Chosen(k) = Pick(call[k]) /\ Chosen(k) \in DOMAIN Catalogue[call[k].name].profiles
         /\ Entry(k).inst \in Pair => Chosen(k) = PairProfile(Entry(k).inst)
         /\ call[k].up \in Addrs \cup {NoAddr} /\ UpToDate(call[k])
         /\ Catalogue[call[k].name].provider = "docker"
  <1>1. Known(call[k]) /\ UpToDate(call[k])
    BY DEF Inv, CallsKnown
  <1>2. Chosen(k) = Pick(call[k])
    BY DEF Chosen, Pick, Entry
  <1>3. /\ Catalogue[call[k].name].provider = "docker" /\ call[k].up \in Addrs \cup {NoAddr}
        /\ Pick(call[k]) \in DOMAIN Catalogue[call[k].name].profiles
    BY <1>1 DEF Known
  <1>4. ASSUME Entry(k).inst \in Pair PROVE Chosen(k) = PairProfile(Entry(k).inst)
    <2>1. call[k].name = "lab-auth" /\ Entry(k) \in Entries("lab-auth")
      BY <1>4, InTurn, PairKnown
    <2>2. Entries("lab-auth") = {[inst |-> "lab-auth-do53", profile |-> "auth-do53"],
                                 [inst |-> "lab-auth-dot", profile |-> "auth-dot"]}
      BY PairAssumption, PairDeclared DEF Entries
    <2>3. Entry(k).profile = PairProfile(Entry(k).inst) /\ Entry(k).profile # "default"
      BY <2>1, <2>2 DEF PairProfile
    <2>4. QED
      BY <2>3 DEF Chosen, ProfileFor
  <1>5. QED
    BY <1>1, <1>2, <1>3, <1>4, InTurn

LEMMA FreshenKeeps ==
  ASSUME Inv, NEW k \in Kernels, call[k] # None, call[k].op = "launch",
         NEW i, i = Entry(k).inst, Freshen(k, i), \A j \in Instances \ {i} : box'[j] = box[j],
         PairSame, box'[i].profile = Chosen(k), box'[i].up = call[k].up
  PROVE  FreshKnown'
  <1>1. i \in Instances /\ ServerOf(i) = call[k].name /\ Chosen(k) = Pick(call[k])
    BY Launched
  <1>2. call[k].tidy => call[k].up = Upstream(Catalogue[ServerOf(i)].profiles[Chosen(k)].forwards)
    BY <1>1, Launched DEF UpToDate
  <1>3. \A tr : Upstream(tr)' = Upstream(tr)
    BY SameUpstream
  <1>4. fresh' \subseteq Instances \ Pair
    BY <1>1 DEF Inv, FreshKnown, Freshen
  <1>5. ASSUME NEW j \in fresh' PROVE box'[j].up = Upstream(ProfileOf(j).forwards)'
    <2>1. CASE j = i
      <3>1. call[k].tidy
        BY <2>1, <1>4 DEF Freshen
      <3>2. ProfileOf(i)' = Catalogue[ServerOf(i)].profiles[Chosen(k)]
        BY DEF ProfileOf
      <3>3. QED
        BY <1>2, <1>3, <2>1, <3>1, <3>2
    <2>2. CASE j # i
      <3>1. j \in fresh /\ box'[j] = box[j] /\ j \in Instances
        BY <2>2, <1>4 DEF Freshen
      <3>2. ProfileOf(j)' = ProfileOf(j)
        BY <3>1 DEF ProfileOf
      <3>3. QED
        BY <1>3, <3>1, <3>2 DEF Inv, FreshKnown
    <2>3. QED
      BY <2>1, <2>2
  <1>6. QED
    BY <1>4, <1>5 DEF FreshKnown

LEMMA ReuseKeeps ==
  ASSUME Inv, NEW k \in Kernels, Reuse(k)
  PROVE  Inv'
  <1>1. /\ call[k] # None /\ call[k].op = "launch" /\ call' = Proceed(k, call)
        /\ UNCHANGED <<box, cloud, ca>> /\ Unchanged(k, Entry(k).inst)
        /\ Freshen(k, Entry(k).inst)
    BY DEF Reuse
  <1>2. Fits(Proceed(k, call)) /\ PairSame
    BY <1>1, ProceedFits DEF PairSame
  <1>3. CallsKnown'
    BY <1>1, <1>2, Stays
  <1>4. FreshKnown'
    BY <1>1, <1>2, FreshenKeeps DEF Unchanged
  <1>5. BoxesKnown' /\ Unshared'
    BY <1>1, BoxesGo DEF Goes, Inv, BoxesKnown
  <1>6. QED
    BY <1>1, <1>3, <1>4, <1>5 DEF Inv

(* A container that is started gets an address nobody has.                 *)
LEMMA LeafIs ==
  ASSUME Inv, NEW k \in Kernels, NEW l \in LeafNow(k)
  PROVE  l \in 0 .. MaxCa
  BY BoundsAssumption DEF Inv, LeafNow

LEMMA BootedKeeps ==
  ASSUME Inv, NEW k \in Kernels, call[k] # None, call[k].op = "launch",
         NEW i, i = Entry(k).inst, NEW a \in Addrs \ Held([box EXCEPT ![i] = None]),
         NEW l \in LeafNow(k), NEW answers \in BOOLEAN,
         box' = [box EXCEPT ![i] = Booted(k, a, l, answers)]
  PROVE  BoxesKnown' /\ Unshared'
  <1>1. /\ i \in Instances /\ ServerOf(i) = call[k].name
        /\ Chosen(k) \in DOMAIN Catalogue[call[k].name].profiles
        /\ i \in Pair => Chosen(k) = PairProfile(i)
        /\ call[k].up \in Addrs \cup {NoAddr}
    BY Launched
  <1>2. PICK new : new = Booted(k, a, l, answers)
    OBVIOUS
  <1>3. /\ box = [j \in Instances |-> box[j]] /\ box' = [j \in Instances |-> box'[j]]
        /\ box'[i] = new /\ \A j \in Instances \ {i} : box'[j] = box[j]
    BY <1>1, <1>2 DEF Inv, BoxesKnown
  <1>4. \A j \in Instances \ {i} : Running(j) => box[j].addr # a
    <2> SUFFICES ASSUME NEW j \in Instances \ {i}, Running(j), box[j].addr = a PROVE FALSE
      OBVIOUS
    <2>1. [box EXCEPT ![i] = None][j] = box[j] /\ box[j] # None
      BY <1>3 DEF Running
    <2>2. box[j].addr \in Held([box EXCEPT ![i] = None])
      BY <2>1 DEF Held
    <2>3. QED
      BY <2>2
  <1>5. new \in Boxes /\ new.profile = Chosen(k) /\ new.addr = a
    <2>1. ca \in 0 .. MaxCa /\ 0 \in 0 .. MaxCa /\ l \in 0 .. MaxCa
      BY BoundsAssumption, LeafIs DEF Inv
    <2>2. (IF Catalogue[call[k].name].validates THEN ca ELSE 0) \in 0 .. MaxCa
      BY <2>1
    <2>3. QED
      BY <1>1, <1>2, <2>1, <2>2, ServerIsDocker DEF Booted, Boxes
  <1>6. BoxesKnown'
    <2>1. ASSUME NEW j \in Instances PROVE BoxKnown(j)'
      BY <1>1, <1>3, <1>5 DEF BoxKnown, Inv, BoxesKnown
    <2>2. QED
      BY <1>3, <2>1 DEF BoxesKnown
  <1>7. Unshared'
    <2> SUFFICES ASSUME NEW m \in Instances, NEW j \in Instances, Running(m)', Running(j)',
                        box'[m].addr = box'[j].addr
                 PROVE  m = j
      BY DEF Unshared
    <2>1. QED
      BY <1>3, <1>4, <1>5 DEF Inv, Unshared, Running
  <1>8. QED
    BY <1>6, <1>7

LEMMA ReplaceKeeps ==
  ASSUME Inv, NEW k \in Kernels, Replace(k)
  PROVE  Inv'
  <1> DEFINE i == Entry(k).inst
  <1>1. call[k] # None /\ call[k].op = "launch" /\ UNCHANGED <<cloud, ca>>
    BY DEF Replace
  <1>2. PICK a \in Addrs \ Held([box EXCEPT ![i] = None]), l \in LeafNow(k), answers \in BOOLEAN :
           /\ box' = [box EXCEPT ![i] = Booted(k, a, l, answers)]
           /\ IF i \in Pair THEN fresh' = {} /\ call' = Restale(Proceed(k, call))
              ELSE Freshen(k, i) /\ call' = Proceed(k, call)
    BY DEF Replace
  <1>3. i \in Instances /\ Fits(Proceed(k, call))
    BY <1>1, Launched, ProceedFits
  <1>4. BoxesKnown' /\ Unshared'
    BY <1>1, <1>2, BootedKeeps
  <1>5. /\ box'[i] = Booted(k, a, l, answers) /\ \A j \in Instances \ {i} : box'[j] = box[j]
    BY <1>2, <1>3 DEF Inv, BoxesKnown
  <1>6. CASE i \in Pair
    BY <1>1, <1>2, <1>3, <1>4, <1>6, Restaled DEF Inv, FreshKnown
  <1>7. CASE i \notin Pair
    <2>1. PairSame
      BY <1>5, <1>7, PairKnown DEF PairSame
    <2>2. CallsKnown'
      BY <1>2, <1>3, <1>7, <2>1, Stays
    <2>3. FreshKnown'
      <3>1. box'[i].profile = Chosen(k) /\ box'[i].up = call[k].up
        BY <1>5 DEF Booted
      <3>2. QED
        BY <1>1, <1>2, <1>5, <1>7, <2>1, <3>1, FreshenKeeps
    <2>4. QED
      BY <1>1, <1>4, <2>2, <2>3 DEF Inv
  <1>8. QED
    BY <1>6, <1>7

LEMMA LaunchFailsKeeps ==
  ASSUME Inv, NEW k \in Kernels, LaunchFails(k)
  PROVE  Inv'
  <1>1. call[k] # None /\ call[k].op = "launch" /\ UNCHANGED <<cloud, ca>>
    BY DEF LaunchFails
  <1>2. PICK i : i = Entry(k).inst
    OBVIOUS
  <1>3. PICK b : /\ box' = [box EXCEPT ![i] = b]
                 /\ \/ b \in {None, Exited(Chosen(k))}
                    \/ \E a \in Addrs \ Held([box EXCEPT ![i] = None]), l \in LeafNow(k) :
                          b = Booted(k, a, l, FALSE)
    BY <1>2 DEF LaunchFails
  <1>4. /\ fresh' = IF i \in Pair THEN {} ELSE fresh \ {i}
        /\ IF i \in Pair THEN call' = Restale([call EXCEPT ![k] = None]) ELSE Leave(k)
    BY <1>2 DEF LaunchFails
  <1>5. /\ i \in Instances /\ Chosen(k) \in DOMAIN Catalogue[ServerOf(i)].profiles
        /\ i \in Pair => Chosen(k) = PairProfile(i)
    BY <1>1, <1>2, Launched
  <1>6. /\ box' = [j \in Instances |-> box'[j]] /\ box'[i] = b
        /\ \A j \in Instances \ {i} : box'[j] = box[j]
    BY <1>3, <1>5 DEF Inv, BoxesKnown
  <1>7. BoxesKnown' /\ Unshared'
    <2>1. CASE b \in {None, Exited(Chosen(k))}
      <3>1. \A j \in Instances : Goes(j)
        BY <1>5, <1>6, <2>1 DEF Goes
      <3>2. QED
        BY <1>6, <3>1, BoxesGo
    <2>2. CASE \E a \in Addrs \ Held([box EXCEPT ![i] = None]), l \in LeafNow(k) :
                  b = Booted(k, a, l, FALSE)
      BY <1>1, <1>2, <1>3, <2>2, BootedKeeps
    <2>3. QED
      BY <1>3, <2>1, <2>2
  <1>8. Fits([call EXCEPT ![k] = None])
    BY FitsOne
  <1>9. i \notin Pair => PairSame
    BY <1>6, PairKnown DEF PairSame
  <1>10. CallsKnown'
    BY <1>4, <1>8, <1>9, Stays, Restaled DEF Leave
  <1>11. FreshKnown'
    <2>1. fresh' \subseteq fresh /\ fresh' \subseteq Instances /\ i \notin fresh'
      BY <1>4 DEF Inv, FreshKnown
    <2>2. fresh' # {} => PairSame
      BY <1>4, <1>9
    <2>3. QED
      BY <1>6, <2>1, <2>2, FreshStays
  <1>12. QED
    BY <1>1, <1>7, <1>10, <1>11 DEF Inv

LEMMA RegenKeeps ==
  ASSUME Inv, NEW k \in Kernels, Regen(k)
  PROVE  Inv'
  <1>1. ca' \in 1 .. MaxCa
    BY BoundsAssumption DEF Regen, Inv
  <1>2. CallsKnown'
    BY FitsSame, Untouched, Stays DEF Regen
  <1>3. QED
    BY <1>1, <1>2, Untouched DEF Inv, Regen

LEMMA StartCloudKeeps ==
  ASSUME Inv, NEW k \in Kernels, StartCloud(k)
  PROVE  Inv'
  <1>1. Entry(k).inst \in ServersOf("ec2")
    BY InTurn DEF StartCloud
  <1>2. Fits(Proceed(k, call))
    BY ProceedFits DEF StartCloud
  <1>3. CallsKnown'
    BY <1>2, Untouched, Stays DEF StartCloud
  <1>4. QED
    BY <1>1, <1>3, Untouched DEF Inv, StartCloud

(* Containers that are removed, and the calls that this makes stale.       *)
LEMMA RemovedKeeps ==
  ASSUME Inv, NEW which, NEW calls, Removed(which \cap Instances), Fits(calls),
         call' = Touch(which, calls), cloud' \subseteq cloud, UNCHANGED ca
  PROVE  Inv'
  <1>1. /\ box' = [i \in Instances |-> box'[i]]
        /\ \A i \in Instances : box'[i] = IF i \in which THEN None ELSE box[i]
    BY DEF Removed
  <1>2. fresh' = IF which \cap Pair # {} THEN {} ELSE fresh \ which
    BY PairKnown DEF Removed, Inv, FreshKnown
  <1>3. BoxesKnown' /\ Unshared'
    BY <1>1, BoxesGo DEF Goes
  <1>4. which \cap Pair = {} => PairSame
    BY <1>1, PairKnown DEF PairSame
  <1>5. CallsKnown'
    BY <1>4, Stays, Restaled DEF Touch
  <1>6. FreshKnown'
    <2>1. fresh' \subseteq fresh /\ fresh' \subseteq Instances /\ fresh' \cap which = {}
      BY <1>2 DEF Inv, FreshKnown
    <2>2. QED
      BY <1>1, <1>2, <1>4, <2>1, FreshStays
  <1>7. QED
    BY <1>3, <1>5, <1>6 DEF Inv

LEMMA StopKeeps ==
  ASSUME Inv, NEW k \in Kernels, Stop(k)
  PROVE  Inv'
  <1>1. PICK n : /\ Removed({n} \cap Instances) /\ cloud' = cloud \ {n} /\ UNCHANGED ca
                 /\ call' = Touch({n}, call)
    BY DEF Stop
  <1>2. Fits(call)
    BY FitsSame
  <1>3. QED
    BY <1>1, <1>2, RemovedKeeps

LEMMA ExitsKeeps ==
  ASSUME Inv, NEW i \in Instances, Exits(i)
  PROVE  Inv'
  <1>1. box' = [box EXCEPT ![i] = Exited(box[i].profile)] /\ box[i] # None
    BY DEF Exits, Running
  <1>2. /\ IF i \in Pair THEN fresh' = {} /\ call' = Restale(call)
           ELSE fresh' = fresh \ {i} /\ UNCHANGED call
        /\ UNCHANGED <<cloud, ca>>
    BY DEF Exits
  <1>3. /\ box' = [j \in Instances |-> box'[j]] /\ box'[i] = Exited(box[i].profile)
        /\ \A j \in Instances \ {i} : box'[j] = box[j]
    BY <1>1 DEF Inv, BoxesKnown
  <1>4. BoxesKnown' /\ Unshared'
    <2>1. \A j \in Instances : Goes(j)
      BY <1>1, <1>3 DEF Goes, Inv, BoxesKnown, BoxKnown
    <2>2. QED
      BY <1>3, <2>1, BoxesGo
  <1>5. i \notin Pair => PairSame
    BY <1>3, PairKnown DEF PairSame
  <1>6. CallsKnown'
    BY <1>2, <1>5, FitsSame, Stays, Restaled
  <1>7. FreshKnown'
    <2>1. fresh' \subseteq fresh /\ fresh' \subseteq Instances /\ i \notin fresh'
      BY <1>2 DEF Inv, FreshKnown
    <2>2. QED
      BY <1>2, <1>3, <1>5, <2>1, FreshStays
  <1>8. QED
    BY <1>2, <1>4, <1>6, <1>7 DEF Inv

(* A server that hangs, or no longer does, keeps its address.              *)
LEMMA TurnsKeeps ==
  ASSUME Inv, NEW i \in Instances, Turns(i)
  PROVE  Inv'
  <1>1. PICK b : b = [box[i] EXCEPT !.answers = ~box[i].answers]
    OBVIOUS
  <1>2. /\ box' = [box EXCEPT ![i] = b] /\ box[i] # None /\ UNCHANGED <<cloud, ca, call, fresh>>
    BY <1>1 DEF Turns, Running
  <1>3. /\ box' = [j \in Instances |-> box'[j]] /\ box'[i] = b
        /\ \A j \in Instances \ {i} : box'[j] = box[j]
    BY <1>2 DEF Inv, BoxesKnown
  <1>4. box[i] \in Boxes
    BY <1>2 DEF Inv, BoxesKnown, BoxKnown
  <1>5. /\ b \in Boxes /\ b.profile = box[i].profile /\ b.addr = box[i].addr /\ b.up = box[i].up
    BY <1>1, <1>4 DEF Boxes
  <1>6. b # None
    BY <1>5, BoundsAssumption
  <1>7. PairSame
    BY <1>2, <1>3, <1>5, <1>6, PairKnown DEF PairSame
  <1>8. BoxesKnown'
    <2>1. ASSUME NEW j \in Instances PROVE BoxKnown(j)'
      BY <1>2, <1>3, <1>5 DEF BoxKnown, Inv, BoxesKnown
    <2>2. QED
      BY <1>3, <2>1 DEF BoxesKnown
  <1>9. Unshared'
    BY <1>2, <1>3, <1>5 DEF Inv, Unshared, Running
  <1>10. CallsKnown'
    BY <1>2, <1>7, FitsSame, Stays
  <1>11. FreshKnown'
    <2>1. \A tr : Upstream(tr)' = Upstream(tr)
      BY <1>7, SameUpstream
    <2>2. \A j \in Instances : box'[j].up = box[j].up /\ box'[j].profile = box[j].profile
      BY <1>3, <1>5
    <2>3. QED
      BY <1>2, <2>1, <2>2 DEF Inv, FreshKnown, ProfileOf
  <1>12. QED
    BY <1>2, <1>8, <1>9, <1>10, <1>11 DEF Inv

LEMMA InvNext == Inv /\ [Next]_vars => Inv'
  <1> SUFFICES ASSUME Inv, [Next]_vars PROVE Inv'
    OBVIOUS
  <1>1. CASE UNCHANGED vars
    <2>1. CallsKnown'
      BY <1>1, FitsSame, Untouched, Stays DEF vars
    <2>2. QED
      BY <1>1, <2>1, Untouched DEF Inv, vars
  <1>2. ASSUME NEW k \in Kernels, StartRaises(k) \/ Check(k) \/ Query(k) \/ CheckRaises(k)
        PROVE  Inv'
    BY <1>2, LeaveKeeps DEF StartRaises, Check, Query, CheckRaises
  <1>3. QED
    BY <1>1, <1>2, CallStartKeeps, CallTargetKeeps, RenderKeeps, ReuseKeeps, ReplaceKeeps,
       LaunchFailsKeeps, RegenKeeps, StartCloudKeeps, StopKeeps, ExitsKeeps, TurnsKeeps
       DEF Next

(* Containers, calls and freshness keep their types, and no two running    *)
(* containers have one address, whatever is replaced, exits or raises half *)
(* way.                                                                    *)
THEOREM LabTypes == Spec => []TypeOK
  BY InvInit, InvNext, InvTypes, PTL DEF Spec

-----------------------------------------------------------------------------
(* What queries come back with.                                            *)
LEMMA SoleOwner ==
  ASSUME Inv, NEW q \in Queries, NEW i \in Instances, Running(i), box[i].addr = q.ip,
         Accepts(i, q.tr, q.by)
  PROVE  \A got : Answers(got)[q] = Says(i, got)
  <1>1. Owners(q) = {i}
    BY DEF Inv, Unshared, Owners
  <1>2. (CHOOSE j \in Owners(q) : TRUE) = i
    BY <1>1
  <1>3. QED
    BY <1>1, <1>2 DEF Answers

LEMMA OwnerSays ==
  ASSUME NEW q \in Queries, NEW got
  PROVE  \/ Answers(got)[q] = "error"
         \/ \E i \in Owners(q) : Answers(got)[q] = Says(i, got)
  BY DEF Answers

LEMMA Upstreams ==
  ASSUME Inv, NEW i \in Instances, Running(i), ProfileOf(i).forwards \in Transports
  PROVE  Forwarded(i) \in Queries
  <1>1. box[i].up \in Addrs \cup {NoAddr}
    BY DEF Inv, BoxesKnown, BoxKnown, Boxes, Running
  <1>2. AsClient(i) \in Clients
    <2>1. box[i].trusts \in 0 .. MaxCa /\ 0 \in 0 .. MaxCa
      BY BoundsAssumption DEF Inv, BoxesKnown, BoxKnown, Boxes, Running
    <2>2. "lab-auth-dot" \in Instances
      BY PairKnown DEF Pair
    <2>3. QED
      BY <2>1, <2>2 DEF AsClient, Anybody, Client, Clients
  <1>3. QED
    BY <1>1, <1>2 DEF Forwarded, Queries

LEMMA DockerListeners ==
  ASSUME NEW spec, spec.provider = "docker", NEW p \in DOMAIN spec.profiles
  PROVE  ListenersOf(spec, p) = spec.profiles[p].listeners
  <1>1. spec.provider # "external"
    OBVIOUS
  <1>2. QED
    BY <1>1 DEF ListenersOf

(* The profile that a container runs is one of a docker server.            *)
LEMMA ProfileIs ==
  ASSUME Inv, NEW i \in Instances, Running(i)
  PROVE  /\ ServerOf(i) \in ServersOf("docker") /\ ServerOf(i) \in DOMAIN Catalogue
         /\ Catalogue[ServerOf(i)].provider = "docker"
         /\ box[i].profile \in DOMAIN Catalogue[ServerOf(i)].profiles
         /\ ProfileOf(i) = Catalogue[ServerOf(i)].profiles[box[i].profile]
         /\ ListenersOf(Catalogue[ServerOf(i)], box[i].profile) = ProfileOf(i).listeners
         /\ ProfileOf(i).serves \in Transports \cup {"nothing"}
         /\ ProfileOf(i).serves = "dot" => ProfileOf(i).listeners = {"dot"}
  <1>1. /\ ServerOf(i) \in ServersOf("docker") /\ ServerOf(i) \in DOMAIN Catalogue
        /\ Catalogue[ServerOf(i)].provider = "docker"
    BY ServerIsDocker DEF ServersOf
  <1>2. box[i].profile \in DOMAIN Catalogue[ServerOf(i)].profiles
    BY DEF Inv, BoxesKnown, BoxKnown, Running
  <1> DEFINE profile == Catalogue[ServerOf(i)].profiles[box[i].profile]
  <1>3. /\ profile.serves \in Transports \cup {"nothing"}
        /\ profile.serves = "dot" => profile.listeners = {"dot"}
    BY <1>1, <1>2, ProfilesAssumption
  <1>4. ListenersOf(Catalogue[ServerOf(i)], box[i].profile) = profile.listeners
    BY <1>1, <1>2, DockerListeners
  <1>5. ProfileOf(i) = profile
    BY DEF ProfileOf
  <1> HIDE DEF profile
  <1>6. QED
    BY <1>1, <1>2, <1>3, <1>4, <1>5 DEF profile

Markers == {"error", "none"} \cup Transports

LEMMA AnswersType ==
  ASSUME Inv, NEW got \in [Queries -> Markers]
  PROVE  Answers(got) \in [Queries -> Markers]
  <1>1. ASSUME NEW q \in Queries PROVE Answers(got)[q] \in Markers
    <2>1. ASSUME NEW i \in Owners(q) PROVE Says(i, got) \in Markers
      <3>1. i \in Instances /\ Running(i)
        BY <2>1 DEF Owners
      <3>2. ProfileOf(i).serves \in Transports \cup {"nothing"}
        BY <3>1, ProfileIs
      <3>3. ProfileOf(i).forwards \in Transports => got[Forwarded(i)] \in Markers
        BY <3>1, Upstreams
      <3>4. QED
        BY <3>2, <3>3 DEF Says, Markers
    <2>2. QED
      BY <2>1, OwnerSays DEF Markers
  <1>2. Answers(got) = [q \in Queries |-> Answers(got)[q]]
    BY DEF Answers
  <1>3. QED
    BY <1>1, <1>2

LEMMA MarkerIs ==
  ASSUME Inv
  PROVE  /\ Marker[0] = Answers(Silence)
         /\ \A n \in 1 .. Depth : Marker[n] = Answers(Marker[n - 1])
  <1> DEFINE V == [Queries -> Markers]
             G == [n \in 1 .. Depth |-> [got \in V |-> Answers(got)]]
             first == Answers(Silence)
  <1>1. first \in V
    BY AnswersType DEF Silence, Markers
  <1>2. /\ G \in [1 .. Depth -> [V -> V]]
        /\ \A n \in 1 .. Depth : \A got \in V : G[n][got] = Answers(got)
    BY AnswersType
  <1>3. Depth \in Nat
    BY BoundsAssumption
  <1> HIDE DEF V, G, first
  <1>4. PICK f : Iterates(f, V, first, Depth, G)
    BY <1>1, <1>2, <1>3, Recursion
  <1>5. /\ f \in [0 .. Depth -> V] /\ f[0] = first
        /\ \A n \in 1 .. Depth : f[n] = Answers(f[n - 1])
    <2>1. f \in [0 .. Depth -> V] /\ f[0] = first /\ \A n \in 1 .. Depth : f[n] = G[n][f[n - 1]]
      BY <1>4 DEF Iterates
    <2>2. \A n \in 1 .. Depth : f[n - 1] \in V
      BY <1>3, <2>1
    <2>3. QED
      BY <1>2, <2>1, <2>2
  <1>6. f = [n \in 0 .. Depth |-> Answers(IF n = 0 THEN Silence ELSE f[n - 1])]
    <2>1. \A n \in 0 .. Depth : f[n] = Answers(IF n = 0 THEN Silence ELSE f[n - 1])
      BY <1>3, <1>5 DEF first
    <2>2. QED
      BY <1>5, <2>1
  <1>7. Marker = [n \in 0 .. Depth |-> Answers(IF n = 0 THEN Silence ELSE Marker[n - 1])]
    BY <1>6 DEF Marker
  <1>8. QED
    BY <1>3, <1>7

(* Each round of answers is made of some round before it.                  *)
LEMMA MarkerAnswers ==
  ASSUME Inv, NEW n \in 0 .. Depth
  PROVE  \E got : Marker[n] = Answers(got)
  <1>1. n = 0 \/ n \in 1 .. Depth
    BY BoundsAssumption
  <1>2. QED
    BY <1>1, MarkerIs

-----------------------------------------------------------------------------
(* The DoT marker comes from a server that has it and speaks TLS alone.    *)
DotServer ==
    \E i \in Instances : Running(i) /\ ProfileOf(i).serves = "dot"
                                    /\ ProfileOf(i).listeners = {"dot"}

Sourced == {got \in [Queries -> Markers] : \A q \in Queries : got[q] = "dot" => DotServer}

LEMMA AnswersSourced ==
  ASSUME Inv, NEW got \in Sourced
  PROVE  Answers(got) \in Sourced
  <1>1. got \in [Queries -> Markers] /\ \A q \in Queries : got[q] = "dot" => DotServer
    BY DEF Sourced
  <1>2. ASSUME NEW q \in Queries, Answers(got)[q] = "dot" PROVE DotServer
    <2>1. PICK i \in Owners(q) : Answers(got)[q] = Says(i, got)
      BY <1>2, OwnerSays
    <2>2. i \in Instances /\ Running(i)
      BY DEF Owners
    <2>3. CASE ProfileOf(i).serves # "nothing"
      <3>1. ProfileOf(i).serves = "dot"
        BY <1>2, <2>1, <2>3 DEF Says
      <3>2. ProfileOf(i).listeners = {"dot"}
        BY <2>2, <3>1, ProfileIs
      <3>3. QED
        BY <2>2, <3>1, <3>2 DEF DotServer
    <2>4. CASE ProfileOf(i).serves = "nothing"
      <3>1. ProfileOf(i).forwards \in Transports /\ got[Forwarded(i)] = "dot"
        BY <1>2, <2>1, <2>4 DEF Says
      <3>2. QED
        BY <1>1, <2>2, <3>1, Upstreams
    <2>5. QED
      BY <2>3, <2>4
  <1>3. Answers(got) \in [Queries -> Markers]
    BY <1>1, AnswersType
  <1>4. QED
    BY <1>2, <1>3 DEF Sourced

LEMMA DotServed ==
  ASSUME Inv, NEW q \in Queries, Marker[Depth][q] = "dot"
  PROVE  DotServer
  <1>1. Silence \in Sourced
    BY DEF Silence, Sourced, Markers
  <1>2. Marker[0] \in Sourced
    BY <1>1, MarkerIs, AnswersSourced
  <1>3. \A n \in 1 .. Depth : Marker[n - 1] \in Sourced => Marker[n] \in Sourced
    BY MarkerIs, AnswersSourced
  <1>4. Depth \in Nat /\ Depth \in 0 .. Depth
    BY BoundsAssumption
  <1> DEFINE V == Sourced
             h == Marker
  <1>5. h[0] \in V /\ \A n \in 1 .. Depth : h[n - 1] \in V => h[n] \in V
    BY <1>2, <1>3
  <1> HIDE DEF V, h
  <1>6. \A n \in 0 .. Depth : h[n] \in V
    BY <1>4, <1>5, Reaches
  <1>7. Marker[Depth] \in Sourced
    BY <1>4, <1>6 DEF V, h
  <1>8. QED
    BY <1>7 DEF Sourced

-----------------------------------------------------------------------------
(* What a running container is asked, and what it says.                    *)
LEMMA TargetIs ==
  ASSUME Inv, NEW i \in Instances, Running(i)
  PROVE  LET t == BoxTarget(i) IN
         /\ t.name = i /\ t.ip = box[i].addr /\ t.provider = "docker"
         /\ t.profile = box[i].profile /\ t.flags = Catalogue[ServerOf(i)].flags
         /\ t.roles = Catalogue[ServerOf(i)].roles
         /\ t.ports = ProfileOf(i).listeners /\ t.ports \subseteq Transports
         /\ Preferred(t) \in t.ports
  <1> DEFINE t == BoxTarget(i)
             spec == Catalogue[ServerOf(i)]
             ports == ListenersOf(spec, box[i].profile) \cap CanListen(spec)
  <1>1. t = [name |-> i, ip |-> box[i].addr, provider |-> spec.provider,
             profile |-> box[i].profile, ports |-> ports, roles |-> spec.roles,
             flags |-> spec.flags]
    BY DEF BoxTarget, Target
  <1>2. ProfileOf(i).listeners # {} /\ ProfileOf(i).listeners \subseteq CanListen(spec)
    <2>1. /\ ServerOf(i) \in ServersOf("docker")
          /\ box[i].profile \in DOMAIN Catalogue[ServerOf(i)].profiles
          /\ ProfileOf(i) = Catalogue[ServerOf(i)].profiles[box[i].profile]
      BY ProfileIs
    <2>2. QED
      BY <2>1, ProfilesAssumption
  <1>3. ports = ProfileOf(i).listeners
    BY <1>2, ProfileIs
  <1>4. CanListen(spec) \subseteq {"do53", "dot"}
    BY DEF CanListen
  <1>5. spec.provider = "docker"
    BY ProfileIs
  <1> HIDE DEF t, ports
  <1>6. /\ t.name = i /\ t.ip = box[i].addr /\ t.provider = "docker"
        /\ t.profile = box[i].profile /\ t.flags = spec.flags
        /\ t.roles = spec.roles /\ t.ports = ProfileOf(i).listeners
    BY <1>1, <1>3, <1>5
  <1>7. t.ports \subseteq {"do53", "dot"} /\ t.ports # {}
    BY <1>2, <1>4, <1>6
  <1>8. Preferred(t) \in t.ports
    BY <1>7 DEF Preferred
  <1>9. QED
    BY <1>6, <1>7, <1>8 DEF t, Transports

Question(i, tr) == [ip |-> box[i].addr, tr |-> tr, by |-> Client(i, ca)]

LEMMA Asked ==
  ASSUME Inv, NEW i \in Instances, Running(i), NEW tr \in Transports
  PROVE  Question(i, tr) \in Queries
  <1>1. box[i].addr \in Addrs \cup {NoAddr}
    BY DEF Inv, BoxesKnown, BoxKnown, Boxes, Running
  <1>2. ca \in 0 .. MaxCa
    BY BoundsAssumption DEF Inv
  <1>3. Client(i, ca) \in Clients
    BY <1>2 DEF Client, Clients
  <1>4. QED
    BY <1>1, <1>3 DEF Question, Queries

(* If anybody answers it is the container, as nobody has its address.      *)
LEMMA Answered ==
  ASSUME Inv, NEW i \in Instances, Running(i), NEW tr \in Transports
  PROVE  LET m == Marker[Depth][Question(i, tr)]
         IN /\ m # "error" => m = Says(i, Marker[Depth - 1])
            /\ Accepts(i, tr, Client(i, ca)) => m = Says(i, Marker[Depth - 1])
  <1> DEFINE q == Question(i, tr)
             got == Marker[Depth - 1]
  <1>1. q \in Queries
    BY Asked
  <1>2. q.ip = box[i].addr /\ q.tr = tr /\ q.by = Client(i, ca)
    BY DEF Question
  <1>3. Marker[Depth] = Answers(got)
    BY MarkerIs, BoundsAssumption
  <1> HIDE DEF q, got
  <1>4. Owners(q) \subseteq {i}
    BY <1>2 DEF Inv, Unshared, Owners
  <1>5. Answers(got)[q] # "error" => Answers(got)[q] = Says(i, got)
    BY <1>1, <1>4, OwnerSays
  <1>6. Accepts(i, tr, Client(i, ca)) => Answers(got)[q] = Says(i, got)
    BY <1>1, <1>2, SoleOwner
  <1>7. QED
    BY <1>3, <1>5, <1>6 DEF q, got

(* What a container says to the questions of the checks.                   *)
LEMMA ReplyIs ==
  ASSUME Inv, NEW i \in Instances, Running(i), NEW tr \in Transports
  PROVE  LET m == Marker[Depth][Question(i, tr)]
             reply == LabReply(BoxTarget(i))
         IN /\ reply[<<"marker", tr>>] = m
            /\ m \notin {"error", "none"} => reply[<<"soa", tr>>] = "data"
  <1> DEFINE t == BoxTarget(i)
             m == Marker[Depth][Question(i, tr)]
  <1>1. t.name = i /\ t.ip = box[i].addr
    BY TargetIs
  <1> HIDE DEF t
  <1>2. /\ <<"marker", tr>> \in Questions \X Transports
        /\ <<"soa", tr>> \in Questions \X Transports
    BY DEF Questions
  <1>3. Question(i, tr) = [ip |-> t.ip, tr |-> tr, by |-> Client(t.name, ca)]
    BY <1>1 DEF Question
  <1>4. LabReply(t)[<<"marker", tr>>] = m
    BY <1>2, <1>3 DEF LabReply
  <1>5. m \notin {"error", "none"} => LabReply(t)[<<"soa", tr>>] = "data"
    BY <1>2, <1>3 DEF LabReply
  <1>6. QED
    BY <1>4, <1>5 DEF t

-----------------------------------------------------------------------------
(* The rows of a matrix.                                                   *)
LEMMA RowFrom ==
  ASSUME Next, NEW k \in Kernels, row'[k] # None
  PROVE  Check(k) \/ Query(k)
  <1>1. NoRow[k] = None
    BY DEF NoRow
  <1>2. row' # NoRow
    BY <1>1
  <1>3. PICK j \in Kernels : Check(j) \/ Query(j)
    <2>1. ASSUME NEW j, NEW c, Enter(j, c) PROVE FALSE
      BY <1>2, <2>1 DEF Enter
    <2>2. ASSUME NEW j, Render(j) \/ Reuse(j) \/ Replace(j) PROVE FALSE
      BY <1>2, <2>2 DEF Render, Reuse, Replace
    <2>3. ASSUME NEW j, LaunchFails(j) PROVE FALSE
      BY <1>2, <2>3, Zenon DEF LaunchFails
    <2>4. QED
      BY <1>2, <2>1, <2>2, <2>3 DEF Next, CallStart, CallTarget, StartRaises, Regen, StartCloud, Stop,
         CheckRaises, Exits, Turns
  <1>4. \E r : row' = [NoRow EXCEPT ![j] = r]
    BY <1>3 DEF Check, Query, Show
  <1>5. k = j
    BY <1>1, <1>4 DEF NoRow
  <1>6. QED
    BY <1>3, <1>5

(* The row of a container that is as it was found.                         *)
RowOf(i, r, kdigFails) ==
    LET t == BoxTarget(i)
        reply == LabReply(t)
    IN \/ r = [matrix |-> "checks", cells |-> RunChecks(t, reply, kdigFails),
               kdigFailed |-> kdigFails]
       \/ r = [matrix |-> "queries", cells |-> RunQueryMatrix(t, {"soa", "marker"}, reply),
               kdigFailed |-> FALSE]

LEMMA CellsOf ==
  ASSUME NEW i, NEW r, NEW b, RowOf(i, r, b)
  PROVE  LET t == BoxTarget(i)
             reply == LabReply(t)
         IN /\ r.matrix = "checks" => r.cells = RunChecks(t, reply, b)
            /\ \/ r.cells = RunChecks(t, reply, b) /\ r.kdigFailed = b
               \/ r.cells = RunQueryMatrix(t, {"soa", "marker"}, reply)
  <1> DEFINE t == BoxTarget(i)
             checks == RunChecks(t, LabReply(t), b)
             queries == RunQueryMatrix(t, {"soa", "marker"}, LabReply(t))
  <1>1. \/ r = [matrix |-> "checks", cells |-> checks, kdigFailed |-> b]
        \/ r = [matrix |-> "queries", cells |-> queries, kdigFailed |-> FALSE]
    BY DEF RowOf
  <1> HIDE DEF checks, queries
  <1>2. /\ r.matrix = "checks" => r.cells = checks
        /\ (r.cells = checks /\ r.kdigFailed = b) \/ r.cells = queries
    BY <1>1
  <1>3. QED
    BY <1>2 DEF checks, queries

LEMMA RowIs ==
  ASSUME Inv, NEW k \in Kernels, Check(k) \/ Query(k), StillTrue(call[k].target)
  PROVE  \E i \in Instances, b \in BOOLEAN :
            Running(i) /\ call[k].target.name = i /\ RowOf(i, row'[k], b)
  <1>1. PICK i \in Instances : i = call[k].target.name /\ Running(i) /\ BoxTarget(i) = call[k].target
    BY DEF StillTrue
  <1> DEFINE t == BoxTarget(i)
  <1>2. t.provider = "docker"
    BY <1>1, TargetIs
  <1>3. RepliesOf(t) = {LabReply(t)}
    BY <1>2 DEF RepliesOf
  <1>4. call[k].target = t
    BY <1>1
  <1> HIDE DEF t
  <1>5. \E b \in BOOLEAN :
           \/ Show(k, "checks", RunChecks(t, LabReply(t), b), b)
           \/ Show(k, "queries", RunQueryMatrix(t, {"soa", "marker"}, LabReply(t)), FALSE)
    BY <1>3, <1>4 DEF Check, Query
  <1>6. PICK b \in BOOLEAN :
           \/ Show(k, "checks", RunChecks(t, LabReply(t), b), b)
           \/ Show(k, "queries", RunQueryMatrix(t, {"soa", "marker"}, LabReply(t)), FALSE)
    BY <1>5
  <1>7. \/ row'[k] = [matrix |-> "checks", cells |-> RunChecks(t, LabReply(t), b), kdigFailed |-> b]
        \/ row'[k] = [matrix |-> "queries",
                      cells |-> RunQueryMatrix(t, {"soa", "marker"}, LabReply(t)),
                      kdigFailed |-> FALSE]
    BY <1>6 DEF Show, NoRow
  <1>8. RowOf(i, row'[k], b)
    BY <1>7 DEF t, RowOf
  <1>9. QED
    BY <1>1, <1>8

(* A profile that the checks expect to forward over TLS.                   *)
LEMMA DotForwards ==
  ASSUME Inv, NEW i \in Instances, Running(i), Forwards(BoxTarget(i)),
         DotProfile(BoxTarget(i).profile)
  PROVE  ProfileOf(i).serves = "nothing" /\ ProfileOf(i).forwards \in {"dot", "public"}
  <1>1. /\ BoxTarget(i).profile = box[i].profile
        /\ BoxTarget(i).roles = Catalogue[ServerOf(i)].roles
    BY TargetIs
  <1>2. Forwards(Catalogue[ServerOf(i)]) /\ DotProfile(box[i].profile)
    BY <1>1 DEF Forwards
  <1>3. /\ ServerOf(i) \in ServersOf("docker")
        /\ box[i].profile \in DOMAIN Catalogue[ServerOf(i)].profiles
        /\ ProfileOf(i) = Catalogue[ServerOf(i)].profiles[box[i].profile]
    BY ProfileIs
  <1>4. QED
    BY <1>2, <1>3, ProfilesAssumption

LEMMA MarkerStep ==
  ASSUME Inv, Next, NEW k \in Kernels, NewRow(k), StillTrue(call[k].target),
         row'[k].matrix = "checks", row'[k].cells.dotUpstream = "PASS"
  PROVE  ProfileOf(call[k].target.name).forwards = "dot" /\ DotServer
  <1>1. Check(k) \/ Query(k)
    BY RowFrom DEF NewRow
  <1>2. PICK i \in Instances, b \in BOOLEAN :
           Running(i) /\ call[k].target.name = i /\ RowOf(i, row'[k], b)
    BY <1>1, RowIs
  <1> DEFINE t == BoxTarget(i)
             reply == LabReply(t)
             tr == Preferred(t)
  <1>3. CheckDotUpstreamMarker(t, reply) = "PASS"
    <2>1. row'[k].cells = RunChecks(t, reply, b)
      BY <1>2, CellsOf
    <2> HIDE DEF t, reply, tr
    <2>2. QED
      BY <2>1 DEF RunChecks
  <1>4. /\ t.ports = ProfileOf(i).listeners /\ t.ports \subseteq Transports
        /\ tr \in t.ports
    BY <1>2, TargetIs
  <1> HIDE DEF t, reply, tr
  <1>5. Forwards(t) /\ DotProfile(t.profile) /\ reply[<<"marker", tr>>] = "dot"
    BY <1>3 DEF CheckDotUpstreamMarker, Verdict, tr
  <1>6. ProfileOf(i).serves = "nothing" /\ ProfileOf(i).forwards \in {"dot", "public"}
    BY <1>2, <1>5, DotForwards DEF t
  <1>7. Marker[Depth][Question(i, tr)] = "dot"
    BY <1>2, <1>4, <1>5, ReplyIs DEF t, reply
  <1>8. /\ Question(i, tr) \in Queries
        /\ Marker[Depth][Question(i, tr)] = Says(i, Marker[Depth - 1])
    BY <1>2, <1>4, <1>7, Asked, Answered
  <1>9. ProfileOf(i).forwards = "dot"
    BY <1>6, <1>7, <1>8 DEF Says, Transports
  <1>10. DotServer
    BY <1>7, <1>8, DotServed
  <1>11. QED
    BY <1>2, <1>9, <1>10

(* A PASS of dot-upstream is earned: the forwarder asks over TLS, and the  *)
(* marker comes from a server that speaks nothing else, along whatever     *)
(* chain of stale or shared addresses.                                     *)
THEOREM MarkerIsProof == Spec => MarkerProvesTls
  <1>1. Inv /\ [Next]_vars => [\A k \in Kernels :
          LET t == call[k].target IN
          /\ NewRow(k) /\ StillTrue(t)
          /\ row'[k].matrix = "checks" /\ row'[k].cells.dotUpstream = "PASS"
          => /\ ProfileOf(t.name).forwards = "dot"
             /\ \E i \in Instances : Running(i) /\ ProfileOf(i).serves = "dot"
                                      /\ ProfileOf(i).listeners = {"dot"}]_vars
    BY MarkerStep DEF DotServer
  <1>2. QED
    BY <1>1, InvInit, InvNext, PTL DEF Spec, MarkerProvesTls

-----------------------------------------------------------------------------
(* A lab that is up.                                                       *)
LEMMA PairSays ==
  ASSUME Inv, NEW p \in Pair, Running(p)
  PROVE  LET tr == IF p = "lab-auth-do53" THEN "do53" ELSE "dot"
         IN ProfileOf(p).serves = tr /\ ProfileOf(p).listeners = {tr}
  <1>1. p \in Instances /\ ServerOf(p) = "lab-auth"
    BY PairKnown
  <1>2. box[p].profile = PairProfile(p)
    BY <1>1 DEF Inv, BoxesKnown, BoxKnown, Running
  <1>3. ProfileOf(p) = Catalogue["lab-auth"].profiles[PairProfile(p)]
    BY <1>1, <1>2 DEF ProfileOf
  <1>4. QED
    BY <1>3, PairAssumption DEF PairProfile, Pair

(* What the container's upstream says, when it is one of the pair.         *)
LEMMA UpstreamSays ==
  ASSUME Inv, NEW i \in fresh, Sound(i), \A p \in Pair : Sound(p),
         ProfileOf(i).forwards \in Transports, NEW n \in 0 .. Depth
  PROVE  Marker[n][Forwarded(i)] = ProfileOf(i).forwards
  <1> DEFINE tr == ProfileOf(i).forwards
             p == IF tr = "do53" THEN "lab-auth-do53" ELSE "lab-auth-dot"
             q == Forwarded(i)
  <1>1. p \in Pair /\ p \in Instances /\ Running(p) /\ Running(i) /\ i \in Instances
    BY PairKnown DEF Pair, Inv, FreshKnown, Sound
  <1>2. box[i].up = box[p].addr
    <2>1. box[i].up = Upstream(tr)
      BY DEF Inv, FreshKnown
    <2>2. QED
      BY <1>1, <2>1 DEF Upstream, Running
  <1>3. ProfileOf(p).serves = tr /\ ProfileOf(p).listeners = {tr}
    <2>1. tr \in {"do53", "dot"}
      BY DEF Transports
    <2>2. QED
      BY <1>1, <2>1, PairSays
  <1>4. q \in Queries
    BY <1>1, Upstreams
  <1>5. q.ip = box[p].addr /\ q.tr = tr /\ q.by \in {Client("lab-auth-dot", ca), Anybody}
    BY <1>2 DEF Forwarded, AsClient, Sound
  <1>6. Accepts(p, q.tr, q.by)
    <2>1. ListenersOf(Catalogue[ServerOf(p)], box[p].profile) = {tr}
      BY <1>1, <1>3, ProfileIs
    <2>2. tr = "dot" => p = "lab-auth-dot"
      OBVIOUS
    <2>3. box[p].answers /\ (tr = "dot" => box[p].leaf = ca)
      BY <1>1, <1>3 DEF Sound
    <2> HIDE DEF tr, p, q
    <2>4. QED
      BY <1>5, <2>1, <2>2, <2>3 DEF Accepts
  <1>7. PICK got : Marker[n] = Answers(got)
    BY MarkerAnswers
  <1> HIDE DEF p, q
  <1>8. Marker[n][q] = Says(p, got)
    BY <1>1, <1>4, <1>5, <1>6, <1>7, SoleOwner
  <1>9. Says(p, got) = tr
    BY <1>3 DEF Says, Transports
  <1>10. QED
    BY <1>8, <1>9 DEF q

(* So the container has the marker of the transport it asks over.          *)
LEMMA LabAnswers ==
  ASSUME Inv, NEW i \in Pair \cup fresh, Sound(i), \A p \in Pair : Sound(p),
         KnowsLab(ProfileOf(i)), NEW tr \in ProfileOf(i).listeners, tr \in Transports
  PROVE  LET m == Marker[Depth][Question(i, tr)]
         IN m \in Transports /\ (ProfileOf(i).serves = "nothing" => m = ProfileOf(i).forwards)
  <1>1. i \in Instances /\ Running(i)
    BY PairKnown DEF Inv, FreshKnown, Sound
  <1>2. Marker[Depth][Question(i, tr)] = Says(i, Marker[Depth - 1])
    <2>1. ListenersOf(Catalogue[ServerOf(i)], box[i].profile) = ProfileOf(i).listeners
      BY <1>1, ProfileIs
    <2>2. Accepts(i, tr, Client(i, ca))
      BY <2>1 DEF Accepts, Sound
    <2>3. QED
      BY <1>1, <2>2, Answered
  <1>3. ProfileOf(i).serves \in Transports \cup {"nothing"}
    BY <1>1, ProfileIs
  <1>4. CASE ProfileOf(i).serves # "nothing"
    BY <1>2, <1>3, <1>4 DEF Says
  <1>5. CASE ProfileOf(i).serves = "nothing"
    <2>1. ProfileOf(i).forwards \in Transports
      BY <1>5 DEF KnowsLab
    <2>2. i \in fresh
      <3>1. i \in Pair => ProfileOf(i).serves # "nothing"
        BY <1>1, PairSays
      <3>2. QED
        BY <1>5, <3>1
    <2>3. Depth - 1 \in 0 .. Depth
      BY BoundsAssumption
    <2>4. Marker[Depth - 1][Forwarded(i)] = ProfileOf(i).forwards
      BY <2>1, <2>2, <2>3, UpstreamSays
    <2>5. QED
      BY <1>2, <1>5, <2>1, <2>4 DEF Says, Transports
  <1>6. QED
    BY <1>4, <1>5

LEMMA AlarmStep ==
  ASSUME Inv, Next, NEW k \in Kernels, NewRow(k), StillTrue(call[k].target),
         \A i \in Pair \cup {call[k].target.name} : Sound(i),
         call[k].target.name \in Pair \cup fresh,
         KnowsLab(ProfileOf(call[k].target.name)), NEW c \in DOMAIN row'[k].cells,
         row'[k].cells[c] = "FAIL"
  PROVE  c = "dotQuery" /\ row'[k].kdigFailed
  <1>1. Check(k) \/ Query(k)
    BY RowFrom DEF NewRow
  <1>2. PICK i \in Instances, b \in BOOLEAN :
           Running(i) /\ call[k].target.name = i /\ RowOf(i, row'[k], b)
    BY <1>1, RowIs
  <1> DEFINE t == BoxTarget(i)
             reply == LabReply(t)
  <1>3. /\ t.ports = ProfileOf(i).listeners /\ t.ports \subseteq Transports
        /\ Preferred(t) \in t.ports /\ t.provider = "docker"
    BY <1>2, TargetIs
  <1>4. /\ i \in Pair \cup fresh /\ KnowsLab(ProfileOf(i)) /\ Running(i)
        /\ Sound(i) /\ \A p \in Pair : Sound(p)
    BY <1>2
  <1>5. \A tr \in t.ports : reply[<<"marker", tr>>] \in Transports /\ reply[<<"soa", tr>>] = "data"
    <2>1. ASSUME NEW tr \in t.ports
          PROVE  reply[<<"marker", tr>>] \in Transports /\ reply[<<"soa", tr>>] = "data"
      <3>1. tr \in ProfileOf(i).listeners /\ tr \in Transports
        BY <1>3
      <3>2. Marker[Depth][Question(i, tr)] \in Transports
        BY <1>4, <3>1, LabAnswers
      <3>3. Marker[Depth][Question(i, tr)] \notin {"error", "none"}
        BY <3>2 DEF Transports
      <3>4. QED
        BY <1>4, <3>1, <3>2, <3>3, ReplyIs
    <2>2. QED
      BY <2>1
  <1>6. Forwards(t) /\ DotProfile(t.profile) => reply[<<"marker", Preferred(t)>>] = "dot"
    <2> SUFFICES ASSUME Forwards(t), DotProfile(t.profile)
                 PROVE  reply[<<"marker", Preferred(t)>>] = "dot"
      OBVIOUS
    <2>1. ProfileOf(i).serves = "nothing" /\ ProfileOf(i).forwards = "dot"
      <3>1. ProfileOf(i).serves = "nothing" /\ ProfileOf(i).forwards \in {"dot", "public"}
        BY <1>4, DotForwards
      <3>2. QED
        BY <1>4, <3>1 DEF KnowsLab, Transports
    <2>2. Preferred(t) \in ProfileOf(i).listeners /\ Preferred(t) \in Transports
      BY <1>3
    <2>3. Marker[Depth][Question(i, Preferred(t))] = "dot"
      <3> DEFINE tr == Preferred(t)
      <3>1. tr \in ProfileOf(i).listeners /\ tr \in Transports
        BY <2>2
      <3> HIDE DEF tr
      <3>2. Marker[Depth][Question(i, tr)] = "dot"
        BY <1>4, <2>1, <3>1, LabAnswers
      <3>3. QED
        BY <3>2 DEF tr
    <2>4. QED
      <3> DEFINE tr == Preferred(t)
      <3>1. tr \in Transports /\ Marker[Depth][Question(i, tr)] = "dot"
        BY <2>2, <2>3
      <3> HIDE DEF tr
      <3>2. reply[<<"marker", tr>>] = "dot"
        BY <1>4, <3>1, ReplyIs
      <3>3. QED
        BY <3>2 DEF tr
  <1> HIDE DEF t, reply
  <1>7. CASE row'[k].cells = RunChecks(t, reply, b) /\ row'[k].kdigFailed = b
    <2> DEFINE checks == RunChecks(t, reply, b)
    <2>1. c \in {"do53Query", "dotQuery", "cert", "forwarding", "dotUpstream"}
      BY <1>7 DEF RunChecks
    <2>2. BasicProbe(t) = "soa"
      BY <1>3 DEF BasicProbe
    <2>3. QueryDo53(t, reply) # "FAIL" /\ (QueryDot(t, reply, b) = "FAIL" => b)
      BY <1>5, <2>2 DEF QueryDo53, QueryDot, Verdict, NoError, Transports
    <2>4. CheckCert(t, reply) # "FAIL" /\ CheckForwarding(t, reply) # "FAIL"
      BY <1>3, <1>5 DEF CheckCert, CheckForwarding, Verdict
    <2>5. CheckDotUpstreamMarker(t, reply) # "FAIL"
      BY <1>6 DEF CheckDotUpstreamMarker, Verdict
    <2>6. checks[c] = "FAIL" => c = "dotQuery" /\ b
      <3>1. checks = [do53Query |-> QueryDo53(t, reply), dotQuery |-> QueryDot(t, reply, b),
                      cert |-> CheckCert(t, reply), forwarding |-> CheckForwarding(t, reply),
                      dotUpstream |-> CheckDotUpstreamMarker(t, reply)]
        BY DEF RunChecks
      <3> HIDE DEF checks
      <3>2. /\ checks["do53Query"] # "FAIL" /\ (checks["dotQuery"] = "FAIL" => b)
            /\ checks["cert"] # "FAIL" /\ checks["forwarding"] # "FAIL"
            /\ checks["dotUpstream"] # "FAIL"
        BY <2>3, <2>4, <2>5, <3>1
      <3>3. QED
        BY <2>1, <3>2
    <2>7. QED
      BY <1>7, <2>6
  <1>8. CASE row'[k].cells = RunQueryMatrix(t, {"soa", "marker"}, reply)
    <2>1. c \in {"soa", "marker"} \X Transports
      BY <1>8 DEF RunQueryMatrix
    <2>2. PICK question \in {"soa", "marker"}, tr \in Transports : c = <<question, tr>>
      BY <2>1
    <2>3. row'[k].cells[c] = QueryReport(t, question, tr, reply)
      BY <1>8, <2>1, <2>2 DEF RunQueryMatrix
    <2>4. tr \in t.ports => NoError(reply[<<question, tr>>])
      BY <1>5, <2>2 DEF NoError, Transports
    <2>5. QED
      BY <2>3, <2>4 DEF QueryReport, Verdict
  <1>9. \/ row'[k].cells = RunChecks(t, reply, b) /\ row'[k].kdigFailed = b
        \/ row'[k].cells = RunQueryMatrix(t, {"soa", "marker"}, reply)
    BY <1>2, CellsOf DEF t, reply
  <1>10. QED
    BY <1>7, <1>8, <1>9

(* In a lab set up pair first, whose TLS files are of the present CA, the  *)
(* only FAIL is that of a kdig that failed, whatever was restarted, reused *)
(* or renumbered before.                                                   *)
THEOREM NoAlarmIsFalse == Spec => NoFalseAlarm
  <1>1. Inv /\ [Next]_vars => [\A k \in Kernels :
          LET t == call[k].target IN
          /\ NewRow(k) /\ StillTrue(t)
          /\ \A i \in Pair \cup {t.name} : Sound(i)
          /\ t.name \in Pair \cup fresh /\ KnowsLab(ProfileOf(t.name))
          => \A c \in DOMAIN row'[k].cells :
                row'[k].cells[c] = "FAIL" => c = "dotQuery" /\ row'[k].kdigFailed]_vars
    BY AlarmStep DEF StillTrue
  <1>2. QED
    BY <1>1, InvInit, InvNext, PTL DEF Spec, NoFalseAlarm

=============================================================================
