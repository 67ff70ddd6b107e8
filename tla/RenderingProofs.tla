---------------------------- MODULE RenderingProofs ----------------------------
(***************************************************************************)
(* What Pods relies on of the operators of Rendering, for all objects that *)
(* are well-formed.                                                        *)
(***************************************************************************)
EXTENDS Rendering, TLAPS, FiniteSetTheorems, FunctionTheorems, SequenceTheorems,
        WellFoundedInduction

-----------------------------------------------------------------------------
(* Numbers and sets.                                                       *)

(* A set of numbers that is not empty has a least element; one without     *)
(* numbers beyond a bound, a greatest.                                     *)
LEMMA NatMin ==
  ASSUME NEW T, T \subseteq Nat, T # {}
  PROVE  \E x \in T : \A y \in T : x <= y
<1>1. PICK x \in T : \A y \in T : ~(<<y, x>> \in OpToRel(<, Nat))
  BY WFMin, NatLessThanWellFounded
<1>2. \A y \in T : ~(y < x)
  BY <1>1 DEF OpToRel
<1> QED BY <1>2

LEMMA NatMax ==
  ASSUME NEW n \in Nat, NEW T, T \subseteq 0..n, T # {}
  PROVE  \E x \in T : \A y \in T : y <= x
<1> DEFINE Left == {n - x : x \in T}
<1>1. Left \subseteq Nat
  OBVIOUS
<1>2. Left # {}
  <2>1. PICK x : x \in T
    OBVIOUS
  <2> QED BY <2>1
<1>3. PICK l \in Left : \A k \in Left : l <= k
  <2> HIDE DEF Left
  <2> QED BY <1>1, <1>2, NatMin
<1>4. PICK x \in T : l = n - x
  BY <1>3
<1>5. ASSUME NEW y \in T PROVE y <= x
  <2>1. l <= n - y
    BY <1>3
  <2> QED BY <2>1, <1>4
<1> QED BY <1>5

-----------------------------------------------------------------------------
(* Listings.                                                               *)

LEMMA ListingOf ==
  ASSUME NEW S, IsFiniteSet(S)
  PROVE  \E order : order \in Listings(S)
BY FS_CardinalityType, Zenon DEF ExistsBijection, Listings

LEMMA ListingIsBijection ==
  ASSUME NEW S, IsFiniteSet(S), NEW order \in Listings(S)
  PROVE  /\ Cardinality(S) \in Nat
         /\ order \in [1..Cardinality(S) -> S]
         /\ \A i, j \in DOMAIN order : order[i] = order[j] => i = j
         /\ \A x \in S : \E i \in DOMAIN order : order[i] = x
<1>1. Cardinality(S) \in Nat
  BY FS_CardinalityType
<1>2. order \in Bijection(1..Cardinality(S), S)
  BY DEF Listings
<1> QED BY <1>1, <1>2 DEF Bijection, Injection, Surjection, IsInjective

LEMMA ListedLen ==
  ASSUME NEW objects, NEW order, NEW n \in Nat, DOMAIN order = 1..n
  PROVE  Listed(objects, order) \in Seq({objects[order[i]] : i \in 1..n})
         /\ DOMAIN Listed(objects, order) = 1..n
         /\ Len(Listed(objects, order)) = n
BY DEF Listed

(* A list has the objects there are, whatever their order.                 *)
LEMMA ListedObjects ==
  ASSUME NEW objects, IsFiniteSet(Present(objects)),
         NEW order \in Listings(Present(objects))
  PROVE  ToSet(Listed(objects, order)) = {objects[x] : x \in Present(objects)}
<1>1. /\ order \in [1..Cardinality(Present(objects)) -> Present(objects)]
      /\ \A x \in Present(objects) : \E i \in DOMAIN order : order[i] = x
  BY ListingIsBijection
<1> QED BY <1>1 DEF Listed, ToSet

-----------------------------------------------------------------------------
(* The first failure of a sequence of verdicts.                            *)

LEMMA FirstFailureIs ==
  ASSUME NEW verdicts, NEW n \in Nat, DOMAIN verdicts = 1..n
  PROVE  \/ /\ \A i \in 1..n : verdicts[i] = "ok"
            /\ FirstFailure(verdicts) = "ok"
         \/ \E i \in 1..n : /\ verdicts[i] # "ok"
                            /\ \A j \in 1..n : verdicts[j] # "ok" => i <= j
                            /\ FirstFailure(verdicts) = verdicts[i]
<1> DEFINE Failed == {i \in DOMAIN verdicts : verdicts[i] # "ok"}
           Least(i) == i \in Failed /\ \A j \in Failed : i <= j
<1>1. CASE Failed = {}
  BY <1>1 DEF FirstFailure
<1>2. CASE Failed # {}
  <2>1. Failed \subseteq Nat
    OBVIOUS
  <2>2. \E i : Least(i)
    <3> HIDE DEF Failed
    <3> QED BY <1>2, <2>1, NatMin
  <2>3. Least(CHOOSE i \in Failed : \A j \in Failed : i <= j)
    <3> HIDE DEF Failed
    <3> QED BY <2>2
  <2>4. FirstFailure(verdicts) = verdicts[CHOOSE i \in Failed : \A j \in Failed : i <= j]
    BY <1>2 DEF FirstFailure
  <2> QED BY <2>3, <2>4
<1> QED BY <1>1, <1>2

(* That of two sequences is that of the first, if there is one.            *)
IsSequence(s, n) == n \in Nat /\ DOMAIN s = 1..n /\ s = [i \in 1..n |-> s[i]]

LEMMA FirstFailureOfTwo ==
  ASSUME NEW s, NEW t, NEW m, NEW n, IsSequence(s, m), IsSequence(t, n)
  PROVE  /\ IsSequence(s \o t, m + n)
         /\ FirstFailure(s \o t) = IF FirstFailure(s) = "ok" THEN FirstFailure(t)
                                                             ELSE FirstFailure(s)
<1> USE DEF IsSequence
<1> DEFINE Values == {s[i] : i \in 1..m} \cup {t[i] : i \in 1..n}
<1>1. s \in Seq(Values) /\ Len(s) = m
  <2>1. s \in [1..m -> Values]
    OBVIOUS
  <2> HIDE DEF Values
  <2> QED BY <2>1
<1>2. t \in Seq(Values) /\ Len(t) = n
  <2>1. t \in [1..n -> Values]
    OBVIOUS
  <2> HIDE DEF Values
  <2> QED BY <2>1
<1> HIDE DEF Values
<1>3. /\ DOMAIN (s \o t) = 1..(m + n)
      /\ s \o t = [i \in 1..(m + n) |-> (s \o t)[i]]
      /\ \A i \in 1..m : (s \o t)[i] = s[i]
      /\ \A i \in 1..n : (s \o t)[m + i] = t[i]
  BY <1>1, <1>2
<1> DEFINE u == s \o t
<1>4. \A k \in (m + 1)..(m + n) : u[k] = t[k - m]
  <2> TAKE k \in (m + 1)..(m + n)
  <2>1. k - m \in 1..n /\ m + (k - m) = k
    OBVIOUS
  <2> QED BY <2>1, <1>3
<1> HIDE DEF u
<1>5. /\ DOMAIN u = 1..(m + n)
      /\ \A i \in 1..m : u[i] = s[i]
      /\ \A i \in 1..n : m + i \in 1..(m + n) /\ u[m + i] = t[i]
  BY <1>3 DEF u
<1>6. FirstFailure(u) = IF FirstFailure(s) = "ok" THEN FirstFailure(t) ELSE FirstFailure(s)
  <2>1. CASE \A i \in 1..(m + n) : u[i] = "ok"
    <3>1. \A i \in 1..m : s[i] = "ok"
      BY <2>1, <1>5
    <3>2. \A i \in 1..n : t[i] = "ok"
      BY <2>1, <1>5
    <3> QED BY <2>1, <3>1, <3>2, <1>5, FirstFailureIs, m + n \in Nat
  <2>2. CASE ~ \A i \in 1..(m + n) : u[i] = "ok"
    <3>1. PICK i \in 1..(m + n) : /\ u[i] # "ok"
                                  /\ \A j \in 1..(m + n) : u[j] # "ok" => i <= j
                                  /\ FirstFailure(u) = u[i]
      BY <2>2, <1>5, FirstFailureIs, m + n \in Nat
    <3>2. CASE i \in 1..m
      <4>1. s[i] # "ok" /\ \A j \in 1..m : s[j] # "ok" => i <= j
        BY <3>1, <3>2, <1>5
      <4>2. PICK k \in 1..m : /\ s[k] # "ok"
                              /\ \A j \in 1..m : s[j] # "ok" => k <= j
                              /\ FirstFailure(s) = s[k]
        <5>1. ~ \A j \in 1..m : s[j] = "ok"
          BY <4>1, <3>2
        <5> QED BY <5>1, FirstFailureIs
      <4>3. k = i
        BY <4>1, <4>2, <3>2
      <4> QED BY <3>1, <3>2, <4>1, <4>2, <4>3, <1>5
    <3>3. CASE i \in (m + 1)..(m + n)
      <4>1. \A j \in 1..m : s[j] = "ok"
        BY <3>1, <3>3, <1>5
      <4>2. FirstFailure(s) = "ok"
        BY <4>1, FirstFailureIs
      <4>3. i - m \in 1..n /\ t[i - m] # "ok" /\ u[i] = t[i - m]
        <5>1. u[i] = t[i - m]
          BY <3>3, <1>4
        <5>2. i - m \in 1..n
          BY <3>3
        <5> QED BY <5>1, <5>2, <3>1
      <4>4. PICK k \in 1..n : /\ t[k] # "ok"
                              /\ \A j \in 1..n : t[j] # "ok" => k <= j
                              /\ FirstFailure(t) = t[k]
        <5>1. ~ \A j \in 1..n : t[j] = "ok"
          BY <4>3
        <5> QED BY <5>1, FirstFailureIs
      <4>5. k <= i - m
        BY <4>3, <4>4
      <4>6. m + k \in 1..(m + n) /\ u[m + k] # "ok"
        BY <4>4, <1>5
      <4>7. i <= m + k
        BY <4>6, <3>1
      <4>8. k = i - m
        BY <4>5, <4>7
      <4> QED BY <4>2, <4>3, <4>4, <4>8, <3>1
    <3> QED BY <3>2, <3>3
  <2> QED BY <2>1, <2>2
<1>7. IsSequence(u, m + n)
  BY <1>3 DEF u
<1> QED BY ONLY <1>6, <1>7 DEF u

(* The verdicts on a list of objects, when only one kind of failure is     *)
(* possible.                                                               *)
LEMMA FirstFailureOfKind ==
  ASSUME NEW kind, kind # "ok", NEW verdicts, NEW n \in Nat, DOMAIN verdicts = 1..n,
         \A i \in 1..n : verdicts[i] \in {"ok", kind}
  PROVE  FirstFailure(verdicts) = IF \E i \in 1..n : verdicts[i] = kind THEN kind ELSE "ok"
<1>1. CASE \A i \in 1..n : verdicts[i] = "ok"
  BY <1>1, FirstFailureIs
<1>2. CASE \E i \in 1..n : verdicts[i] = kind
  BY <1>2, FirstFailureIs
<1> QED BY <1>1, <1>2

LEMMA FirstFailureOfOne ==
  ASSUME NEW value
  PROVE  FirstFailure(<<value>>) = value
<1> DEFINE verdicts == <<value>>
<1>1. DOMAIN verdicts = 1..1 /\ verdicts[1] = value /\ 1 \in Nat
  OBVIOUS
<1> HIDE DEF verdicts
<1>2. FirstFailure(verdicts) = value
  <2>1. \A i \in 1..1 : i = 1
    OBVIOUS
  <2>2. 1 \in 1..1
    OBVIOUS
  <2> QED BY ONLY <1>1, <2>1, <2>2, FirstFailureIs
<1> QED BY <1>2 DEF verdicts

LEMMA FirstFailureOfNone == FirstFailure(<< >>) = "ok"
BY FirstFailureIs, DOMAIN << >> = 1..0, 0 \in Nat

(* What Render finds depends on the objects and the list of modules.       *)
ClientFails(clients) == \E c \in clients : ~ValidClient(c)
PolicyFails(policies) == \E p \in policies : ~ValidPolicy(p)
SiteFails(policies) == \E p \in policies : SiteVerdict(p) = "typed"

VerdictOn(clients, modules, policies) ==
  LET built == FirstFailure(Each(modules, ModuleVerdict))
  IN IF \/ ClientFails(clients)
        \/ \E m \in ToSet(modules) : ~ValidModule(m)
        \/ PolicyFails(policies)
     THEN "error"
     ELSE IF built # "ok" THEN built
     ELSE IF SiteFails(policies) THEN "typed" ELSE "ok"

LEMMA EachList ==
  ASSUME NEW list, NEW n \in Nat, DOMAIN list = 1..n
  PROVE  /\ IsSequence(Each(list, ClientVerdict), n)
         /\ IsSequence(Each(list, FieldsVerdict), n)
         /\ IsSequence(Each(list, PolicyVerdict), n)
         /\ IsSequence(Each(list, ModuleVerdict), n)
         /\ IsSequence(Each(list, SiteVerdict), n)
BY DEF Each, IsSequence

LEMMA FirstFailureOfEach ==
  ASSUME NEW list, NEW n \in Nat, DOMAIN list = 1..n
  PROVE  /\ FirstFailure(Each(list, ClientVerdict)) =
              IF ClientFails(ToSet(list)) THEN "error" ELSE "ok"
         /\ FirstFailure(Each(list, FieldsVerdict)) =
              IF \E m \in ToSet(list) : ~ValidModule(m) THEN "error" ELSE "ok"
         /\ FirstFailure(Each(list, PolicyVerdict)) =
              IF PolicyFails(ToSet(list)) THEN "error" ELSE "ok"
         /\ FirstFailure(Each(list, SiteVerdict)) =
              IF SiteFails(ToSet(list)) THEN "typed" ELSE "ok"
<1>1. ToSet(list) = {list[i] : i \in 1..n}
  BY DEF ToSet
<1>2. FirstFailure(Each(list, ClientVerdict)) =
        IF ClientFails(ToSet(list)) THEN "error" ELSE "ok"
  <2> DEFINE verdicts == Each(list, ClientVerdict)
  <2>1. DOMAIN verdicts = 1..n
    BY DEF Each
  <2>2. \A i \in 1..n : verdicts[i] = IF ValidClient(list[i]) THEN "ok" ELSE "error"
    BY DEF Each, ClientVerdict, Wrapped
  <2> HIDE DEF verdicts
  <2>3. FirstFailure(verdicts) = IF \E i \in 1..n : verdicts[i] = "error" THEN "error" ELSE "ok"
    <3>1. \A i \in 1..n : verdicts[i] \in {"ok", "error"}
      BY <2>2
    <3> QED BY <2>1, <3>1, FirstFailureOfKind
  <2> QED BY <1>1, <2>2, <2>3 DEF verdicts, ClientFails
<1>3. FirstFailure(Each(list, FieldsVerdict)) =
        IF \E m \in ToSet(list) : ~ValidModule(m) THEN "error" ELSE "ok"
  <2> DEFINE verdicts == Each(list, FieldsVerdict)
  <2>1. DOMAIN verdicts = 1..n
    BY DEF Each
  <2>2. \A i \in 1..n : verdicts[i] = IF ValidModule(list[i]) THEN "ok" ELSE "error"
    BY DEF Each, FieldsVerdict, Wrapped
  <2> HIDE DEF verdicts
  <2>3. FirstFailure(verdicts) = IF \E i \in 1..n : verdicts[i] = "error" THEN "error" ELSE "ok"
    <3>1. \A i \in 1..n : verdicts[i] \in {"ok", "error"}
      BY <2>2
    <3> QED BY <2>1, <3>1, FirstFailureOfKind
  <2> QED BY <1>1, <2>2, <2>3 DEF verdicts
<1>4. FirstFailure(Each(list, PolicyVerdict)) =
        IF PolicyFails(ToSet(list)) THEN "error" ELSE "ok"
  <2> DEFINE verdicts == Each(list, PolicyVerdict)
  <2>1. DOMAIN verdicts = 1..n
    BY DEF Each
  <2>2. \A i \in 1..n : verdicts[i] = IF ValidPolicy(list[i]) THEN "ok" ELSE "error"
    BY DEF Each, PolicyVerdict, Wrapped
  <2> HIDE DEF verdicts
  <2>3. FirstFailure(verdicts) = IF \E i \in 1..n : verdicts[i] = "error" THEN "error" ELSE "ok"
    <3>1. \A i \in 1..n : verdicts[i] \in {"ok", "error"}
      BY <2>2
    <3> QED BY <2>1, <3>1, FirstFailureOfKind
  <2> QED BY <1>1, <2>2, <2>3 DEF verdicts, PolicyFails
<1>5. FirstFailure(Each(list, SiteVerdict)) =
        IF SiteFails(ToSet(list)) THEN "typed" ELSE "ok"
  <2> DEFINE verdicts == Each(list, SiteVerdict)
  <2>1. DOMAIN verdicts = 1..n
    BY DEF Each
  <2>2. \A i \in 1..n : /\ verdicts[i] = SiteVerdict(list[i])
                        /\ SiteVerdict(list[i]) \in {"ok", "typed"}
    BY DEF Each, SiteVerdict
  <2> HIDE DEF verdicts
  <2>3. FirstFailure(verdicts) = IF \E i \in 1..n : verdicts[i] = "typed" THEN "typed" ELSE "ok"
    <3>1. \A i \in 1..n : verdicts[i] \in {"ok", "typed"}
      BY <2>2
    <3> QED BY <2>1, <3>1, FirstFailureOfKind
  <2> QED BY <1>1, <2>2, <2>3 DEF verdicts, SiteFails
<1> QED BY <1>2, <1>3, <1>4, <1>5

LEMMA VerdictIs ==
  ASSUME NEW ctx, NEW nc \in Nat, NEW nm \in Nat, NEW np \in Nat,
         DOMAIN ctx.clients = 1..nc, DOMAIN ctx.cluster.modules = 1..nm,
         DOMAIN ctx.policies = 1..np
  PROVE  Verdict(ctx) = VerdictOn(ToSet(ctx.clients), ctx.cluster.modules, ToSet(ctx.policies))
<1> DEFINE a == Each(ctx.clients, ClientVerdict)
           b == Each(ctx.cluster.modules, FieldsVerdict)
           c == Each(ctx.policies, PolicyVerdict)
           d == Each(ctx.cluster.modules, ModuleVerdict)
           e == Each(ctx.policies, SiteVerdict)
<1>1. /\ IsSequence(a, nc) /\ IsSequence(b, nm) /\ IsSequence(c, np) /\ IsSequence(d, nm) /\ IsSequence(e, np)
  BY EachList
<1>2. Verdicts(ctx) = a \o b \o c \o d \o e
  BY DEF Verdicts
<1> HIDE DEF a, b, c, d, e
<1>3. /\ IsSequence(a \o b, nc + nm)
      /\ FirstFailure(a \o b) = IF FirstFailure(a) = "ok" THEN FirstFailure(b) ELSE FirstFailure(a)
  BY <1>1, FirstFailureOfTwo
<1> DEFINE ab == a \o b
<1> HIDE DEF ab
<1>4. /\ IsSequence(ab \o c, (nc + nm) + np)
      /\ FirstFailure(ab \o c) = IF FirstFailure(ab) = "ok" THEN FirstFailure(c) ELSE FirstFailure(ab)
  BY <1>1, <1>3, FirstFailureOfTwo DEF ab
<1> DEFINE abc == ab \o c
<1> HIDE DEF abc
<1>5. /\ IsSequence(abc \o d, ((nc + nm) + np) + nm)
      /\ FirstFailure(abc \o d) = IF FirstFailure(abc) = "ok" THEN FirstFailure(d) ELSE FirstFailure(abc)
  BY <1>1, <1>4, FirstFailureOfTwo DEF abc
<1> DEFINE abcd == abc \o d
<1> HIDE DEF abcd
<1>6. FirstFailure(abcd \o e) =
        IF FirstFailure(abcd) = "ok" THEN FirstFailure(e) ELSE FirstFailure(abcd)
  BY <1>1, <1>5, FirstFailureOfTwo DEF abcd
<1>7. Verdict(ctx) = FirstFailure(abcd \o e)
  BY <1>2 DEF Verdict, abcd, abc, ab
<1>8. /\ FirstFailure(a) = IF ClientFails(ToSet(ctx.clients)) THEN "error" ELSE "ok"
      /\ FirstFailure(b) =
           IF \E m \in ToSet(ctx.cluster.modules) : ~ValidModule(m) THEN "error" ELSE "ok"
      /\ FirstFailure(c) = IF PolicyFails(ToSet(ctx.policies)) THEN "error" ELSE "ok"
      /\ FirstFailure(e) = IF SiteFails(ToSet(ctx.policies)) THEN "typed" ELSE "ok"
  BY FirstFailureOfEach DEF a, b, c, e
<1> QED BY <1>3, <1>4, <1>5, <1>6, <1>7, <1>8 DEF VerdictOn, ab, abc, abcd, d

(* What it finds when there is one object, or only the cluster.            *)
LEMMA EmptyList ==
  /\ DOMAIN << >> = 1..0 /\ 0 \in Nat /\ ToSet(<< >>) = {}
  /\ Each(<< >>, ModuleVerdict) = << >>
BY DEF ToSet, Each

LEMMA SingleList ==
  ASSUME NEW x
  PROVE  DOMAIN <<x>> = 1..1 /\ 1 \in Nat /\ ToSet(<<x>>) = {x}
BY DEF ToSet

LEMMA BuiltIs ==
  ASSUME NEW modules, NEW n \in Nat, DOMAIN modules = 1..n
  PROVE  FirstFailure(Each(modules, ModuleVerdict)) \in {"ok", "error", "typed"}
<1> DEFINE verdicts == Each(modules, ModuleVerdict)
<1>1. DOMAIN verdicts = 1..n /\ \A i \in 1..n : verdicts[i] = ModuleVerdict(modules[i])
  BY DEF Each
<1>2. ASSUME NEW m PROVE ModuleVerdict(m) \in {"ok", "error", "typed"}
  BY DEF ModuleVerdict, Wrapped
<1> HIDE DEF verdicts
<1>3. FirstFailure(verdicts) \in {"ok", "error", "typed"}
  BY <1>1, <1>2, FirstFailureIs
<1> QED BY <1>3 DEF verdicts

LEMMA VerdictOfCluster ==
  ASSUME NEW ctx, NEW n \in Nat, DOMAIN ctx.cluster.modules = 1..n,
         ctx.clients = << >>, ctx.policies = << >>
  PROVE  Verdict(ctx) = IF \E m \in ToSet(ctx.cluster.modules) : ~ValidModule(m) THEN "error"
                        ELSE FirstFailure(Each(ctx.cluster.modules, ModuleVerdict))
<1>1. Verdict(ctx) = VerdictOn({}, ctx.cluster.modules, {})
  BY VerdictIs, EmptyList
<1>2. FirstFailure(Each(ctx.cluster.modules, ModuleVerdict)) \in {"ok", "error", "typed"}
  BY BuiltIs
<1> QED BY <1>1, <1>2 DEF VerdictOn, ClientFails, PolicyFails, SiteFails

LEMMA VerdictOfClient ==
  ASSUME NEW ctx, NEW client, ctx.cluster.modules = << >>,
         ctx.clients = <<client>>, ctx.policies = << >>
  PROVE  Verdict(ctx) = IF ~ValidClient(client) THEN "error" ELSE "ok"
<1>1. Verdict(ctx) = VerdictOn({client}, << >>, {})
  <2>1. DOMAIN ctx.clients = 1..1 /\ 1 \in Nat /\ ToSet(ctx.clients) = {client}
    BY SingleList
  <2>2. /\ DOMAIN ctx.cluster.modules = 1..0 /\ DOMAIN ctx.policies = 1..0 /\ 0 \in Nat
        /\ ToSet(ctx.policies) = {}
    BY EmptyList
  <2>3. Verdict(ctx) =
          VerdictOn(ToSet(ctx.clients), ctx.cluster.modules, ToSet(ctx.policies))
    BY <2>1, <2>2, VerdictIs
  <2> QED BY <2>1, <2>2, <2>3
<1>2. FirstFailure(Each(<< >>, ModuleVerdict)) = "ok" /\ ToSet(<< >>) = {}
  BY EmptyList, FirstFailureOfNone
<1> QED BY <1>1, <1>2 DEF VerdictOn, ClientFails, PolicyFails, SiteFails

LEMMA VerdictOfPolicy ==
  ASSUME NEW ctx, NEW policy, ctx.cluster.modules = << >>,
         ctx.clients = << >>, ctx.policies = <<policy>>
  PROVE  Verdict(ctx) = IF ~ValidPolicy(policy) THEN "error"
                        ELSE IF SiteVerdict(policy) = "typed" THEN "typed" ELSE "ok"
<1>1. Verdict(ctx) = VerdictOn({}, << >>, {policy})
  <2>1. DOMAIN ctx.policies = 1..1 /\ 1 \in Nat /\ ToSet(ctx.policies) = {policy}
    BY SingleList
  <2>2. /\ DOMAIN ctx.cluster.modules = 1..0 /\ DOMAIN ctx.clients = 1..0 /\ 0 \in Nat
        /\ ToSet(ctx.clients) = {}
    BY EmptyList
  <2>3. Verdict(ctx) =
          VerdictOn(ToSet(ctx.clients), ctx.cluster.modules, ToSet(ctx.policies))
    BY <2>1, <2>2, VerdictIs
  <2> QED BY <2>1, <2>2, <2>3
<1>2. FirstFailure(Each(<< >>, ModuleVerdict)) = "ok" /\ ToSet(<< >>) = {}
  BY EmptyList, FirstFailureOfNone
<1> QED BY <1>1, <1>2 DEF VerdictOn, ClientFails, PolicyFails, SiteFails

-----------------------------------------------------------------------------
(* What a run makes of well-formed objects.                                *)

WellFormedObjects(objects) == \A part \in Parts : WellFormed(part, objects[part])

LEMMA WellFormedParts ==
  ASSUME NEW objects, WellFormedObjects(objects)
  PROVE  /\ "modules" \in DOMAIN objects["cluster"]
         /\ \E n \in Nat : DOMAIN objects["cluster"].modules = 1..n
         /\ \A m \in ToSet(objects["cluster"].modules) :
              /\ m.name \in STRING /\ DataFiles(m) \subseteq STRING
              /\ \A section \in DOMAIN m.config \ PasswordSections :
                   m.config[section].password = None
         /\ objects["clients"] # None
         /\ IsFiniteSet(Present(objects["clients"]))
         /\ \A name \in Present(objects["clients"]) : objects["clients"][name].name = name
         /\ IsFiniteSet(Present(objects["policies"]))
         /\ \A name \in Present(objects["policies"]) :
              objects["policies"][name].priority \in Int
<1>1. WellFormed("cluster", objects["cluster"])
  BY DEF WellFormedObjects, Parts
<1>2. WellFormed("clients", objects["clients"])
  BY DEF WellFormedObjects, Parts
<1>3. WellFormed("policies", objects["policies"])
  BY DEF WellFormedObjects, Parts
<1>4. /\ "modules" \in DOMAIN objects["cluster"] /\ IsList(objects["cluster"].modules)
      /\ \A m \in ToSet(objects["cluster"].modules) :
           /\ m.name \in STRING /\ DataFiles(m) \subseteq STRING
           /\ \A section \in DOMAIN m.config \ PasswordSections :
                m.config[section].password = None
  BY <1>1 DEF WellFormed
<1>5. \E n \in Nat : DOMAIN objects["cluster"].modules = 1..n
  BY <1>4, FS_CardinalityType DEF IsList
<1>6. /\ objects["clients"] # None /\ IsFiniteSet(DOMAIN objects["clients"])
      /\ \A name \in Present(objects["clients"]) : objects["clients"][name].name = name
  BY <1>2 DEF WellFormed
<1>7. /\ IsFiniteSet(DOMAIN objects["policies"])
      /\ \A name \in Present(objects["policies"]) :
           objects["policies"][name].priority \in Int
  BY <1>3 DEF WellFormed
<1>8. /\ Present(objects["clients"]) \in SUBSET DOMAIN objects["clients"]
      /\ Present(objects["policies"]) \in SUBSET DOMAIN objects["policies"]
  BY DEF Present
<1> QED BY <1>4, <1>5, <1>6, <1>7, <1>8, FS_Subset

LEMMA ContextIs ==
  ASSUME NEW objects, NEW ctx
  PROVE  ctx \in ContextsOf(objects) <=>
           \E clients \in Listings(Present(objects["clients"])),
              policies \in Listings(Present(objects["policies"])) :
             ctx = [cluster  |-> objects["cluster"],
                    clients  |-> Listed(objects["clients"], clients),
                    policies |-> Listed(objects["policies"], policies)]
BY DEF ContextsOf

LEMMA ContextLists ==
  ASSUME NEW objects, WellFormedObjects(objects), NEW ctx \in ContextsOf(objects)
  PROVE  /\ ctx.cluster = objects["cluster"]
         /\ \E n \in Nat : DOMAIN ctx.cluster.modules = 1..n
         /\ \E n \in Nat : DOMAIN ctx.clients = 1..n
         /\ \E n \in Nat : DOMAIN ctx.policies = 1..n
         /\ ToSet(ctx.clients) =
              {objects["clients"][x] : x \in Present(objects["clients"])}
         /\ ToSet(ctx.policies) =
              {objects["policies"][x] : x \in Present(objects["policies"])}
<1>1. PICK clients \in Listings(Present(objects["clients"])),
           policies \in Listings(Present(objects["policies"])) :
        ctx = [cluster  |-> objects["cluster"],
               clients  |-> Listed(objects["clients"], clients),
               policies |-> Listed(objects["policies"], policies)]
  BY ContextIs
<1>2. /\ \E n \in Nat : DOMAIN Listed(objects["clients"], clients) = 1..n
      /\ ToSet(Listed(objects["clients"], clients)) =
           {objects["clients"][x] : x \in Present(objects["clients"])}
  <2>1. IsFiniteSet(Present(objects["clients"]))
    BY WellFormedParts
  <2>2. /\ Cardinality(Present(objects["clients"])) \in Nat
        /\ DOMAIN clients = 1..Cardinality(Present(objects["clients"]))
    BY <2>1, ListingIsBijection
  <2> QED BY <2>1, <2>2, ListedLen, ListedObjects
<1>3. /\ \E n \in Nat : DOMAIN Listed(objects["policies"], policies) = 1..n
      /\ ToSet(Listed(objects["policies"], policies)) =
           {objects["policies"][x] : x \in Present(objects["policies"])}
  <2>1. IsFiniteSet(Present(objects["policies"]))
    BY WellFormedParts
  <2>2. /\ Cardinality(Present(objects["policies"])) \in Nat
        /\ DOMAIN policies = 1..Cardinality(Present(objects["policies"]))
    BY <2>1, ListingIsBijection
  <2> QED BY <2>1, <2>2, ListedLen, ListedObjects
<1>4. ctx.cluster = objects["cluster"] /\ \E n \in Nat : DOMAIN ctx.cluster.modules = 1..n
  BY <1>1, WellFormedParts
<1>5. /\ ctx.clients = Listed(objects["clients"], clients)
      /\ ctx.policies = Listed(objects["policies"], policies)
  BY <1>1
<1> QED BY <1>2, <1>3, <1>4, <1>5

(* Objects that are listed in another order are not rejected for that.     *)
LEMMA SameVerdict ==
  ASSUME NEW objects, WellFormedObjects(objects),
         NEW ctx \in ContextsOf(objects), NEW other \in ContextsOf(objects)
  PROVE  Verdict(ctx) = Verdict(other)
<1>1. ASSUME NEW c \in ContextsOf(objects)
      PROVE  Verdict(c) = VerdictOn({objects["clients"][x] : x \in Present(objects["clients"])},
                                    objects["cluster"].modules,
                                    {objects["policies"][x] : x \in Present(objects["policies"])})
  <2>1. Verdict(c) = VerdictOn(ToSet(c.clients), c.cluster.modules, ToSet(c.policies))
    BY ContextLists, VerdictIs
  <2> QED BY <2>1, ContextLists
<1> QED BY <1>1

(* A run that reads all parts as they are has one of their contexts, and   *)
(* there is such a run.                                                    *)
LEMMA DraftContext ==
  ASSUME NEW objects, NEW draft,
         \A part \in Parts : draft[part] \in Readings(part, objects[part])
  PROVE  Context(draft) \in ContextsOf(objects)
<1>1. draft["cluster"] = <<"cluster", objects["cluster"]>>
  BY DEF Parts, Readings
<1>2. PICK clients \in Listings(Present(objects["clients"])) :
        draft["clients"] = <<"clients", Listed(objects["clients"], clients)>>
  BY DEF Parts, Readings
<1>3. PICK policies \in Listings(Present(objects["policies"])) :
        draft["policies"] = <<"policies", Listed(objects["policies"], policies)>>
  BY DEF Parts, Readings
<1>4. Context(draft) = [cluster  |-> objects["cluster"],
                        clients  |-> Listed(objects["clients"], clients),
                        policies |-> Listed(objects["policies"], policies)]
  BY <1>1, <1>2, <1>3 DEF Context
<1> QED BY <1>4, ContextIs

LEMMA SomeReading ==
  ASSUME NEW objects, WellFormedObjects(objects), NEW part \in Parts
  PROVE  \E reading : reading \in Readings(part, objects[part])
<1>1. CASE part = "cluster"
  BY <1>1 DEF Readings
<1>2. CASE part \in {"clients", "policies"}
  <2>1. PICK order : order \in Listings(Present(objects[part]))
    BY <1>2, WellFormedParts, ListingOf
  <2> QED BY <1>2, <2>1 DEF Readings
<1> QED BY <1>1, <1>2 DEF Parts

(* The digest of the clients tells apart whatever render-clients would.    *)
LEMMA SameClients ==
  ASSUME NEW a, NEW b, IsFiniteSet(Present(a)), IsFiniteSet(Present(b)),
         \A name \in Present(a) : a[name].name = name,
         \A name \in Present(b) : b[name].name = name,
         NEW o \in Listings(Present(a)), NEW p \in Listings(Present(b)),
         HashedClients(Listed(a, o)) = HashedClients(Listed(b, p))
  PROVE  LiveClients(a) = LiveClients(b)
<1> DEFINE m == Cardinality(Present(a))
           n == Cardinality(Present(b))
           ha == HashedClients(Listed(a, o))
           hb == HashedClients(Listed(b, p))
<1>1. /\ m \in Nat /\ o \in [1..m -> Present(a)]
      /\ \A x \in Present(a) : \E i \in 1..m : o[i] = x
  BY ListingIsBijection
<1>2. /\ n \in Nat /\ p \in [1..n -> Present(b)]
      /\ \A x \in Present(b) : \E i \in 1..n : p[i] = x
  BY ListingIsBijection
<1>3. /\ DOMAIN ha = 1..m
      /\ \A i \in 1..m : ha[i] = [name |-> a[o[i]].name, ip |-> a[o[i]].ip,
                                 secret |-> a[o[i]].secret, nas |-> a[o[i]].nas]
  BY <1>1 DEF HashedClients, Listed
<1>4. /\ DOMAIN hb = 1..n
      /\ \A i \in 1..n : hb[i] = [name |-> b[p[i]].name, ip |-> b[p[i]].ip,
                                 secret |-> b[p[i]].secret, nas |-> b[p[i]].nas]
  BY <1>2 DEF HashedClients, Listed
<1>5. 1..m = 1..n /\ \A i \in 1..m : ha[i] = hb[i]
  <2>1. ha = hb
    OBVIOUS
  <2> QED BY <1>3, <1>4, <2>1
<1> HIDE DEF ha, hb, m, n
<1>6. \A i \in 1..m :
        /\ a[o[i]].name = b[p[i]].name /\ a[o[i]].ip = b[p[i]].ip
        /\ a[o[i]].secret = b[p[i]].secret /\ a[o[i]].nas = b[p[i]].nas
  <2> TAKE i \in 1..m
  <2>1. ha[i] = hb[i] /\ i \in 1..n
    BY <1>5
  <2>2. ha[i].name = hb[i].name /\ ha[i].ip = hb[i].ip
        /\ ha[i].secret = hb[i].secret /\ ha[i].nas = hb[i].nas
    BY <2>1
  <2>3. ha[i].name = a[o[i]].name /\ ha[i].ip = a[o[i]].ip
        /\ ha[i].secret = a[o[i]].secret /\ ha[i].nas = a[o[i]].nas
    BY <1>3
  <2>4. hb[i].name = b[p[i]].name /\ hb[i].ip = b[p[i]].ip
        /\ hb[i].secret = b[p[i]].secret /\ hb[i].nas = b[p[i]].nas
    BY <2>1, <1>4
  <2> QED BY <2>2, <2>3, <2>4
<1>7. \A i \in 1..m : o[i] = p[i]
  <2> TAKE i \in 1..m
  <2>1. o[i] \in Present(a) /\ p[i] \in Present(b)
    BY <1>1, <1>2, <1>5
  <2>2. a[o[i]].name = o[i] /\ b[p[i]].name = p[i]
    BY <2>1
  <2>3. a[o[i]].name = b[p[i]].name
    BY <1>6
  <2> QED BY <2>2, <2>3
<1>8. Present(a) = Present(b)
  <2>1. ASSUME NEW x \in Present(a) PROVE x \in Present(b)
    <3>1. PICK i \in 1..m : o[i] = x
      BY <1>1
    <3>2. p[i] = x /\ i \in 1..n
      BY <3>1, <1>5, <1>7
    <3> QED BY <3>2, <1>2
  <2>2. ASSUME NEW x \in Present(b) PROVE x \in Present(a)
    <3>1. PICK i \in 1..n : p[i] = x
      BY <1>2
    <3>2. o[i] = x /\ i \in 1..m
      BY <3>1, <1>5, <1>7
    <3> QED BY <3>2, <1>1
  <2> QED BY <2>1, <2>2
<1>9. \A name \in Present(a) :
        a[name].ip = b[name].ip /\ a[name].nas = b[name].nas /\ a[name].secret = b[name].secret
  <2> TAKE name \in Present(a)
  <2>1. PICK i \in 1..m : o[i] = name
    BY <1>1
  <2> QED BY <2>1, <1>6, <1>7
<1> QED BY <1>8, <1>9 DEF LiveClients

-----------------------------------------------------------------------------
(* The files.                                                              *)

(* A file is one of the renderer's own or that of an enabled module.       *)
LEMMA FileOf ==
  ASSUME NEW ctx, NEW n \in Nat, DOMAIN ctx.cluster.modules = 1..n,
         NEW path \in DOMAIN Render(ctx)
  PROVE  \/ path \in CorePaths /\ Render(ctx)[path] = CoreFile(ctx, path)
         \/ /\ path \notin CorePaths
            /\ \E m \in ToSet(ctx.cluster.modules) :
                 /\ m.enabled /\ path \in ModulePaths(m)
                 /\ Render(ctx)[path] = ModuleFile(m, path)
<1> DEFINE modules == ctx.cluster.modules
           With(i) == path \in ModulePaths(modules[i])
           Holders == {i \in Enabled(modules) : With(i)}
           Latest(i) == i \in Enabled(modules) /\ With(i) /\ \A j \in Enabled(modules) : With(j) => j <= i
           last == CHOOSE i \in Enabled(modules) :
                     With(i) /\ \A j \in Enabled(modules) : With(j) => j <= i
<1>1. /\ path \in CorePaths \cup UNION {ModulePaths(modules[i]) : i \in Enabled(modules)}
      /\ Render(ctx)[path] = IF path \in CorePaths THEN CoreFile(ctx, path)
                                                   ELSE ModuleFile(modules[last], path)
  BY DEF Render, FilesOf
<1>2. CASE path \in CorePaths
  BY <1>1, <1>2
<1>3. CASE path \notin CorePaths
  <2>1. Holders # {} /\ Holders \subseteq 0..n
    BY <1>1, <1>3 DEF Enabled
  <2>2. \E i : Latest(i)
    <3>1. PICK i \in Holders : \A j \in Holders : j <= i
      <4> HIDE DEF Holders
      <4> QED BY <2>1, NatMax
    <3> QED BY <3>1
  <2>3. Latest(last)
    <3> HIDE DEF With
    <3> QED BY <2>2
  <2>4. modules[last] \in ToSet(modules) /\ modules[last].enabled
    BY <2>3 DEF Enabled, ToSet
  <2> QED BY <1>1, <1>3, <2>3, <2>4
<1> QED BY <1>2, <1>3

LEMMA PathsOf ==
  ASSUME NEW ctx
  PROVE  DOMAIN Render(ctx) =
           CorePaths \cup UNION {ModulePaths(m) : m \in {x \in ToSet(ctx.cluster.modules) : x.enabled}}
<1>1. DOMAIN Render(ctx) = CorePaths \cup
        UNION {ModulePaths(ctx.cluster.modules[i]) : i \in Enabled(ctx.cluster.modules)}
  BY DEF Render, FilesOf
<1>2. {ModulePaths(ctx.cluster.modules[i]) : i \in Enabled(ctx.cluster.modules)}
        = {ModulePaths(m) : m \in {x \in ToSet(ctx.cluster.modules) : x.enabled}}
  BY DEF Enabled, ToSet
<1> QED BY <1>1, <1>2

(* Every Secret that a file refers to is mounted.                          *)
LEMMA RefsMounted ==
  ASSUME NEW objects, WellFormedObjects(objects), NEW ctx \in ContextsOf(objects),
         NEW path \in DOMAIN Render(ctx), NEW ref \in Render(ctx)[path].refs
  PROVE  ref.name \in collectSecretRefs(ctx)
<1>1. PICK n \in Nat : DOMAIN ctx.cluster.modules = 1..n
  BY ContextLists
<1>2. CASE path \in CorePaths /\ Render(ctx)[path] = CoreFile(ctx, path)
  <2>1. path = <<"clients.conf">> /\ ref \in ClientsConf(ctx.clients).refs
    <3>1. CASE path = <<"clients.conf">>
      BY <1>2, <3>1 DEF CoreFile
    <3>2. CASE path = <<"radiusd.conf">>
      <4>1. Render(ctx)[path] = RadiusdConf(ctx.cluster)
        BY <1>2, <3>2 DEF CoreFile
      <4>2. RadiusdConf(ctx.cluster).refs = {}
        BY DEF RadiusdConf, File
      <4> QED BY <4>1, <4>2
    <3>3. CASE path = <<"sites-enabled", "default">>
      <4>1. Render(ctx)[path] = Sites(ctx.policies, ctx.cluster.coa)
        BY <1>2, <3>3 DEF CoreFile
      <4>2. Sites(ctx.policies, ctx.cluster.coa).refs = {}
        BY DEF Sites, File
      <4> QED BY <4>1, <4>2
    <3> QED BY <1>2, <3>1, <3>2, <3>3 DEF CorePaths
  <2>2. PICK i \in DOMAIN ctx.clients : ref = ctx.clients[i].secret
    BY <2>1 DEF ClientsConf, File
  <2>3. ref \in {c.secret : c \in ToSet(ctx.clients)}
    BY <2>2 DEF ToSet
  <2> QED BY <2>3 DEF collectSecretRefs
<1>3. ASSUME NEW m \in ToSet(ctx.cluster.modules), m.enabled, path \in ModulePaths(m),
             Render(ctx)[path] = ModuleFile(m, path)
      PROVE  ref.name \in collectSecretRefs(ctx)
  <2>1. ref \in Password(m)
    BY <1>3 DEF ModuleFile, File
  <2>2. HasSection(m) /\ ref = Section(m).password /\ ref # None
    BY <2>1 DEF Password
  <2>3. ref = m.config[SectionOf[m.type]].password /\ SectionOf[m.type] \in DOMAIN m.config
    BY <2>2 DEF HasSection, Section
  <2>4. m \in ToSet(objects["cluster"].modules)
    BY <1>3, ContextLists
  <2>5. SectionOf[m.type] \in PasswordSections
    BY <2>2, <2>3, <2>4, WellFormedParts
  <2>6. ref \in ModuleSecrets(m)
    BY <1>3, <2>2, <2>3, <2>5 DEF ModuleSecrets
  <2> QED BY <1>3, <2>6 DEF collectSecretRefs
<1> QED BY <1>1, <1>2, <1>3, FileOf

LEMMA ConfigRefsMounted ==
  ASSUME NEW objects, WellFormedObjects(objects), NEW ctx \in ContextsOf(objects),
         NEW key \in DOMAIN ConfigMapData(Render(ctx)),
         NEW ref \in ConfigMapData(Render(ctx))[key].refs
  PROVE  ref.name \in collectSecretRefs(ctx)
<1> DEFINE path == CHOOSE path \in DOMAIN Render(ctx) : Key(path) = key
<1>1. path \in DOMAIN Render(ctx) /\ ConfigMapData(Render(ctx))[key] = Render(ctx)[path]
  BY DEF ConfigMapData
<1> HIDE DEF path
<1> QED BY <1>1, RefsMounted

(* So is that of every client.                                             *)
LEMMA ClientMounted ==
  ASSUME NEW objects, WellFormedObjects(objects), NEW ctx \in ContextsOf(objects),
         NEW name \in Present(objects["clients"])
  PROVE  objects["clients"][name].secret.name \in collectSecretRefs(ctx)
<1>1. objects["clients"][name] \in ToSet(ctx.clients)
  BY ContextLists
<1> QED BY <1>1 DEF collectSecretRefs

LEMMA Singleton ==
  ASSUME NEW S, NEW x \in S
  PROVE  <<x>> \in Seq(S) /\ Len(<<x>>) = 1 /\ <<x>>[1] = x
OBVIOUS

(* The pieces of a name.                                                   *)
LEMMA PiecesType ==
  ASSUME NEW name \in STRING
  PROVE  /\ PiecesOf(name) \in Seq(STRING) /\ Len(PiecesOf(name)) >= 1
         /\ Len(PiecesOf(name)) = 1 => name \notin DOMAIN Pieces /\ PiecesOf(name) = <<name>>
         /\ name \notin DOMAIN Pieces => PiecesOf(name) = <<name>>
<1>1. CASE name \in DOMAIN Pieces
  <2>1. PiecesOf(name) = Pieces[name]
    BY <1>1 DEF PiecesOf
  <2>2. Pieces[name] \in Seq(STRING) /\ Len(Pieces[name]) > 1
    BY <1>1, PiecesAssumption
  <2> DEFINE pieces == Pieces[name]
  <2> HIDE DEF pieces
  <2>3. pieces \in Seq(STRING) /\ Len(pieces) > 1
    BY <2>2 DEF pieces
  <2>4. Len(pieces) >= 1 /\ Len(pieces) # 1
    <3> DEFINE n == Len(pieces)
    <3>1. n \in Nat /\ n > 1
      BY ONLY <2>3
    <3> HIDE DEF n
    <3>2. n >= 1 /\ n # 1
      BY ONLY <3>1
    <3> QED BY ONLY <3>2 DEF n
  <2> QED BY ONLY <1>1, <2>1, <2>3, <2>4, Zenon DEF pieces
<1>2. CASE name \notin DOMAIN Pieces
  <2>1. PiecesOf(name) = <<name>>
    BY <1>2 DEF PiecesOf
  <2>2. <<name>> \in Seq(STRING) /\ Len(<<name>>) = 1
    BY ONLY name \in STRING, Singleton
  <2>3. 1 >= 1
    BY ONLY SMT
  <2> QED BY ONLY <1>2, <2>1, <2>2, <2>3, Zenon
<1> QED BY <1>1, <1>2

LEMMA FixedPieces ==
  ASSUME NEW name \in FixedNames
  PROVE  PiecesOf(name) = <<name>>
BY PiecesAssumption DEF PiecesOf

LEMMA FirstStays ==
  ASSUME NEW S, NEW s \in Seq(S), NEW t \in Seq(S), Len(s) # 0
  PROVE  s \o t \in Seq(S) /\ Len(s \o t) # 0 /\ (s \o t)[1] = s[1]
OBVIOUS

(* Where radiusd looks for modules there are those without "__" in their   *)
(* names.                                                                  *)
IsModuleKey(key) == Len(key) = 2 /\ key[1] = "mods-enabled"

LEMMA KeyOfModule ==
  ASSUME NEW name \in STRING
  PROVE  /\ IsModuleKey(Key(<<"mods-enabled", name>>)) <=> name \notin DOMAIN Pieces
         /\ name \notin DOMAIN Pieces => Last(Key(<<"mods-enabled", name>>)) = name
<1>1. PiecesOf("mods-enabled") = <<"mods-enabled">>
  BY FixedPieces DEF FixedNames
<1>2. Key(<<"mods-enabled", name>>) = <<"mods-enabled">> \o PiecesOf(name)
  <2> DEFINE path == <<"mods-enabled", name>>
  <2>1. Len(path) = 2 /\ path[1] = "mods-enabled" /\ path[2] = name
    OBVIOUS
  <2> HIDE DEF path
  <2>2. Key(path) = PiecesOf(path[1]) \o PiecesOf(path[2])
    BY <2>1 DEF Key
  <2> QED BY <1>1, <2>1, <2>2 DEF path
<1> DEFINE pieces == PiecesOf(name)
<1>3. /\ pieces \in Seq(STRING) /\ Len(pieces) >= 1
      /\ Len(pieces) = 1 => name \notin DOMAIN Pieces /\ pieces = <<name>>
      /\ name \notin DOMAIN Pieces => pieces = <<name>>
  BY PiecesType
<1> HIDE DEF pieces
<1>4. /\ Len(<<"mods-enabled">> \o pieces) = 1 + Len(pieces)
      /\ (<<"mods-enabled">> \o pieces)[1] = "mods-enabled"
      /\ Len(pieces) >= 1 => (<<"mods-enabled">> \o pieces)[2] = pieces[1]
  BY <1>3
<1>5. Len(<<name>>) = 1 /\ <<name>>[1] = name
  OBVIOUS
<1>6. IsModuleKey(Key(<<"mods-enabled", name>>)) <=> Len(pieces) = 1
  <2> DEFINE n == Len(pieces)
  <2>1. n \in Nat
    BY <1>3
  <2>2. IsModuleKey(Key(<<"mods-enabled", name>>)) <=> 1 + n = 2
    BY <1>2, <1>4 DEF IsModuleKey, pieces
  <2> HIDE DEF n
  <2>3. 1 + n = 2 <=> n = 1
    BY <2>1
  <2> QED BY <2>2, <2>3 DEF n
<1>7. pieces = <<name>> => Last(Key(<<"mods-enabled", name>>)) = name
  <2> DEFINE key == <<"mods-enabled">> \o pieces
  <2>1. pieces = <<name>> => Len(pieces) = 1 /\ pieces[1] = name
    BY <1>5
  <2>2. Len(key) = 1 + Len(pieces) /\ key[2] = pieces[1]
    BY <1>3, <1>4
  <2>3. Key(<<"mods-enabled", name>>) = key
    BY <1>2 DEF pieces
  <2> HIDE DEF key
  <2>4. ASSUME pieces = <<name>> PROVE Len(key) = 2 /\ key[2] = name
    <3> DEFINE n == Len(pieces)
               l == Len(key)
    <3>1. n = 1 /\ pieces[1] = name
      BY <2>1, <2>4
    <3>2. l = 1 + n
      BY <2>2
    <3> HIDE DEF n, l
    <3>3. l = 2
      BY <3>1, <3>2
    <3> QED BY <2>2, <3>1, <3>3 DEF l
  <2> QED BY <2>3, <2>4 DEF Last
<1> QED BY <1>3, <1>5, <1>6, <1>7

LEMMA KeyOfCore ==
  ASSUME NEW path \in CorePaths
  PROVE  ~IsModuleKey(Key(path))
<1>1. CASE path = <<"clients.conf">> \/ path = <<"radiusd.conf">>
  <2>1. Len(path) = 1 /\ path[1] \in FixedNames
    BY <1>1 DEF FixedNames
  <2>2. Key(path) = <<path[1]>>
    BY <2>1, FixedPieces DEF Key
  <2> QED BY <2>2 DEF IsModuleKey
<1>2. CASE path = <<"sites-enabled", "default">>
  <2>1. Len(path) = 2 /\ path[1] = "sites-enabled" /\ path[2] = "default"
    BY <1>2
  <2>2. Key(path) = PiecesOf("sites-enabled") \o PiecesOf("default")
    BY <2>1 DEF Key
  <2>3. Key(path) = <<"sites-enabled">> \o <<"default">>
    BY <2>2, FixedPieces DEF FixedNames
  <2>4. (<<"sites-enabled">> \o <<"default">>)[1] = "sites-enabled"
    OBVIOUS
  <2> QED BY <2>3, <2>4 DEF IsModuleKey
<1> QED BY <1>1, <1>2 DEF CorePaths

LEMMA KeyOfData ==
  ASSUME NEW name \in STRING, NEW file \in STRING
  PROVE  ~IsModuleKey(Key(<<"mods-config", name, file>>))
<1> DEFINE path == <<"mods-config", name, file>>
<1>1. Len(path) = 3 /\ path[1] = "mods-config" /\ path[2] = name /\ path[3] = file
  OBVIOUS
<1> HIDE DEF path
<1>2. Key(path) = PiecesOf(path[1]) \o PiecesOf(path[2]) \o PiecesOf(path[3])
  BY <1>1 DEF Key
<1> DEFINE a == PiecesOf(name)
           b == PiecesOf(file)
<1>3. a \in Seq(STRING) /\ b \in Seq(STRING)
  BY PiecesType
<1>4. Key(path) = <<"mods-config">> \o a \o b
  BY <1>1, <1>2, FixedPieces DEF FixedNames
<1> HIDE DEF a, b
<1> DEFINE first == <<"mods-config">>
<1> DEFINE S == STRING \cup {"mods-config"}
<1>5. first \in Seq(S) /\ Len(first) # 0 /\ first[1] = "mods-config"
  BY Singleton, "mods-config" \in S
<1>6. a \in Seq(S) /\ b \in Seq(S)
  <2>1. STRING \subseteq S
    OBVIOUS
  <2> HIDE DEF S
  <2> QED BY <1>3, <2>1, SeqMonotonic
<1> HIDE DEF first, S
<1>7. first \o a \in Seq(S) /\ Len(first \o a) # 0 /\ (first \o a)[1] = first[1]
  BY ONLY <1>5, <1>6, FirstStays
<1>8. (first \o a \o b)[1] = (first \o a)[1]
  BY ONLY <1>7, <1>6, FirstStays
<1> QED BY <1>4, <1>5, <1>7, <1>8, Zenon DEF IsModuleKey, first, path

LEMMA ModuleKeys ==
  ASSUME NEW objects, WellFormedObjects(objects), NEW ctx \in ContextsOf(objects)
  PROVE  {Last(key) : key \in {k \in DOMAIN ConfigMapData(Render(ctx)) : IsModuleKey(k)}}
           = {m.name : m \in {n \in ToSet(objects["cluster"].modules) : n.enabled}}
               \ DOMAIN Pieces
<1> DEFINE Keys == {k \in DOMAIN ConfigMapData(Render(ctx)) : IsModuleKey(k)}
           Active == {n \in ToSet(objects["cluster"].modules) : n.enabled}
<1>1. DOMAIN ConfigMapData(Render(ctx)) = {Key(path) : path \in DOMAIN Render(ctx)}
  BY DEF ConfigMapData
<1>2. DOMAIN Render(ctx) = CorePaths \cup UNION {ModulePaths(m) : m \in Active}
  <2>1. ctx.cluster.modules = objects["cluster"].modules
    BY ContextLists
  <2> QED BY <2>1, PathsOf
<1>3. ASSUME NEW m \in Active
      PROVE  m.name \in STRING /\ DataFiles(m) \subseteq STRING
  BY WellFormedParts
<1> HIDE DEF Active
<1>4. ASSUME NEW key \in Keys
      PROVE  \E m \in Active : m.name \notin DOMAIN Pieces /\ Last(key) = m.name
  <2>1. PICK path \in DOMAIN Render(ctx) : key = Key(path)
    BY <1>1
  <2>2. path \notin CorePaths
    BY <2>1, KeyOfCore
  <2>3. PICK m \in Active : path \in ModulePaths(m)
    BY <1>2, <2>2
  <2>4. path = <<"mods-enabled", m.name>>
    BY <2>1, <2>3, <1>3, KeyOfData DEF ModulePaths
  <2> QED BY <2>1, <2>4, <1>3, KeyOfModule
<1>5. ASSUME NEW m \in Active, m.name \notin DOMAIN Pieces
      PROVE  \E key \in Keys : Last(key) = m.name
  <2>1. <<"mods-enabled", m.name>> \in DOMAIN Render(ctx)
    BY <1>2 DEF ModulePaths
  <2>2. Key(<<"mods-enabled", m.name>>) \in Keys
    BY <1>1, <1>3, <1>5, <2>1, KeyOfModule
  <2> QED BY <1>3, <1>5, <2>2, KeyOfModule
<1> HIDE DEF Keys
<1>6. {Last(key) : key \in Keys} = {m.name : m \in Active} \ DOMAIN Pieces
  BY <1>4, <1>5
<1> QED BY <1>6 DEF Keys, Active

-----------------------------------------------------------------------------
(* The order of policies.                                                  *)

(* A finite set of positions has a listing by priority.                    *)
LEMMA PrecedesOrder ==
  ASSUME NEW policies, NEW S, S \subseteq Nat, \A i \in S : policies[i].priority \in Int
  PROVE  /\ \A i \in S : ~Precedes(policies, i, i)
         /\ \A i, j \in S : i # j => Precedes(policies, i, j) \/ Precedes(policies, j, i)
         /\ \A i, j, k \in S :
              Precedes(policies, i, j) /\ Precedes(policies, j, k) => Precedes(policies, i, k)
BY DEF Precedes

LEMMA SortedListing ==
  ASSUME NEW policies, NEW S, S \subseteq Nat, IsFiniteSet(S),
         \A i \in S : policies[i].priority \in Int
  PROVE  \E order \in Listings(S) :
           \A a, b \in DOMAIN order : a < b => Precedes(policies, order[a], order[b])
<1> DEFINE n == Cardinality(S)
           Before(i) == {j \in S : Precedes(policies, j, i)}
           rank == [i \in S |-> Cardinality(Before(i)) + 1]
<1>1. /\ \A i \in S : ~Precedes(policies, i, i)
      /\ \A i, j \in S : i # j => Precedes(policies, i, j) \/ Precedes(policies, j, i)
      /\ \A i, j, k \in S :
           Precedes(policies, i, j) /\ Precedes(policies, j, k) => Precedes(policies, i, k)
  BY PrecedesOrder
<1>2. n \in Nat
  BY FS_CardinalityType
<1>3. ASSUME NEW i \in S
      PROVE  /\ IsFiniteSet(Before(i)) /\ Cardinality(Before(i)) \in Nat
             /\ Cardinality(Before(i)) < n
  <2>1. Before(i) \in SUBSET S /\ Before(i) # S
    BY <1>1
  <2> HIDE DEF Before
  <2>2. /\ IsFiniteSet(Before(i)) /\ Cardinality(Before(i)) <= n
        /\ Cardinality(Before(i)) # n
    BY <2>1, FS_Subset
  <2>3. Cardinality(Before(i)) \in Nat
    BY <2>2, FS_CardinalityType
  <2> QED BY <2>2, <2>3, <1>2
<1>4. ASSUME NEW i \in S, NEW j \in S, Precedes(policies, i, j)
      PROVE  rank[i] < rank[j]
  <2>1. Before(i) \in SUBSET Before(j) /\ Before(i) # Before(j)
    BY <1>1, <1>4
  <2>2. rank[i] = Cardinality(Before(i)) + 1 /\ rank[j] = Cardinality(Before(j)) + 1
    OBVIOUS
  <2> HIDE DEF Before, rank
  <2>3. /\ Cardinality(Before(i)) <= Cardinality(Before(j))
        /\ Cardinality(Before(i)) # Cardinality(Before(j))
    BY <1>3, <2>1, FS_Subset
  <2>4. Cardinality(Before(i)) \in Nat /\ Cardinality(Before(j)) \in Nat
    BY <1>3
  <2> QED BY <2>2, <2>3, <2>4
<1>5. rank \in [S -> 1..n]
  <2>1. ASSUME NEW i \in S PROVE Cardinality(Before(i)) + 1 \in 1..n
    <3> HIDE DEF Before, n
    <3> QED BY <1>2, <1>3
  <2> HIDE DEF Before
  <2> QED BY <2>1
<1> HIDE DEF rank, Before
<1>6. rank \in Bijection(S, 1..n)
  <2>1. \A i, j \in S : rank[i] = rank[j] => i = j
    <3> SUFFICES ASSUME NEW i \in S, NEW j \in S, i # j PROVE rank[i] # rank[j]
      OBVIOUS
    <3>1. rank[i] \in Int /\ rank[j] \in Int
      <4>1. rank[i] \in 1..n /\ rank[j] \in 1..n
        BY <1>5
      <4> HIDE DEF n
      <4> QED BY <1>2, <4>1
    <3>2. rank[i] < rank[j] \/ rank[j] < rank[i]
      BY <1>1, <1>4
    <3> QED BY <3>1, <3>2
  <2>2. rank \in Injection(S, 1..n)
    BY <1>5, <2>1, Fun_IsInj
  <2>3. IsFiniteSet(1..n) /\ Cardinality(1..n) = n
    <3> HIDE DEF n
    <3>1. n \in Int /\ 1 \in Int /\ (IF 1 > n THEN 0 ELSE n - 1 + 1) = n
      BY <1>2
    <3> QED BY <3>1, FS_Interval
  <2>4. rank \in Surjection(S, 1..n)
    BY <2>2, <2>3, FS_Injection
  <2> QED BY <2>2, <2>4 DEF Bijection
<1> DEFINE order == Inverse(rank, S, 1..n)
<1>7. order \in Bijection(1..n, S) /\ \A i \in S : order[rank[i]] = i
  BY <1>6, Fun_BijInverse
<1> HIDE DEF order
<1>8. order \in [1..n -> S] /\ \A k \in 1..n : \E i \in S : rank[i] = k
  <2>1. order \in [1..n -> S]
    BY <1>7, Fun_BijectionProperties
  <2>2. \A k \in 1..n : \E i \in S : rank[i] = k
    <3> HIDE DEF n
    <3>1. rank \in Surjection(S, 1..n)
      BY <1>6 DEF Bijection
    <3> QED BY <3>1 DEF Surjection
  <2> QED BY <2>1, <2>2
<1>9. ASSUME NEW a \in 1..n, NEW b \in 1..n, a < b
      PROVE  Precedes(policies, order[a], order[b])
  <2>1. PICK i \in S, j \in S : rank[i] = a /\ rank[j] = b
    BY <1>8
  <2>2. order[a] = i /\ order[b] = j
    BY <1>7, <2>1
  <2>3. i # j /\ ~Precedes(policies, j, i)
    BY <1>4, <1>9, <2>1
  <2> QED BY <1>1, <2>2, <2>3
<1> QED BY <1>7, <1>8, <1>9 DEF Listings

(* The policies of one stage go by their priorities, if these differ.      *)
Differ(policies) ==
  \A p, q \in Present(policies) : p # q =>
    policies[p].stage # policies[q].stage \/ policies[p].priority # policies[q].priority

Ascending(policies, names) ==
  \A a, b \in DOMAIN names : a < b => policies[names[a]].priority < policies[names[b]].priority

LEMMA AscendingIsUnique ==
  ASSUME NEW policies, NEW X, IsFiniteSet(X), \A x \in X : policies[x].priority \in Int,
         NEW v \in Listings(X), NEW w \in Listings(X),
         Ascending(policies, v), Ascending(policies, w)
  PROVE  v = w
<1> DEFINE n == Cardinality(X)
           Different == {i \in 1..n : v[i] # w[i]}
<1>1. /\ n \in Nat /\ v \in [1..n -> X]
      /\ \A i, j \in 1..n : v[i] = v[j] => i = j
      /\ \A x \in X : \E i \in 1..n : v[i] = x
  BY ListingIsBijection
<1>2. /\ w \in [1..n -> X]
      /\ \A i, j \in 1..n : w[i] = w[j] => i = j
      /\ \A x \in X : \E i \in 1..n : w[i] = x
  BY ListingIsBijection
<1>3. Different = {}
  <2> SUFFICES ASSUME Different # {} PROVE FALSE
    OBVIOUS
  <2>1. PICK d \in Different : \A i \in Different : d <= i
    <3>1. Different \subseteq Nat
      OBVIOUS
    <3> HIDE DEF Different
    <3> QED BY <3>1, NatMin
  <2> HIDE DEF n
  <2>2. d \in 1..n /\ v[d] # w[d] /\ \A i \in 1..n : i < d => v[i] = w[i]
    BY <1>1, <2>1
  <2>3. policies[v[d]].priority \in Int /\ policies[w[d]].priority \in Int
    BY <1>1, <1>2, <2>2
  <2>4. policies[w[d]].priority < policies[v[d]].priority
    <3>1. PICK j \in 1..n : w[j] = v[d]
      BY <1>1, <1>2, <2>2
    <3>2. j # d /\ ~(j < d)
      BY <1>1, <2>2, <3>1
    <3>3. d < j
      BY <3>2, <2>2
    <3> QED BY <1>2, <2>2, <3>1, <3>3 DEF Ascending
  <2>5. policies[v[d]].priority < policies[w[d]].priority
    <3>1. PICK j \in 1..n : v[j] = w[d]
      BY <1>1, <1>2, <2>2
    <3>2. j # d /\ ~(j < d)
      BY <1>2, <2>2, <3>1
    <3>3. d < j
      BY <3>2, <2>2
    <3> QED BY <1>1, <2>2, <3>1, <3>3 DEF Ascending
  <2> QED BY <2>3, <2>4, <2>5
<1>4. \A i \in 1..n : v[i] = w[i]
  BY <1>3
<1> HIDE DEF n
<1> QED BY <1>1, <1>2, <1>4

LEMMA StageSitesAre ==
  ASSUME NEW policies, IsFiniteSet(Present(policies)), Differ(policies),
         \A x \in Present(policies) : policies[x].priority \in Int,
         NEW o \in Listings(Present(policies)), NEW stage
  PROVE  \E names \in Listings({x \in Present(policies) : policies[x].stage = stage}) :
           /\ Ascending(policies, names)
           /\ StageSites(Listed(policies, o), stage) = [i \in DOMAIN names |-> policies[names[i]]]
<1> DEFINE X == {x \in Present(policies) : policies[x].stage = stage}
           N == Cardinality(Present(policies))
           list == Listed(policies, o)
           S == OfStage(list, stage)
           n == Cardinality(S)
           order == ByPriority(list, S)
           names == [k \in 1..n |-> o[order[k]]]
<1>1. /\ N \in Nat /\ o \in [1..N -> Present(policies)]
      /\ \A i, j \in 1..N : o[i] = o[j] => i = j
      /\ \A x \in Present(policies) : \E i \in 1..N : o[i] = x
  BY ListingIsBijection
<1> HIDE DEF N
<1>2. DOMAIN list = 1..N /\ \A i \in 1..N : list[i] = policies[o[i]]
  BY <1>1 DEF Listed
<1> HIDE DEF list
<1>3. S = {i \in 1..N : policies[o[i]].stage = stage}
  BY <1>2 DEF OfStage
<1>4. S \subseteq Nat /\ IsFiniteSet(S) /\ \A i \in S : list[i].priority \in Int
  <2>1. IsFiniteSet(1..N)
    BY <1>1, FS_Interval
  <2>2. S \in SUBSET (1..N)
    BY <1>3
  <2>3. IsFiniteSet(S)
    BY <2>1, <2>2, FS_Subset
  <2> QED BY <1>1, <1>2, <1>3, <2>3
<1>5. [i \in S |-> o[i]] \in Bijection(S, X)
  <2>1. [i \in S |-> o[i]] \in [S -> X]
    BY <1>1, <1>3
  <2>2. \A i, j \in S : [k \in S |-> o[k]][i] = [k \in S |-> o[k]][j] => i = j
    BY <1>1, <1>3
  <2>3. \A x \in X : \E i \in S : [k \in S |-> o[k]][i] = x
    BY <1>1, <1>3
  <2> QED BY <2>1, <2>2, <2>3, Fun_IsBij
<1> HIDE DEF S
<1>6. n = Cardinality(X)
  BY <1>4, <1>5, FS_Bijection, Zenon DEF ExistsBijection
<1>7. /\ order \in Listings(S)
      /\ \A a, b \in DOMAIN order : a < b => Precedes(list, order[a], order[b])
  BY <1>4, SortedListing DEF ByPriority
<1>8. /\ n \in Nat /\ order \in [1..n -> S]
      /\ \A i, j \in 1..n : order[i] = order[j] => i = j
      /\ \A x \in S : \E i \in 1..n : order[i] = x
  BY <1>4, <1>7, ListingIsBijection
<1>9. StageSites(list, stage) = [k \in 1..n |-> list[order[k]]]
  BY <1>8 DEF StageSites, S
<1> HIDE DEF order, n
<1>10. names \in Listings(X)
  <2>1. names \in [1..n -> X]
    BY <1>1, <1>3, <1>8
  <2>2. \A i, j \in 1..n : names[i] = names[j] => i = j
    BY <1>1, <1>3, <1>8
  <2>3. \A x \in X : \E i \in 1..n : names[i] = x
    <3> TAKE x \in X
    <3>1. PICK i \in 1..N : o[i] = x
      BY <1>1
    <3>2. i \in S
      BY <1>3, <3>1
    <3> QED BY <3>1, <3>2, <1>8
  <2> HIDE DEF names, X
  <2>4. names \in Bijection(1..n, X)
    BY <2>1, <2>2, <2>3, Fun_IsBij
  <2> QED BY <1>6, <2>4 DEF Listings
<1>11. ASSUME NEW a \in 1..n, NEW b \in 1..n, a < b
       PROVE  policies[names[a]].priority < policies[names[b]].priority
  <2>1. Precedes(list, order[a], order[b])
    BY <1>7, <1>8, <1>11
  <2>2. order[a] \in S /\ order[b] \in S /\ order[a] # order[b]
    BY <1>8, <1>11
  <2>3. /\ names[a] = o[order[a]] /\ names[b] = o[order[b]]
        /\ list[order[a]] = policies[names[a]] /\ list[order[b]] = policies[names[b]]
        /\ names[a] \in X /\ names[b] \in X /\ names[a] # names[b]
    BY <1>1, <1>2, <1>3, <2>2
  <2>4. policies[names[a]].priority # policies[names[b]].priority
    BY <2>3 DEF Differ
  <2> HIDE DEF names
  <2> QED BY <2>1, <2>3, <2>4 DEF Precedes
<1>12. DOMAIN names = 1..n /\ Ascending(policies, names)
  BY <1>11 DEF Ascending
<1>13. StageSites(list, stage) = [i \in DOMAIN names |-> policies[names[i]]]
  <2>1. \A k \in 1..n : list[order[k]] = policies[names[k]]
    BY <1>2, <1>3, <1>8
  <2> QED BY <1>9, <1>12, <2>1
<1> QED BY <1>10, <1>12, <1>13 DEF list

LEMMA SameSites ==
  ASSUME NEW policies, IsFiniteSet(Present(policies)), Differ(policies),
         \A x \in Present(policies) : policies[x].priority \in Int,
         NEW o \in Listings(Present(policies)), NEW n \in Listings(Present(policies)), NEW coa
  PROVE  Sites(Listed(policies, o), coa) = Sites(Listed(policies, n), coa)
<1> DEFINE StagesOf(list) == {list[i].stage : i \in DOMAIN list}
           X(stage) == {x \in Present(policies) : policies[x].stage = stage}
<1>1. StagesOf(Listed(policies, o)) = StagesOf(Listed(policies, n))
  <2>1. ASSUME NEW q \in Listings(Present(policies))
        PROVE  StagesOf(Listed(policies, q)) = {policies[x].stage : x \in Present(policies)}
    <3>1. /\ q \in [1..Cardinality(Present(policies)) -> Present(policies)]
          /\ \A x \in Present(policies) : \E i \in DOMAIN q : q[i] = x
      BY ListingIsBijection
    <3> QED BY <3>1 DEF Listed
  <2> QED BY <2>1
<1>2. ASSUME NEW stage
      PROVE  StageSites(Listed(policies, o), stage) = StageSites(Listed(policies, n), stage)
  <2>1. PICK v \in Listings(X(stage)) :
          /\ Ascending(policies, v)
          /\ StageSites(Listed(policies, o), stage) = [i \in DOMAIN v |-> policies[v[i]]]
    BY StageSitesAre
  <2>2. PICK w \in Listings(X(stage)) :
          /\ Ascending(policies, w)
          /\ StageSites(Listed(policies, n), stage) = [i \in DOMAIN w |-> policies[w[i]]]
    BY StageSitesAre
  <2>3. IsFiniteSet(X(stage))
    BY FS_Subset, X(stage) \in SUBSET Present(policies)
  <2>4. v = w
    BY <2>1, <2>2, <2>3, AscendingIsUnique
  <2> QED BY <2>1, <2>2, <2>4
<1> QED BY <1>1, <1>2 DEF Sites

=============================================================================
