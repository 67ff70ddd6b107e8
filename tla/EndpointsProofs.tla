---------------------------- MODULE EndpointsProofs ----------------------------
(***************************************************************************)
(* Proofs about Endpoints: its types, what is there when the operator      *)
(* rests, and that a change of topology creates before it deletes.         *)
(*                                                                         *)
(* The properties speak of the end of a run, or of one of its deletions.   *)
(* The invariant says how a run gets there: what is left to do is the end  *)
(* of the plan (Suffix), what has been done holds on the server as long as *)
(* nothing is pending (Applied), and what has been applied stands as long  *)
(* as nobody else deletes it (Standing).                                   *)
(***************************************************************************)
EXTENDS Endpoints, SequenceTheorems, TLAPS

(* The number of calls the worker has made of its plan.                    *)
Made == Len(Plan(run)) - Len(todo)

(* What is left to do is the end of the plan of the run.                   *)
Suffix ==
  /\ Len(todo) <= Len(Plan(run))
  /\ \A i \in 1..Len(todo) : todo[i] = Plan(run)[Made + i]

(* What is not marked stale is cached as it is on the server.              *)
CacheAgrees ==
  /\ ~specBehind => cachedSpec = spec
  /\ \A kind \in Kinds, name \in Names :
       <<kind, name>> \notin stale => cache[kind][name] = store[kind][name]

(* A call of the plan of spec s has its effect on the server.              *)
Holds(call, s) ==
  store[call.kind][call.name] = IF call.op = "apply" THEN Desired(s, call.kind, call.name)
                                                     ELSE None

(* While nothing is pending, the run is for the current spec and what it   *)
(* has done holds.                                                         *)
Applied ==
  ~Pending => /\ run = spec
              /\ \A i \in 1..Made : Holds(Plan(run)[i], run)

(* What the run has applied is still there, unless someone else deletes.   *)
Standing ==
  todo # << >> /\ deletions = 0 =>
    \A i \in 1..Made :
      LET call == Plan(run)[i]
      IN call.op = "apply" /\ call.kind \notin Extras => store[call.kind][call.name] # None

(* The inductive invariant.                                                *)
IInv == TypeOK /\ Suffix /\ CacheAgrees /\ Applied /\ Standing

-----------------------------------------------------------------------------
(* The plan.  An endpoint of the spec gets its calls, one of the other     *)
(* topology its deletions, and these come later.                           *)

(* What a spec has and what it must not have are different endpoints.      *)
LEMMA NamesByTopology ==
  ASSUME NEW s \in Specs
  PROVE  /\ WantedBy(s) \subseteq Names
         /\ UnwantedBy(s) \subseteq Names
         /\ WantedBy(s) \cap UnwantedBy(s) = {}
  BY Constants DEF ConstantsAssumption, WantedBy, UnwantedBy, IsUnified, Names, RoleNames

(* One role of the split topology.                                         *)
LEMMA OneRole ==
  ASSUME NEW s \in Specs, NEW role \in RoleNames
  PROVE  /\ IfNamed(s, role) \in Seq(RoleNames)
         /\ Range(IfNamed(s, role)) = ServicesOf[s] \cap {role}
<1>1. CASE role \in ServicesOf[s]
  <2>1. IfNamed(s, role) = <<role>>
    BY <1>1 DEF IfNamed
  <2>2. <<role>> \in Seq(RoleNames) /\ Range(<<role>>) = {role}
    BY DEF Range
  <2> QED BY <1>1, <2>1, <2>2
<1>2. CASE role \notin ServicesOf[s]
  <2>1. IfNamed(s, role) = << >>
    BY <1>2 DEF IfNamed
  <2>2. << >> \in Seq(RoleNames) /\ Range(<< >>) = {}
    BY DEF Range
  <2> QED BY <1>2, <2>1, <2>2
<1> QED BY <1>1, <1>2

(* buildEndpoints lists the endpoints of the spec.                         *)
LEMMA EndpointsOfSpec ==
  ASSUME NEW s \in Specs
  PROVE  /\ BuildEndpoints(s) \in Seq(Names)
         /\ Range(BuildEndpoints(s)) = WantedBy(s)
<1>1. CASE IsUnified(s)
  <2>1. BuildEndpoints(s) = <<Unified>> /\ WantedBy(s) = {Unified}
    BY <1>1 DEF BuildEndpoints, WantedBy
  <2>2. <<Unified>> \in Seq(Names) /\ Range(<<Unified>>) = {Unified}
    BY DEF Range, Names
  <2> QED BY <2>1, <2>2
<1>2. CASE ~IsUnified(s)
  <2> DEFINE a == IfNamed(s, Auth)
             b == IfNamed(s, Acct)
             c == IfNamed(s, CoA)
  <2>1. /\ a \in Seq(RoleNames) /\ Range(a) = ServicesOf[s] \cap {Auth}
        /\ b \in Seq(RoleNames) /\ Range(b) = ServicesOf[s] \cap {Acct}
        /\ c \in Seq(RoleNames) /\ Range(c) = ServicesOf[s] \cap {CoA}
    BY OneRole DEF RoleNames
  <2> HIDE DEF a, b, c
  <2> DEFINE ab == a \o b
  <2>2. ab \in Seq(RoleNames) /\ Range(ab) = Range(a) \cup Range(b)
    BY <2>1, RangeConcatenation
  <2> HIDE DEF ab
  <2>3. ab \o c \in Seq(RoleNames) /\ Range(ab \o c) = Range(ab) \cup Range(c)
    BY <2>1, <2>2, RangeConcatenation
  <2>4. BuildEndpoints(s) = ab \o c /\ WantedBy(s) = ServicesOf[s]
    BY <1>2 DEF BuildEndpoints, WantedBy, ab, a, b, c
  <2>5. ServicesOf[s] \subseteq {Auth, Acct, CoA}
    BY <1>2, Constants DEF ConstantsAssumption, IsUnified, RoleNames
  <2>6. ab \o c \in Seq(Names)
    BY <2>3, SeqMonotonic, RoleNames \subseteq Names DEF Names
  <2> QED BY <2>1, <2>2, <2>3, <2>4, <2>5, <2>6
<1> QED BY <1>1, <1>2

(* cleanupStaleResources goes through the other topology.                  *)
LEMMA StaleOfSpec ==
  ASSUME NEW s \in Specs
  PROVE  /\ StaleSuffixes(s) \in Seq(Names)
         /\ Range(StaleSuffixes(s)) = UnwantedBy(s)
<1>1. <<Unified>> \in Seq(Names) /\ Range(<<Unified>>) = {Unified}
  BY DEF Range, Names
<1>2. <<Auth, Acct, CoA>> \in Seq(Names) /\ Range(<<Auth, Acct, CoA>>) = RoleNames
  <2>1. <<Auth, Acct, CoA>> \in Seq(Names)
    BY DEF Names, RoleNames
  <2>2. DOMAIN <<Auth, Acct, CoA>> = {1, 2, 3}
    OBVIOUS
  <2> QED BY <2>1, <2>2 DEF Range, RoleNames
<1> QED BY <1>1, <1>2 DEF StaleSuffixes, UnwantedBy

(* For every name one call for the Deployment, then one for the Service.   *)
LEMMA PairsOfNames ==
  ASSUME NEW op \in {"apply", "delete"}, NEW names \in Seq(Names)
  PROVE  /\ Pairs(op, names) \in Seq(Calls)
         /\ Len(Pairs(op, names)) = 2 * Len(names)
         /\ \A i \in 1..(2 * Len(names)) :
              /\ Pairs(op, names)[i].op = op
              /\ Pairs(op, names)[i].kind \in {"deployment", "service"}
              /\ Pairs(op, names)[i].name \in Range(names)
         /\ \A name \in Range(names), kind \in {"deployment", "service"} :
              \E i \in 1..(2 * Len(names)) : Pairs(op, names)[i] = Call(op, kind, name)
<1> DEFINE n == Len(names)
           CallAt(i) == Call(op, IF i % 2 = 1 THEN "deployment" ELSE "service",
                             names[(i + 1) \div 2])
<1>1. n \in Nat /\ Pairs(op, names) = [i \in 1..(2 * n) |-> CallAt(i)]
  BY LenProperties DEF Pairs
<1>2. \A i \in 1..(2 * n) : (i + 1) \div 2 \in 1..n
  BY <1>1
<1>3. \A i \in 1..(2 * n) :
        /\ CallAt(i) \in Calls
        /\ CallAt(i).op = op /\ CallAt(i).kind \in {"deployment", "service"}
        /\ CallAt(i).name \in Range(names)
  <2> SUFFICES ASSUME NEW i \in 1..(2 * n)
               PROVE  /\ CallAt(i) \in Calls
                      /\ CallAt(i).op = op /\ CallAt(i).kind \in {"deployment", "service"}
                      /\ CallAt(i).name \in Range(names)
    OBVIOUS
  <2>1. names[(i + 1) \div 2] \in Names /\ names[(i + 1) \div 2] \in Range(names)
    BY <1>2, LenProperties DEF Range
  <2> HIDE DEF n
  <2> QED BY <2>1 DEF Call, Calls, Kinds
<1>4. \A name \in Range(names), kind \in {"deployment", "service"} :
        \E i \in 1..(2 * n) : CallAt(i) = Call(op, kind, name)
  <2> SUFFICES ASSUME NEW name \in Range(names)
               PROVE  /\ \E i \in 1..(2 * n) : CallAt(i) = Call(op, "deployment", name)
                      /\ \E i \in 1..(2 * n) : CallAt(i) = Call(op, "service", name)
    OBVIOUS
  <2>1. PICK j \in 1..n : names[j] = name
    BY LenProperties DEF Range
  <2>2. /\ 2 * j - 1 \in 1..(2 * n) /\ 2 * j \in 1..(2 * n)
        /\ (2 * j - 1) % 2 = 1 /\ (2 * j) % 2 # 1
        /\ (2 * j - 1 + 1) \div 2 = j /\ (2 * j + 1) \div 2 = j
    BY <1>1
  <2>3. CallAt(2 * j - 1) = Call(op, "deployment", name)
    BY <2>1, <2>2
  <2>4. CallAt(2 * j) = Call(op, "service", name)
    BY <2>1, <2>2
  <2> QED BY <2>2, <2>3, <2>4
<1> HIDE DEF CallAt
<1>5. Pairs(op, names) \in Seq(Calls) /\ Len(Pairs(op, names)) = 2 * n
  BY <1>1, <1>3
<1> QED BY <1>1, <1>3, <1>4, <1>5

(* For every name one call for the HPA.                                    *)
LEMMA AutoscalersOfNames ==
  ASSUME NEW s, NEW names \in Seq(Names)
  PROVE  /\ Autoscalers(s, names) \in Seq(Calls)
         /\ Len(Autoscalers(s, names)) = Len(names)
         /\ \A i \in 1..Len(names) : Autoscalers(s, names)[i].kind = "hpa"
         /\ \A name \in Range(names) : \E i \in 1..Len(names) :
              Autoscalers(s, names)[i] =
                Call(IF name \in AutoscaledOf[s] THEN "apply" ELSE "delete", "hpa", name)
<1> DEFINE CallFor(name) ==
             Call(IF name \in AutoscaledOf[s] THEN "apply" ELSE "delete", "hpa", name)
<1>1. /\ Len(names) \in Nat /\ names \in [1..Len(names) -> Names]
      /\ Autoscalers(s, names) = [i \in 1..Len(names) |-> CallFor(names[i])]
  BY LenProperties DEF Autoscalers
<1>2. \A name \in Names : CallFor(name) \in Calls /\ CallFor(name).kind = "hpa"
  BY DEF Call, Calls, Kinds
<1>3. \A name \in Range(names) : \E i \in 1..Len(names) : names[i] = name
  BY <1>1 DEF Range
<1> HIDE DEF CallFor
<1>4. Autoscalers(s, names) \in Seq(Calls) /\ Len(Autoscalers(s, names)) = Len(names)
  BY <1>1, <1>2
<1>5. \A name \in Range(names) : \E i \in 1..Len(names) :
        Autoscalers(s, names)[i] = CallFor(name)
  BY <1>1, <1>3
<1> QED BY <1>1, <1>2, <1>4, <1>5 DEF CallFor

(* The one call for the PDB.                                               *)
LEMMA BudgetOfSpec ==
  ASSUME NEW s \in Specs
  PROVE  /\ Budget(s) \in Seq(Calls) /\ Len(Budget(s)) = 1
         /\ Budget(s)[1] = Call(IF Budgeted(s) THEN "apply" ELSE "delete", "pdb", Unified)
<1>1. Call(IF Budgeted(s) THEN "apply" ELSE "delete", "pdb", Unified) \in Calls
  BY DEF Call, Calls, Kinds, Names
<1> QED BY <1>1 DEF Budget

(* The last part of a plan, the calls for what a spec may have or not.     *)
LEMMA ExtrasOfSpec ==
  ASSUME NEW s \in Specs
  PROVE  LET extras == Autoscalers(s, BuildEndpoints(s)) \o Budget(s)
         IN /\ extras \in Seq(Calls)
            /\ \A i \in 1..Len(extras) : extras[i].kind \in Extras
            /\ \A name \in WantedBy(s) : \E i \in 1..Len(extras) : extras[i] =
                 Call(IF name \in AutoscaledOf[s] THEN "apply" ELSE "delete", "hpa", name)
            /\ \E i \in 1..Len(extras) : extras[i] =
                 Call(IF Budgeted(s) THEN "apply" ELSE "delete", "pdb", Unified)
<1> DEFINE hpas == Autoscalers(s, BuildEndpoints(s))
           pdb == Budget(s)
           n == Len(hpas)
<1>1. /\ hpas \in Seq(Calls)
      /\ \A i \in 1..n : hpas[i].kind = "hpa"
      /\ \A name \in WantedBy(s) : \E i \in 1..n : hpas[i] =
           Call(IF name \in AutoscaledOf[s] THEN "apply" ELSE "delete", "hpa", name)
  BY EndpointsOfSpec, AutoscalersOfNames
<1>2. /\ pdb \in Seq(Calls) /\ Len(pdb) = 1
      /\ pdb[1] = Call(IF Budgeted(s) THEN "apply" ELSE "delete", "pdb", Unified)
  BY BudgetOfSpec
<1> HIDE DEF hpas, pdb
<1>3. n \in Nat
  BY <1>1, LenProperties
<1>4. /\ hpas \o pdb \in Seq(Calls) /\ Len(hpas \o pdb) = n + 1
      /\ \A i \in 1..(n + 1) : (hpas \o pdb)[i] = IF i <= n THEN hpas[i] ELSE pdb[i - n]
  <2>1. hpas \in Seq(Calls) /\ pdb \in Seq(Calls)
    BY <1>1, <1>2
  <2>2. /\ hpas \o pdb \in Seq(Calls) /\ Len(hpas \o pdb) = Len(hpas) + Len(pdb)
        /\ \A i \in 1..(Len(hpas) + Len(pdb)) :
             (hpas \o pdb)[i] = IF i <= Len(hpas) THEN hpas[i] ELSE pdb[i - Len(hpas)]
    BY ONLY <2>1, ConcatProperties
  <2> QED BY <1>2, <2>2
<1> HIDE DEF n
<1>5. /\ \A i \in 1..n : i \in 1..(n + 1) /\ i <= n
      /\ n + 1 \in 1..(n + 1) /\ ~(n + 1 <= n) /\ (n + 1) - n = 1
      /\ \A i \in 1..(n + 1) : i \in 1..n \/ i = n + 1
  BY <1>3
<1>6. (hpas \o pdb)[n + 1] = Call(IF Budgeted(s) THEN "apply" ELSE "delete", "pdb", Unified)
  BY <1>2, <1>4, <1>5
<1>7. \A i \in 1..n : (hpas \o pdb)[i] = hpas[i]
  BY <1>4, <1>5
<1>8. \A i \in 1..(n + 1) : (hpas \o pdb)[i].kind \in Extras
  <2>1. Call(IF Budgeted(s) THEN "apply" ELSE "delete", "pdb", Unified).kind \in Extras
    BY DEF Call, Extras
  <2>2. "hpa" \in Extras
    BY DEF Extras
  <2> HIDE DEF Extras
  <2> QED BY <1>1, <1>5, <1>6, <1>7, <2>1, <2>2
<1> QED BY <1>1, <1>4, <1>5, <1>6, <1>7, <1>8 DEF hpas, pdb

(* Everything the spec asks for has its call, and what is deleted is what  *)
(* it does not ask for, after everything it asks for has been applied.     *)
LEMMA PlanOfSpec ==
  ASSUME NEW s \in Specs
  PROVE  /\ Plan(s) \in Seq(Calls)
         /\ \A name \in WantedBy(s) :
              /\ \A kind \in {"deployment", "service"} :
                   \E i \in 1..Len(Plan(s)) : Plan(s)[i] = Call("apply", kind, name)
              /\ \E i \in 1..Len(Plan(s)) : Plan(s)[i] =
                   Call(IF name \in AutoscaledOf[s] THEN "apply" ELSE "delete", "hpa", name)
         /\ \A name \in UnwantedBy(s), kind \in {"deployment", "service"} :
              \E i \in 1..Len(Plan(s)) : Plan(s)[i] = Call("delete", kind, name)
         /\ \E i \in 1..Len(Plan(s)) : Plan(s)[i] =
              Call(IF Budgeted(s) THEN "apply" ELSE "delete", "pdb", Unified)
         /\ \A k \in 1..Len(Plan(s)) : Plan(s)[k].kind \notin Extras =>
              /\ Plan(s)[k].op = "apply" => Plan(s)[k].name \in WantedBy(s)
              /\ Plan(s)[k].op = "delete" =>
                   /\ Plan(s)[k].name \in UnwantedBy(s)
                   /\ \A name \in WantedBy(s), kind \in {"deployment", "service"} :
                        \E i \in 1..(k - 1) : Plan(s)[i] = Call("apply", kind, name)
<1> DEFINE first == Pairs("apply", BuildEndpoints(s))
           second == Pairs("delete", StaleSuffixes(s))
           third == Autoscalers(s, BuildEndpoints(s)) \o Budget(s)
           m == Len(first)
           n == Len(second)
           l == Len(third)
<1>1. /\ first \in Seq(Calls)
      /\ \A i \in 1..m : /\ first[i].op = "apply" /\ first[i].kind \notin Extras
                          /\ first[i].name \in WantedBy(s)
      /\ \A name \in WantedBy(s), kind \in {"deployment", "service"} :
           \E i \in 1..m : first[i] = Call("apply", kind, name)
  <2> DEFINE names == BuildEndpoints(s)
  <2>1. names \in Seq(Names) /\ Range(names) = WantedBy(s)
    BY EndpointsOfSpec
  <2> HIDE DEF names
  <2>2. /\ Pairs("apply", names) \in Seq(Calls)
        /\ Len(Pairs("apply", names)) = 2 * Len(names)
        /\ \A i \in 1..(2 * Len(names)) :
             /\ Pairs("apply", names)[i].op = "apply"
             /\ Pairs("apply", names)[i].kind \in {"deployment", "service"}
             /\ Pairs("apply", names)[i].name \in Range(names)
        /\ \A name \in Range(names), kind \in {"deployment", "service"} :
             \E i \in 1..(2 * Len(names)) : Pairs("apply", names)[i] = Call("apply", kind, name)
    BY <2>1, PairsOfNames
  <2>3. first = Pairs("apply", names)
    BY DEF names
  <2> HIDE DEF first
  <2> QED BY <2>1, <2>2, <2>3 DEF Extras
<1>2. /\ second \in Seq(Calls)
      /\ \A i \in 1..n : /\ second[i].op = "delete" /\ second[i].kind \notin Extras
                          /\ second[i].name \in UnwantedBy(s)
      /\ \A name \in UnwantedBy(s), kind \in {"deployment", "service"} :
           \E i \in 1..n : second[i] = Call("delete", kind, name)
  <2> DEFINE names == StaleSuffixes(s)
  <2>1. names \in Seq(Names) /\ Range(names) = UnwantedBy(s)
    BY StaleOfSpec
  <2> HIDE DEF names
  <2>2. /\ Pairs("delete", names) \in Seq(Calls)
        /\ Len(Pairs("delete", names)) = 2 * Len(names)
        /\ \A i \in 1..(2 * Len(names)) :
             /\ Pairs("delete", names)[i].op = "delete"
             /\ Pairs("delete", names)[i].kind \in {"deployment", "service"}
             /\ Pairs("delete", names)[i].name \in Range(names)
        /\ \A name \in Range(names), kind \in {"deployment", "service"} :
             \E i \in 1..(2 * Len(names)) : Pairs("delete", names)[i] = Call("delete", kind, name)
    BY <2>1, PairsOfNames
  <2>3. second = Pairs("delete", names)
    BY DEF names
  <2> HIDE DEF second
  <2> QED BY <2>1, <2>2, <2>3 DEF Extras
<1>3. /\ third \in Seq(Calls)
      /\ \A i \in 1..l : third[i].kind \in Extras
      /\ \A name \in WantedBy(s) : \E i \in 1..l : third[i] =
           Call(IF name \in AutoscaledOf[s] THEN "apply" ELSE "delete", "hpa", name)
      /\ \E i \in 1..l : third[i] =
           Call(IF Budgeted(s) THEN "apply" ELSE "delete", "pdb", Unified)
  BY ExtrasOfSpec
<1>4. Plan(s) = first \o second \o third
  <2>1. Plan(s) = first \o second \o Autoscalers(s, BuildEndpoints(s)) \o Budget(s)
    BY DEF Plan
  <2> DEFINE hpas == Autoscalers(s, BuildEndpoints(s))
             pdb == Budget(s)
  <2>2. hpas \in Seq(Calls)
    BY AutoscalersOfNames, EndpointsOfSpec
  <2>3. pdb \in Seq(Calls)
    BY BudgetOfSpec
  <2>4. Plan(s) = ((first \o second) \o hpas) \o pdb /\ third = hpas \o pdb
    BY <2>1
  <2> HIDE DEF hpas, pdb, first, second, third
  <2>5. first \o second \in Seq(Calls)
    BY <1>1, <1>2, ConcatProperties
  <2> DEFINE names == first \o second
  <2> HIDE DEF names
  <2>6. names \in Seq(Calls)
    BY <2>5 DEF names
  <2>7. (names \o hpas) \o pdb = names \o (hpas \o pdb)
    BY <2>2, <2>3, <2>6, ConcatAssociative
  <2> QED BY <2>4, <2>7 DEF names
<1> HIDE DEF first, second, third
<1>5. m \in Nat /\ n \in Nat /\ l \in Nat
  BY <1>1, <1>2, <1>3, LenProperties
<1>6. /\ Plan(s) \in Seq(Calls) /\ Len(Plan(s)) = m + n + l
      /\ \A i \in 1..m : Plan(s)[i] = first[i]
      /\ \A i \in 1..n : Plan(s)[m + i] = second[i]
      /\ \A i \in 1..l : Plan(s)[m + n + i] = third[i]
  <2> DEFINE both == first \o second
  <2>1. /\ both \in Seq(Calls) /\ Len(both) = m + n
        /\ \A i \in 1..m : both[i] = first[i]
        /\ \A i \in 1..n : both[m + i] = second[i]
    BY <1>1, <1>2, <1>5, ConcatProperties
  <2>2. Plan(s) = both \o third
    BY <1>4
  <2> HIDE DEF both
  <2>a. /\ both \o third \in Seq(Calls) /\ Len(both \o third) = Len(both) + Len(third)
        /\ \A i \in 1..(Len(both) + Len(third)) :
             (both \o third)[i] = IF i <= Len(both) THEN both[i] ELSE third[i - Len(both)]
    <3>1. both \in Seq(Calls) /\ third \in Seq(Calls)
      BY <1>3, <2>1
    <3> QED BY ONLY <3>1, ConcatProperties
  <2>3. /\ Plan(s) \in Seq(Calls) /\ Len(Plan(s)) = Len(both) + l
        /\ \A i \in 1..(Len(both) + l) :
             Plan(s)[i] = IF i <= Len(both) THEN both[i] ELSE third[i - Len(both)]
    BY <2>a, <2>2
  <2> HIDE DEF m, n, l
  <2>4. \A i \in 1..m : i \in 1..(m + n + l) /\ i <= m + n
    BY <1>5
  <2>5. \A i \in 1..n : m + i \in 1..(m + n + l) /\ m + i <= m + n
    BY <1>5
  <2>6. \A i \in 1..l : /\ m + n + i \in 1..(m + n + l) /\ ~(m + n + i <= m + n)
                        /\ m + n + i - (m + n) = i
    BY <1>5
  <2>7. Len(Plan(s)) = m + n + l
    BY <2>1, <2>3
  <2>8. \A i \in 1..m : Plan(s)[i] = first[i]
    BY <2>1, <2>3, <2>4
  <2>9. \A i \in 1..n : Plan(s)[m + i] = second[i]
    BY <2>1, <2>3, <2>5
  <2>10. \A i \in 1..l : Plan(s)[m + n + i] = third[i]
    BY <2>1, <2>3, <2>6
  <2> QED BY <2>3, <2>7, <2>8, <2>9, <2>10
<1> HIDE DEF m, n, l
<1>7. \A k \in 1..Len(Plan(s)) :
        k \in 1..m \/ (\E j \in 1..n : k = m + j) \/ (\E j \in 1..l : k = m + n + j)
  <2> SUFFICES ASSUME NEW k \in 1..Len(Plan(s)), k \notin 1..m
               PROVE  (\E j \in 1..n : k = m + j) \/ (\E j \in 1..l : k = m + n + j)
    OBVIOUS
  <2>1. k - m \in 1..n \/ k - m - n \in 1..l
    BY <1>5, <1>6
  <2>2. k = m + (k - m) /\ k = m + n + (k - m - n)
    BY <1>5, <1>6
  <2> QED BY <2>1, <2>2
<1>8. \A i \in 1..m : i \in 1..Len(Plan(s))
  BY <1>5, <1>6
<1>9. \A i \in 1..n : m + i \in 1..Len(Plan(s))
  BY <1>5, <1>6
<1>10. \A i \in 1..l : m + n + i \in 1..Len(Plan(s))
  BY <1>5, <1>6
<1>11. ASSUME NEW name \in WantedBy(s), NEW kind \in {"deployment", "service"}
       PROVE  \E i \in 1..m : Plan(s)[i] = Call("apply", kind, name)
  BY <1>1, <1>6
<1>12. ASSUME NEW name \in WantedBy(s)
       PROVE  \E i \in 1..Len(Plan(s)) : Plan(s)[i] =
                Call(IF name \in AutoscaledOf[s] THEN "apply" ELSE "delete", "hpa", name)
  BY <1>3, <1>6, <1>10
<1>15. \E i \in 1..Len(Plan(s)) : Plan(s)[i] =
         Call(IF Budgeted(s) THEN "apply" ELSE "delete", "pdb", Unified)
  BY <1>3, <1>6, <1>10
<1>13. ASSUME NEW name \in UnwantedBy(s), NEW kind \in {"deployment", "service"}
       PROVE  \E i \in 1..Len(Plan(s)) : Plan(s)[i] = Call("delete", kind, name)
  <2>1. PICK i \in 1..n : second[i] = Call("delete", kind, name)
    BY <1>2
  <2>2. Plan(s)[m + i] = second[i] /\ m + i \in 1..Len(Plan(s))
    BY <1>6, <1>9
  <2> QED BY <2>1, <2>2
<1>14. ASSUME NEW k \in 1..Len(Plan(s)), Plan(s)[k].kind \notin Extras
       PROVE  /\ Plan(s)[k].op = "apply" => Plan(s)[k].name \in WantedBy(s)
              /\ Plan(s)[k].op = "delete" =>
                   /\ Plan(s)[k].name \in UnwantedBy(s)
                   /\ \A name \in WantedBy(s), kind \in {"deployment", "service"} :
                        \E i \in 1..(k - 1) : Plan(s)[i] = Call("apply", kind, name)
  <2>1. CASE k \in 1..m
    BY <2>1, <1>1, <1>6
  <2>2. CASE \E j \in 1..n : k = m + j
    <3>1. PICK j \in 1..n : k = m + j
      BY <2>2
    <3>2. \A i \in 1..m : i \in 1..(k - 1)
      BY <1>5, <3>1
    <3>3. Plan(s)[k] = second[j]
      BY <3>1, <1>6
    <3> QED BY <1>2, <1>11, <3>2, <3>3
  <2>3. CASE \E j \in 1..l : k = m + n + j
    BY <2>3, <1>3, <1>6, <1>14
  <2> QED BY <1>7, <2>1, <2>2, <2>3
<1> QED BY <1>6, <1>8, <1>11, <1>12, <1>13, <1>14, <1>15

-----------------------------------------------------------------------------
(* Types.                                                                  *)

ObjectOf(kind) == CASE kind = "deployment" -> [spec: Specs, replicas: Nat \ {0}] \cup {None}
                    [] kind \in {"service", "hpa", "pdb"} -> [spec: Specs] \cup {None}

(* Objects, kind by kind.                                                  *)
LEMMA ObjectsByKind ==
  ASSUME NEW f
  PROVE  f \in Objects <=> /\ f = [kind \in Kinds |-> f[kind]]
                           /\ \A kind \in Kinds : f[kind] \in [Names -> ObjectOf(kind)]
  BY DEF Objects, Kinds, ObjectOf

(* What is written, and what the HPA controller makes of it, is an object. *)
LEMMA DesiredIsObject ==
  ASSUME NEW s \in Specs, NEW kind \in Kinds, NEW name \in Names
  PROVE  Desired(s, kind, name) \in ObjectOf(kind) \ {None}
<1>1. Replicas(s, name) \in Nat \ {0}
  BY Constants DEF ConstantsAssumption, Replicas
<1>2. None \notin [spec: Specs] /\ None \notin [spec: Specs, replicas: Nat]
  BY Constants DEF ConstantsAssumption
<1>3. CASE kind = "deployment"
  <2>1. Desired(s, kind, name) = [spec |-> s, replicas |-> Replicas(s, name)]
    BY <1>3 DEF Desired
  <2> QED BY <1>1, <1>2, <1>3, <2>1 DEF ObjectOf
<1>4. CASE kind # "deployment"
  BY <1>2, <1>4 DEF Desired, ObjectOf, Kinds
<1> QED BY <1>3, <1>4

(* A write of an object to its kind and name keeps the types of the store  *)
(* and of the stale set.                                                   *)
LEMMA PutType ==
  ASSUME TypeOK, NEW kind \in Kinds, NEW name \in Names, NEW value \in ObjectOf(kind),
         Put(kind, name, value)
  PROVE  store' \in Objects /\ stale' \subseteq Kinds \X Names
<1>1. store \in Objects /\ stale \subseteq Kinds \X Names
  BY DEF TypeOK
<1>2. CASE store[kind][name] = value
  BY <1>1, <1>2 DEF Put
<1>3. CASE store[kind][name] # value
  <2>1. /\ store' = [store EXCEPT ![kind][name] = value]
        /\ stale' = stale \cup {<<kind, name>>}
    BY <1>3 DEF Put
  <2>2. store' = [k \in Kinds |-> store'[k]]
    BY <1>1, <2>1, ObjectsByKind
  <2>3. \A k \in Kinds : store'[k] \in [Names -> ObjectOf(k)]
    BY <1>1, <2>1, ObjectsByKind
  <2>4. store' \in Objects
    BY <2>2, <2>3, ObjectsByKind
  <2> QED BY <1>1, <2>1, <2>4
<1> QED BY <1>2, <1>3

(* The operator starts with objects of every kind absent, which is of the  *)
(* type.                                                                   *)
LEMMA InitType == Init => TypeOK
<1> SUFFICES ASSUME Init PROVE TypeOK
  OBVIOUS
<1>1. store \in Objects
  <2>1. store = [kind \in Kinds |-> [name \in Names |-> None]]
    BY DEF Init
  <2>2. \A kind \in Kinds : None \in ObjectOf(kind)
    BY DEF ObjectOf, Kinds
  <2>3. \A kind \in Kinds : store[kind] \in [Names -> ObjectOf(kind)]
    BY <2>1, <2>2
  <2>4. store = [kind \in Kinds |-> store[kind]]
    BY <2>1
  <2> QED BY <2>3, <2>4, ObjectsByKind
<1>2. todo \in Seq(Calls)
  BY EmptySeq DEF Init
<1>3. stale \subseteq Kinds \X Names /\ cache \in Objects
  BY <1>1 DEF Init
<1>4. edits \in 0..MaxEdits /\ deletions \in 0..MaxDeletions /\ faults \in 0..MaxFaults
  BY Constants DEF Init, ConstantsAssumption
<1>5. /\ spec \in Specs /\ cachedSpec \in Specs /\ run \in Specs
      /\ specBehind \in BOOLEAN /\ queued \in BOOLEAN /\ timer \in BOOLEAN
  BY DEF Init
<1> QED BY <1>1, <1>2, <1>3, <1>4, <1>5 DEF TypeOK

(* The worker's call, its arguments, and what is left after it.            *)
LEMMA HeadType ==
  ASSUME TypeOK, todo # << >>
  PROVE  /\ Head(todo) \in Calls
         /\ Head(todo).kind \in Kinds /\ Head(todo).name \in Names
         /\ Tail(todo) \in Seq(Calls)
<1>1. Head(todo) \in Calls /\ Tail(todo) \in Seq(Calls)
  BY HeadTailProperties DEF TypeOK
<1> QED BY <1>1 DEF Calls

(* A call of the plan, made, skipped or failed, keeps the types.           *)
LEMMA StepType ==
  ASSUME TypeOK, Step
  PROVE  TypeOK'
<1> DEFINE call == Head(todo)
<1>1. /\ todo # << >>
      /\ Applying(call) \/ Deleting(call)
      /\ UNCHANGED <<cluster, cache, queued, run, edits, deletions>>
  BY DEF Step
<1>2. /\ call.kind \in Kinds /\ call.name \in Names
      /\ Tail(todo) \in Seq(Calls)
  <2>1. todo # << >>
    BY <1>1
  <2> QED BY <2>1, HeadType
<1>3. Wanted(call) \in ObjectOf(call.kind) /\ None \in ObjectOf(call.kind)
  BY <1>2, DesiredIsObject DEF Wanted, TypeOK, ObjectOf, Kinds
<1> HIDE DEF call
<1>4. store' \in Objects /\ stale' \subseteq Kinds \X Names
  <2>1. CASE Put(call.kind, call.name, Wanted(call))
    BY <2>1, <1>2, <1>3, PutType
  <2>2. CASE Put(call.kind, call.name, None)
    BY <2>2, <1>2, <1>3, PutType
  <2>3. CASE UNCHANGED <<store, stale>>
    BY <2>3 DEF TypeOK
  <2> QED BY <1>1, <2>1, <2>2, <2>3 DEF Applying, Deleting
<1>5. todo' = Tail(todo) \/ todo' = << >>
  BY <1>1 DEF Applying, Deleting, Advance, Fail, call
<1>6. todo' \in Seq(Calls)
  BY <1>2, <1>5, EmptySeq
<1>7. (timer' = TRUE \/ UNCHANGED timer) /\ (UNCHANGED faults \/ Fault)
  BY <1>1 DEF Applying, Deleting, Advance, Fail
<1>8. timer' \in BOOLEAN
  BY <1>7 DEF TypeOK
<1>9. faults' \in 0..MaxFaults
  BY <1>7, Constants DEF Fault, TypeOK, ConstantsAssumption
<1> QED BY <1>1, <1>4, <1>6, <1>8, <1>9 DEF TypeOK, cluster

(* So does every step of the worker, the informers, the user and the HPA   *)
(* controller.                                                             *)
LEMMA NextType == TypeOK /\ [Next]_vars => TypeOK'
<1> SUFFICES ASSUME TypeOK, [Next]_vars PROVE TypeOK'
  OBVIOUS
<1> USE Constants DEF ConstantsAssumption
<1>1. CASE Start
  <2>1. Plan(cachedSpec) \in Seq(Calls)
    BY PlanOfSpec DEF TypeOK
  <2> QED BY <1>1, <2>1 DEF Start, TypeOK, cluster, objects
<1>2. CASE Step
  BY <1>2, StepType
<1>3. ASSUME NEW kind \in Kinds, Deliver(kind) PROVE TypeOK'
  <2>1. cache' = [cache EXCEPT ![kind] = store[kind]] /\ store \in Objects /\ cache \in Objects
    BY <1>3 DEF Deliver, TypeOK
  <2>2. cache' = [k \in Kinds |-> cache'[k]]
    <3>1. cache = [k \in Kinds |-> cache[k]]
      BY <2>1, ObjectsByKind
    <3>2. cache' = [k \in Kinds |-> IF k = kind THEN store[kind] ELSE cache[k]]
      BY ONLY <2>1, <3>1
    <3> QED BY ONLY <3>2
  <2>3. \A k \in Kinds : cache'[k] \in [Names -> ObjectOf(k)]
    BY <2>1, ObjectsByKind
  <2>4. cache' \in Objects
    BY <2>2, <2>3, ObjectsByKind
  <2> QED BY <1>3, <2>4 DEF Deliver, TypeOK, cluster, Watched
<1>4. CASE DeliverSpec
  BY <1>4 DEF DeliverSpec, TypeOK, objects
<1>5. CASE TimerFires
  BY <1>5 DEF TimerFires, TypeOK, cluster, objects
<1>6. CASE Wake
  BY <1>6 DEF Wake, TypeOK, cluster, objects
<1>7. CASE Restart
  <2>1. todo' \in Seq(Calls)
    BY <1>7, EmptySeq DEF Restart
  <2>2. faults' \in 0..MaxFaults
    BY <1>7 DEF Restart, Fault, TypeOK
  <2>3. /\ spec' \in Specs /\ cachedSpec' \in Specs /\ run' \in Specs
        /\ specBehind' \in BOOLEAN /\ queued' \in BOOLEAN /\ timer' \in BOOLEAN
    BY <1>7 DEF Restart, TypeOK
  <2>4. store' \in Objects /\ cache' \in Objects /\ stale' \subseteq Kinds \X Names
    BY <1>7 DEF Restart, TypeOK
  <2>5. edits' \in 0..MaxEdits /\ deletions' \in 0..MaxDeletions
    BY <1>7 DEF Restart, TypeOK
  <2> QED BY <2>1, <2>2, <2>3, <2>4, <2>5 DEF TypeOK
<1>8. ASSUME NEW new \in Specs, EditSpec(new) PROVE TypeOK'
  BY <1>8 DEF EditSpec, TypeOK, objects, worker
<1>9. ASSUME NEW kind \in Kinds, NEW name \in Names, DeleteObject(kind, name) PROVE TypeOK'
  <2>1. None \in ObjectOf(kind)
    BY DEF ObjectOf, Kinds
  <2>2. store' \in Objects /\ stale' \subseteq Kinds \X Names
    BY <1>9, <2>1, PutType DEF DeleteObject
  <2> QED BY <1>9, <2>2 DEF DeleteObject, TypeOK, cluster, worker
<1>10. ASSUME NEW name \in Names, HPAScales(name) PROVE TypeOK'
  <2>1. PICK n \in ScaledTo :
          Put("deployment", name, [store["deployment"][name] EXCEPT !.replicas = n])
    BY <1>10 DEF HPAScales
  <2>2. store["deployment"][name] \in [spec: Specs, replicas: Nat \ {0}]
    BY <1>10, ObjectsByKind DEF HPAScales, TypeOK, Kinds, ObjectOf
  <2>3. [store["deployment"][name] EXCEPT !.replicas = n] \in ObjectOf("deployment")
    BY <2>2 DEF ObjectOf
  <2>4. store' \in Objects /\ stale' \subseteq Kinds \X Names
    BY <2>1, <2>3, PutType DEF Kinds
  <2> QED BY <1>10, <2>4 DEF HPAScales, TypeOK, cluster, worker
<1>11. CASE UNCHANGED vars
  BY <1>11 DEF vars, TypeOK, cluster, objects, worker
<1> QED BY <1>1, <1>2, <1>3, <1>4, <1>5, <1>6, <1>7, <1>8, <1>9, <1>10, <1>11
        DEF Next, Reconcile

(* Every variable keeps its type, and no Deployment is ever written with   *)
(* fewer than one replica.                                                 *)
THEOREM TypeCorrect == Spec => []TypeOK
  BY InitType, NextType, PTL DEF Spec

-----------------------------------------------------------------------------
(* The invariant, part by part.                                            *)

(* Where the worker is in its plan.                                        *)
LEMMA PlaceInPlan ==
  ASSUME TypeOK, Suffix
  PROVE  /\ Plan(run) \in Seq(Calls) /\ todo \in Seq(Calls)
         /\ Len(todo) \in Nat /\ Len(Plan(run)) \in Nat /\ Made \in 0..Len(Plan(run))
         /\ todo = << >> => Made = Len(Plan(run))
         /\ todo # << >> => /\ Made + 1 \in 1..Len(Plan(run))
                            /\ Head(todo) = Plan(run)[Made + 1]
                            /\ Tail(todo) \in Seq(Calls)
                            /\ Len(Tail(todo)) = Len(todo) - 1
                            /\ \A i \in 1..Len(Tail(todo)) : Tail(todo)[i] = todo[i + 1]
<1>1. Plan(run) \in Seq(Calls) /\ todo \in Seq(Calls)
  BY PlanOfSpec DEF TypeOK
<1>2. Len(todo) \in Nat /\ Len(Plan(run)) \in Nat
  BY <1>1, LenProperties
<1>3. Made \in 0..Len(Plan(run))
  BY <1>2 DEF Made, Suffix
<1>4. ASSUME todo = << >> PROVE Made = Len(Plan(run))
  BY <1>2, <1>4 DEF Made
<1>5. ASSUME todo # << >>
      PROVE  /\ Made + 1 \in 1..Len(Plan(run))
             /\ Head(todo) = Plan(run)[Made + 1]
             /\ Tail(todo) \in Seq(Calls)
             /\ Len(Tail(todo)) = Len(todo) - 1
             /\ \A i \in 1..Len(Tail(todo)) : Tail(todo)[i] = todo[i + 1]
  <2>1. /\ Head(todo) = todo[1] /\ Tail(todo) \in Seq(Calls)
        /\ Len(Tail(todo)) = Len(todo) - 1
        /\ \A i \in 1..Len(Tail(todo)) : Tail(todo)[i] = todo[i + 1]
    BY <1>1, <1>5, HeadTailProperties
  <2>2. Len(todo) > 0
    BY <1>1, <1>2, <1>5, EmptySeq
  <2>3. 1 \in 1..Len(todo)
    BY <1>2, <2>2
  <2> QED BY <1>2, <2>1, <2>2, <2>3 DEF Made, Suffix
<1> QED BY <1>1, <1>2, <1>3, <1>4, <1>5

(* What a step does to the plan.                                           *)
LEMMA StepInPlan ==
  ASSUME Step
  PROVE  /\ todo # << >>
         /\ Applying(Head(todo)) \/ Deleting(Head(todo))
         /\ UNCHANGED <<spec, cachedSpec, specBehind, cache, queued, run, deletions>>
         /\ (todo' = Tail(todo) /\ UNCHANGED timer) \/ (todo' = << >> /\ timer' = TRUE)
  BY DEF Step, Applying, Deleting, Advance, Fail, cluster

(* Start puts the whole plan to do and every call made takes the first     *)
(* away; a failure or a restart drops the rest.                            *)
LEMMA SuffixStays == TypeOK /\ Suffix /\ [Next]_vars => Suffix'
<1> SUFFICES ASSUME TypeOK, Suffix, [Next]_vars PROVE Suffix'
  OBVIOUS
<1>1. ASSUME todo' = << >> , UNCHANGED run PROVE Suffix'
  <2>1. Len(Plan(run)) \in Nat
    BY PlaceInPlan
  <2> QED BY <1>1, <2>1, EmptySeq DEF Suffix, Made
<1>2. ASSUME UNCHANGED <<todo, run>> PROVE Suffix'
  BY <1>2 DEF Suffix, Made
<1>3. CASE Start
  <2>1. Plan(cachedSpec) \in Seq(Calls)
    BY PlanOfSpec DEF TypeOK
  <2>2. Len(Plan(cachedSpec)) \in Nat
    BY <2>1, LenProperties
  <2>3. todo' = Plan(run')
    BY <1>3 DEF Start
  <2>4. run' = cachedSpec
    BY <1>3 DEF Start
  <2> QED BY <2>2, <2>3, <2>4 DEF Suffix, Made
<1>4. CASE Step
  <2>1. UNCHANGED run /\ todo # << >> /\ (todo' = Tail(todo) \/ todo' = << >>)
    BY <1>4, StepInPlan
  <2>2. CASE todo' = Tail(todo)
    <3>1. /\ Len(todo) \in Nat /\ Len(Plan(run)) \in Nat /\ Len(todo') = Len(todo) - 1
          /\ \A i \in 1..Len(todo') : todo'[i] = todo[i + 1]
      BY <2>1, <2>2, PlaceInPlan
    <3>2. \A i \in 1..Len(todo') : i + 1 \in 1..Len(todo)
      BY <3>1
    <3>3. Made' = Made + 1
      BY <2>1, <3>1 DEF Made
    <3>4. \A i \in 1..Len(todo') : (Made + 1) + i = Made + (i + 1)
      BY <3>1 DEF Made
    <3> QED BY <2>1, <3>1, <3>2, <3>3, <3>4 DEF Suffix
  <2> QED BY <1>1, <2>1, <2>2
<1>5. CASE Restart
  BY <1>1, <1>5 DEF Restart
<1>6. ASSUME NEW kind \in Kinds, Deliver(kind) PROVE Suffix'
  BY <1>2, <1>6 DEF Deliver
<1>7. CASE DeliverSpec \/ TimerFires \/ Wake
  BY <1>2, <1>7 DEF DeliverSpec, TimerFires, Wake
<1>8. ASSUME NEW new \in Specs, EditSpec(new) PROVE Suffix'
  BY <1>2, <1>8 DEF EditSpec, worker
<1>9. ASSUME NEW kind \in Kinds, NEW name \in Names, DeleteObject(kind, name) PROVE Suffix'
  BY <1>2, <1>9 DEF DeleteObject, worker
<1>10. ASSUME NEW name \in Names, HPAScales(name) PROVE Suffix'
  BY <1>2, <1>10 DEF HPAScales, worker
<1>11. CASE UNCHANGED vars
  BY <1>2, <1>11 DEF vars, worker
<1> QED BY <1>3, <1>4, <1>5, <1>6, <1>7, <1>8, <1>9, <1>10, <1>11 DEF Next, Reconcile

(* A write that changes nothing leaves no event; one that does, does.      *)
LEMMA PutIsNoticed ==
  ASSUME TypeOK, NEW kind \in Kinds, NEW name \in Names, NEW value, Put(kind, name, value)
  PROVE  /\ \/ UNCHANGED <<store, stale>> /\ store[kind][name] = value
            \/ stale' = stale \cup {<<kind, name>>}
         /\ store'[kind][name] = value
         /\ \A k \in Kinds, n \in Names : <<k, n>> # <<kind, name>> => store'[k][n] = store[k][n]
<1>1. \A k \in Kinds : store[k] \in [Names -> ObjectOf(k)]
  BY ObjectsByKind DEF TypeOK
<1>2. store = [k \in Kinds |-> store[k]]
  BY ObjectsByKind DEF TypeOK
<1>3. CASE store[kind][name] = value
  BY <1>3 DEF Put
<1>4. CASE store[kind][name] # value
  <2>1. /\ store' = [store EXCEPT ![kind][name] = value]
        /\ stale' = stale \cup {<<kind, name>>}
    BY <1>4 DEF Put
  <2>2. store'[kind] = [store[kind] EXCEPT ![name] = value]
    BY <1>2, <2>1
  <2>3. \A k \in Kinds : k # kind => store'[k] = store[k]
    BY <1>2, <2>1
  <2>4. store'[kind][name] = value
    BY <1>1, <2>2
  <2>5. \A n \in Names : n # name => store'[kind][n] = store[kind][n]
    BY <1>1, <2>2
  <2> QED BY <2>1, <2>3, <2>4, <2>5
<1> QED BY <1>3, <1>4

(* What a step of the worker writes.                                       *)
LEMMA StepWrites ==
  ASSUME TypeOK, Step
  PROVE  /\ Head(todo).kind \in Kinds /\ Head(todo).name \in Names
         /\ \/ UNCHANGED <<store, stale>>
            \/ /\ Head(todo).op = "apply"
               /\ Put(Head(todo).kind, Head(todo).name, Wanted(Head(todo)))
            \/ /\ Head(todo).op = "delete"
               /\ Put(Head(todo).kind, Head(todo).name, None)
<1>1. /\ todo # << >>
      /\ Applying(Head(todo)) \/ Deleting(Head(todo))
  BY StepInPlan
<1>2. Head(todo).kind \in Kinds /\ Head(todo).name \in Names
  BY <1>1, HeadType
<1> QED BY <1>1, <1>2 DEF Applying, Deleting

(* A cached object differs from the server's only while the informer of    *)
(* its kind has an event to deliver.                                       *)
LEMMA CacheAgreesStays == TypeOK /\ CacheAgrees /\ [Next]_vars => CacheAgrees'
<1> SUFFICES ASSUME TypeOK, CacheAgrees, [Next]_vars PROVE CacheAgrees'
  OBVIOUS
<1>1. ASSUME UNCHANGED <<cluster, objects>> PROVE CacheAgrees'
  BY <1>1 DEF CacheAgrees, cluster, objects
<1>2. ASSUME UNCHANGED <<cluster, cache>>,
             NEW kind \in Kinds, NEW name \in Names, NEW value, Put(kind, name, value)
      PROVE  CacheAgrees'
  BY <1>2, PutIsNoticed DEF CacheAgrees, cluster
<1>3. CASE Start
  BY <1>1, <1>3 DEF Start
<1>4. CASE Step
  <2>1. UNCHANGED <<cluster, cache>>
    BY <1>4 DEF Step
  <2> QED BY <1>1, <1>2, <1>4, <2>1, StepWrites DEF objects
<1>5. ASSUME NEW kind \in Kinds, Deliver(kind) PROVE CacheAgrees'
  <2>1. /\ cache' = [cache EXCEPT ![kind] = store[kind]]
        /\ stale' = {object \in stale : object[1] # kind}
        /\ UNCHANGED <<cluster, store>>
    BY <1>5 DEF Deliver
  <2>2. cache = [k \in Kinds |-> cache[k]]
    BY ObjectsByKind DEF TypeOK
  <2>3. cache'[kind] = store[kind] /\ \A k \in Kinds : k # kind => cache'[k] = cache[k]
    BY <2>1, <2>2
  <2>4. \A k \in Kinds, n \in Names : k # kind /\ <<k, n>> \in stale => <<k, n>> \in stale'
    BY <2>1
  <2> QED BY <2>1, <2>3, <2>4 DEF CacheAgrees, cluster
<1>6. CASE DeliverSpec
  BY <1>6 DEF DeliverSpec, CacheAgrees, objects
<1>7. CASE TimerFires \/ Wake
  BY <1>1, <1>7 DEF TimerFires, Wake
<1>8. CASE Restart
  BY <1>8 DEF Restart, CacheAgrees
<1>9. ASSUME NEW new \in Specs, EditSpec(new) PROVE CacheAgrees'
  BY <1>9 DEF EditSpec, CacheAgrees, objects
<1>10. ASSUME NEW kind \in Kinds, NEW name \in Names, DeleteObject(kind, name)
       PROVE  CacheAgrees'
  BY <1>2, <1>10 DEF DeleteObject
<1>11. ASSUME NEW name \in Names, HPAScales(name) PROVE CacheAgrees'
  BY <1>2, <1>11 DEF HPAScales, Kinds
<1>12. CASE UNCHANGED vars
  BY <1>1, <1>12 DEF vars
<1> QED BY <1>3, <1>4, <1>5, <1>6, <1>7, <1>8, <1>9, <1>10, <1>11, <1>12 DEF Next, Reconcile

(* A call that has not failed, and has changed nothing, was not needed.    *)
LEMMA QuietStep ==
  ASSUME TypeOK, CacheAgrees, Step, ~timer', stale' = {}
  PROVE  /\ todo' = Tail(todo) /\ UNCHANGED <<store, stale, timer>>
         /\ Holds(Head(todo), run)
<1> DEFINE call == Head(todo)
<1>1. /\ todo # << >>
      /\ Applying(call) \/ Deleting(call)
      /\ UNCHANGED cache
  BY StepInPlan
<1>2. call.kind \in Kinds /\ call.name \in Names
  BY StepWrites
<1>3. todo' = Tail(todo) /\ UNCHANGED timer
  BY StepInPlan
<1> HIDE DEF call
<1>4. ASSUME NEW value, Put(call.kind, call.name, value)
      PROVE  UNCHANGED <<store, stale>> /\ store[call.kind][call.name] = value
  <2>1. \/ UNCHANGED <<store, stale>> /\ store[call.kind][call.name] = value
        \/ stale' = stale \cup {<<call.kind, call.name>>}
    BY <1>2, <1>4, PutIsNoticed
  <2>2. stale' # stale \cup {<<call.kind, call.name>>}
    OBVIOUS
  <2> QED BY <2>1, <2>2
<1>5. ASSUME UNCHANGED stale
      PROVE  Cached(call) = store[call.kind][call.name]
  BY <1>2, <1>5 DEF CacheAgrees, Cached
<1>6. CASE Applying(call)
  <2>1. call.op = "apply" /\ Wanted(call) = Desired(run, call.kind, call.name)
    BY <1>6 DEF Applying, Wanted
  <2>2. \/ Skipped(call) /\ UNCHANGED <<store, stale>>
        \/ Put(call.kind, call.name, Wanted(call))
    BY <1>6 DEF Applying, Fail
  <2>3. CASE Skipped(call) /\ UNCHANGED <<store, stale>>
    <3>1. Cached(call) = Wanted(call)
      BY <2>3 DEF Skipped
    <3> QED BY <1>3, <1>5, <2>1, <2>3, <3>1 DEF Holds, call
  <2>4. CASE Put(call.kind, call.name, Wanted(call))
    BY <1>3, <1>4, <2>1, <2>4 DEF Holds, call
  <2> QED BY <2>2, <2>3, <2>4
<1>7. CASE Deleting(call)
  <2>1. call.op = "delete"
    BY <1>7 DEF Deleting
  <2>2. \/ Cached(call) = None /\ UNCHANGED <<store, stale>>
        \/ Put(call.kind, call.name, None)
    BY <1>7 DEF Deleting, Fail
  <2>3. CASE Cached(call) = None /\ UNCHANGED <<store, stale>>
    BY <1>3, <1>5, <2>1, <2>3 DEF Holds, call
  <2>4. CASE Put(call.kind, call.name, None)
    BY <1>3, <1>4, <2>1, <2>4 DEF Holds, call
  <2> QED BY <2>2, <2>3, <2>4
<1> QED BY <1>1, <1>6, <1>7

(* What a run has done holds on the server until something is pending:     *)
(* whoever changes it leaves an event, and a call that fails leaves the    *)
(* timer.                                                                  *)
LEMMA AppliedStays ==
  TypeOK /\ TypeOK' /\ Suffix /\ CacheAgrees /\ CacheAgrees' /\ Applied /\ [Next]_vars => Applied'
<1> SUFFICES ASSUME TypeOK, TypeOK', Suffix, CacheAgrees, CacheAgrees', Applied, [Next]_vars,
                    ~Pending'
             PROVE  /\ run' = spec'
                    /\ \A i \in 1..Made' : Holds(Plan(run)[i], run)'
  BY DEF Applied
<1>1. ~queued' /\ ~timer' /\ ~specBehind' /\ stale' = {}
  BY DEF Pending, Watched, TypeOK
<1>2. ASSUME UNCHANGED <<store, stale, queued, timer, spec, specBehind, todo, run>>
      PROVE  /\ run' = spec'
             /\ \A i \in 1..Made' : Holds(Plan(run)[i], run)'
  <2>1. ~Pending
    BY <1>1, <1>2 DEF Pending
  <2>2. Made' = Made
    BY <1>2 DEF Made
  <2> QED BY <1>2, <2>1, <2>2 DEF Applied, Holds
<1>3. CASE Start
  <2>1. Plan(cachedSpec) \in Seq(Calls)
    BY PlanOfSpec DEF TypeOK
  <2>2. Len(Plan(cachedSpec)) \in Nat
    BY <2>1, LenProperties
  <2>3. run' = cachedSpec /\ todo' = Plan(run') /\ UNCHANGED cluster
    BY <1>3 DEF Start
  <2>4. Made' = 0
    BY <2>2, <2>3 DEF Made
  <2>5. cachedSpec = spec
    BY <1>1, <2>3 DEF CacheAgrees, cluster
  <2> QED BY <2>3, <2>4, <2>5 DEF cluster
<1>4. CASE Step
  <2>1. /\ UNCHANGED <<store, stale, timer>> /\ todo' = Tail(todo)
        /\ Holds(Head(todo), run)
    BY <1>1, <1>4, QuietStep
  <2>2. todo # << >> /\ UNCHANGED <<spec, specBehind, queued, run>>
    BY <1>4, StepInPlan
  <2>3. ~Pending
    BY <1>1, <2>1, <2>2 DEF Pending
  <2>4. /\ run = spec
        /\ \A i \in 1..Made : Holds(Plan(run)[i], run)
    BY <2>3 DEF Applied
  <2>5. /\ Made \in Nat /\ Head(todo) = Plan(run)[Made + 1] /\ Len(Tail(todo)) = Len(todo) - 1
        /\ Len(todo) \in Nat /\ Len(Plan(run)) \in Nat
    BY <2>2, PlaceInPlan
  <2>6. Made' = Made + 1
    BY <2>1, <2>2, <2>5 DEF Made
  <2>7. \A i \in 1..Made' : i \in 1..Made \/ i = Made + 1
    BY <2>5, <2>6
  <2>8. \A i \in 1..Made' : Holds(Plan(run)[i], run)
    BY <2>1, <2>4, <2>5, <2>7
  <2> QED BY <2>1, <2>2, <2>4, <2>8 DEF Holds
<1>5. ASSUME NEW kind \in Kinds, Deliver(kind) PROVE FALSE
  BY <1>1, <1>5 DEF Deliver, Watched
<1>6. CASE DeliverSpec \/ TimerFires \/ Wake \/ Restart
  BY <1>1, <1>6 DEF DeliverSpec, TimerFires, Wake, Restart
<1>7. ASSUME NEW new \in Specs, EditSpec(new) PROVE FALSE
  BY <1>1, <1>7 DEF EditSpec
<1>8. ASSUME NEW kind \in Kinds, NEW name \in Names, DeleteObject(kind, name) PROVE FALSE
  BY <1>1, <1>8, PutIsNoticed DEF DeleteObject
<1>9. ASSUME NEW name \in Names, HPAScales(name)
      PROVE  /\ run' = spec'
             /\ \A i \in 1..Made' : Holds(Plan(run)[i], run)'
  <2>1. PICK n \in ScaledTo :
          Put("deployment", name, [store["deployment"][name] EXCEPT !.replicas = n])
    BY <1>9 DEF HPAScales
  <2>2. UNCHANGED <<store, stale>>
    BY <1>1, <2>1, PutIsNoticed DEF Kinds
  <2> QED BY <1>2, <1>9, <2>2 DEF HPAScales, cluster, worker
<1>10. CASE UNCHANGED vars
  BY <1>2, <1>10 DEF vars, cluster, objects, worker
<1> QED BY <1>3, <1>4, <1>5, <1>6, <1>7, <1>8, <1>9, <1>10 DEF Next, Reconcile

(* What the HPA controller leaves is still an object.                      *)
LEMMA ScaledIsObject ==
  ASSUME TypeOK, NEW name \in Names, HPAScales(name)
  PROVE  \E value : value # None /\ Put("deployment", name, value)
<1>1. PICK n \in ScaledTo :
        Put("deployment", name, [store["deployment"][name] EXCEPT !.replicas = n])
  BY DEF HPAScales
<1>2. store["deployment"][name] \in [spec: Specs, replicas: Nat \ {0}]
  BY ObjectsByKind DEF HPAScales, TypeOK, Kinds, ObjectOf
<1>3. n \in Nat /\ None \notin [spec: Specs, replicas: Nat]
  BY Constants DEF ConstantsAssumption
<1>4. [store["deployment"][name] EXCEPT !.replicas = n] \in [spec: Specs, replicas: Nat]
  BY <1>2, <1>3
<1> QED BY <1>1, <1>3, <1>4

(* Unless the last step of a run, a step that applies a Deployment or a    *)
(* Service leaves it there.                                                *)
LEMMA StepLeaves ==
  ASSUME TypeOK, Step, todo' # << >>
  PROVE  /\ todo' = Tail(todo)
         /\ Head(todo).op = "apply" /\ Head(todo).kind \notin Extras =>
              store'[Head(todo).kind][Head(todo).name] # None
<1> DEFINE call == Head(todo)
<1>1. Applying(call) \/ Deleting(call)
  BY StepInPlan
<1>2. call.kind \in Kinds /\ call.name \in Names
  BY StepWrites
<1>3. todo' = Tail(todo)
  BY StepInPlan
<1>4. Wanted(call) # None
  BY <1>2, DesiredIsObject DEF Wanted, TypeOK
<1> HIDE DEF call
<1>5. ASSUME call.op = "apply", call.kind \notin Extras
      PROVE  store'[call.kind][call.name] # None
  <2>1. Put(call.kind, call.name, Wanted(call))
    BY <1>1, <1>5 DEF Applying, Deleting, Skipped, Fail
  <2>2. store'[call.kind][call.name] = Wanted(call)
    BY <1>2, <2>1, PutIsNoticed
  <2> QED BY <1>4, <2>2
<1> QED BY <1>3, <1>5 DEF call

(* A step that deletes finds everything the spec asks for applied.         *)
LEMMA DeletesOthers ==
  ASSUME TypeOK, Suffix, Standing, deletions = 0, Step,
         Head(todo).op = "delete", Head(todo).kind \notin Extras
  PROVE  /\ Head(todo).name \notin WantedBy(run)
         /\ \A name \in WantedBy(run), kind \in {"deployment", "service"} :
              store[kind][name] # None
<1>1. todo # << >>
  BY StepInPlan
<1>2. /\ Made + 1 \in 1..Len(Plan(run)) /\ Head(todo) = Plan(run)[Made + 1]
      /\ Made \in 0..Len(Plan(run)) /\ Len(Plan(run)) \in Nat
  BY <1>1, PlaceInPlan
<1>3. run \in Specs
  BY DEF TypeOK
<1>4. /\ Head(todo).name \in UnwantedBy(run)
      /\ \A name \in WantedBy(run), kind \in {"deployment", "service"} :
           \E i \in 1..((Made + 1) - 1) : Plan(run)[i] = Call("apply", kind, name)
  BY <1>2, <1>3, PlanOfSpec
<1>5. (Made + 1) - 1 = Made
  BY <1>2
<1>6. ASSUME NEW name \in WantedBy(run), NEW kind \in {"deployment", "service"}
      PROVE  store[kind][name] # None
  <2>1. PICK i \in 1..Made : Plan(run)[i] = Call("apply", kind, name)
    BY <1>4, <1>5
  <2>2. /\ Plan(run)[i].op = "apply" /\ Plan(run)[i].kind = kind /\ Plan(run)[i].name = name
    BY <2>1 DEF Call
  <2> QED BY <1>1, <2>1, <2>2 DEF Standing, Extras
<1>7. Head(todo).name \notin WantedBy(run)
  BY <1>3, <1>4, NamesByTopology
<1> QED BY <1>6, <1>7

(* What a run has applied is not deleted in the same run: its plan deletes *)
(* only what is not wanted, and only afterwards.                           *)
LEMMA StandingStays == TypeOK /\ Suffix /\ Standing /\ [Next]_vars => Standing'
<1> SUFFICES ASSUME TypeOK, Suffix, Standing, [Next]_vars,
                    todo' # << >>, deletions' = 0,
                    NEW i \in 1..Made',
                    Plan(run')[i].op = "apply", Plan(run')[i].kind \notin Extras
             PROVE  store'[Plan(run')[i].kind][Plan(run')[i].name] # None
  BY DEF Standing
<1>1. ASSUME UNCHANGED <<store, todo, run, deletions>>
      PROVE  store'[Plan(run')[i].kind][Plan(run')[i].name] # None
  <2>1. Made' = Made
    BY <1>1 DEF Made
  <2> QED BY <1>1, <2>1 DEF Standing
<1>2. CASE Start
  <2>1. Plan(cachedSpec) \in Seq(Calls)
    BY PlanOfSpec DEF TypeOK
  <2>2. Len(Plan(cachedSpec)) \in Nat
    BY <2>1, LenProperties
  <2>3. Made' = 0
    BY <1>2, <2>2 DEF Start, Made
  <2> QED BY <2>3
<1>3. CASE Step
  <2> DEFINE call == Plan(run)[i]
  <2>1. todo # << >> /\ UNCHANGED <<run, deletions>> /\ todo' = Tail(todo)
    BY <1>3, StepInPlan
  <2>2. /\ Head(todo) = Plan(run)[Made + 1] /\ Made \in 0..Len(Plan(run))
        /\ Plan(run) \in Seq(Calls) /\ Len(Plan(run)) \in Nat /\ Len(todo) \in Nat
        /\ Len(Tail(todo)) = Len(todo) - 1 /\ Made + 1 \in 1..Len(Plan(run))
    BY <2>1, PlaceInPlan
  <2>3. Made' = Made + 1
    BY <2>1, <2>2 DEF Made
  <2>4. i \in 1..Made \/ i = Made + 1
    BY <2>2, <2>3
  <2>5. i \in 1..Len(Plan(run)) /\ call.op = "apply" /\ call.kind \notin Extras
    BY <2>1, <2>2, <2>3
  <2>6. CASE i = Made + 1
    BY <1>3, <2>1, <2>2, <2>5, <2>6, StepLeaves
  <2>7. CASE i \in 1..Made
    <3>1. store[call.kind][call.name] # None
      BY <2>1, <2>5, <2>7 DEF Standing
    <3>2. call \in Calls
      BY <2>2, <2>5, ElementOfSeq
    <3>3. call.name \in WantedBy(run)
      BY <2>5, PlanOfSpec DEF TypeOK
    <3>4. call.kind \in Kinds /\ call.name \in Names
      BY <3>2 DEF Calls
    <3> HIDE DEF call
    <3>5. CASE UNCHANGED store
      BY <2>1, <3>1, <3>5 DEF call
    <3>6. CASE /\ Head(todo).op = "apply"
               /\ Put(Head(todo).kind, Head(todo).name, Wanted(Head(todo)))
      <4>1. Head(todo).kind \in Kinds /\ Head(todo).name \in Names
        BY <1>3, StepWrites
      <4>2. Wanted(Head(todo)) # None
        BY <4>1, DesiredIsObject DEF Wanted, TypeOK
      <4>3. store'[call.kind][call.name] # None
        BY <3>1, <3>4, <3>6, <4>1, <4>2, PutIsNoticed
      <4> QED BY <2>1, <4>3 DEF call
    <3>7. CASE /\ Head(todo).op = "delete"
               /\ Put(Head(todo).kind, Head(todo).name, None)
      <4>1. Head(todo).kind \in Kinds /\ Head(todo).name \in Names
        BY <1>3, StepWrites
      <4>2. Head(todo).kind \notin Extras => Head(todo).name # call.name
        BY <1>3, <2>1, <3>3, <3>7, DeletesOthers
      <4>3. <<call.kind, call.name>> # <<Head(todo).kind, Head(todo).name>>
        BY <2>5, <4>2 DEF call
      <4>4. store'[call.kind][call.name] # None
        BY <3>1, <3>4, <3>7, <4>1, <4>3, PutIsNoticed
      <4> QED BY <2>1, <4>4 DEF call
    <3> QED BY <1>3, <3>5, <3>6, <3>7, StepWrites
  <2> QED BY <2>4, <2>6, <2>7
<1>4. ASSUME NEW kind \in Kinds, Deliver(kind)
      PROVE  store'[Plan(run')[i].kind][Plan(run')[i].name] # None
  BY <1>1, <1>4 DEF Deliver
<1>5. CASE DeliverSpec \/ TimerFires \/ Wake
  BY <1>1, <1>5 DEF DeliverSpec, TimerFires, Wake, objects
<1>6. CASE Restart
  BY <1>6 DEF Restart
<1>7. ASSUME NEW new \in Specs, EditSpec(new)
      PROVE  store'[Plan(run')[i].kind][Plan(run')[i].name] # None
  BY <1>1, <1>7 DEF EditSpec, objects, worker
<1>8. ASSUME NEW kind \in Kinds, NEW name \in Names, DeleteObject(kind, name) PROVE FALSE
  BY <1>8, Constants DEF DeleteObject, TypeOK, ConstantsAssumption
<1>9. ASSUME NEW name \in Names, HPAScales(name)
      PROVE  store'[Plan(run')[i].kind][Plan(run')[i].name] # None
  <2> DEFINE call == Plan(run)[i]
  <2>1. UNCHANGED <<todo, run, deletions>>
    BY <1>9 DEF HPAScales, worker
  <2>2. Made' = Made
    BY <2>1 DEF Made
  <2>3. store[call.kind][call.name] # None
    BY <2>1, <2>2 DEF Standing
  <2>4. PICK value : value # None /\ Put("deployment", name, value)
    BY <1>9, ScaledIsObject
  <2>5. call \in Calls
    <3>1. /\ Plan(run) \in Seq(Calls) /\ Len(Plan(run)) \in Nat /\ Made \in 0..Len(Plan(run))
      BY PlaceInPlan
    <3>2. i \in 1..Len(Plan(run))
      BY <2>2, <3>1
    <3> QED BY <3>1, <3>2, ElementOfSeq
  <2>6. call.kind \in Kinds /\ call.name \in Names /\ "deployment" \in Kinds
    BY <2>5 DEF Calls, Kinds
  <2> HIDE DEF call
  <2>7. store'[call.kind][call.name] # None
    BY <2>3, <2>4, <2>6, PutIsNoticed
  <2> QED BY <2>1, <2>7 DEF call
<1>10. CASE UNCHANGED vars
  BY <1>1, <1>10 DEF vars, objects, worker
<1> QED BY <1>2, <1>3, <1>4, <1>5, <1>6, <1>7, <1>8, <1>9, <1>10 DEF Next, Reconcile

-----------------------------------------------------------------------------
(* The theorems.                                                           *)

(* Initially nothing has been done, nothing is left to do, and the key is  *)
(* queued.                                                                 *)
LEMMA InitInv == Init => IInv
<1> SUFFICES ASSUME Init PROVE IInv
  OBVIOUS
<1>1. TypeOK
  BY InitType
<1>2. Plan(run) \in Seq(Calls) /\ todo = << >> /\ Pending
  BY <1>1, PlanOfSpec DEF TypeOK, Init, Pending
<1>3. Suffix
  BY <1>2, LenProperties, EmptySeq DEF Suffix
<1> QED BY <1>1, <1>2, <1>3 DEF IInv, Init, CacheAgrees, Applied, Standing

(* The invariant is inductive.                                             *)
LEMMA NextInv == IInv /\ [Next]_vars => IInv'
  BY NextType, SuffixStays, CacheAgreesStays, AppliedStays, StandingStays DEF IInv

(* So it holds in every behaviour.                                         *)
LEMMA InvHolds == Spec => []IInv
  BY InitInv, NextInv, PTL DEF Spec

(* An operator at rest has made every call of the plan for the spec.       *)
LEMMA PlanHoldsAtRest ==
  ASSUME IInv, AtRest
  PROVE  \A i \in 1..Len(Plan(spec)) : Holds(Plan(spec)[i], spec)
<1>1. Made = Len(Plan(run))
  BY PlaceInPlan DEF IInv, AtRest
<1> QED BY <1>1 DEF IInv, AtRest, Applied

(* At rest every endpoint of the spec has the Deployment and the Service   *)
(* it is to have, and its HPA or none.                                     *)
LEMMA EndpointsAtRest ==
  ASSUME IInv, AtRest, NEW name \in WantedBy(spec)
  PROVE  /\ store["deployment"][name] = Desired(spec, "deployment", name)
         /\ store["service"][name] = Desired(spec, "service", name)
         /\ store["hpa"][name] = IF name \in AutoscaledOf[spec]
                                 THEN Desired(spec, "hpa", name) ELSE None
<1>1. spec \in Specs
  BY DEF IInv, TypeOK
<1>2. ASSUME NEW kind \in {"deployment", "service"}
      PROVE  store[kind][name] = Desired(spec, kind, name)
  <2>1. PICK i \in 1..Len(Plan(spec)) : Plan(spec)[i] = Call("apply", kind, name)
    BY <1>1, PlanOfSpec
  <2>2. Holds(Call("apply", kind, name), spec)
    BY <2>1, PlanHoldsAtRest
  <2> QED BY <2>2 DEF Holds, Call
<1>3. store["hpa"][name] = IF name \in AutoscaledOf[spec] THEN Desired(spec, "hpa", name) ELSE None
  <2> DEFINE op == IF name \in AutoscaledOf[spec] THEN "apply" ELSE "delete"
  <2>1. PICK i \in 1..Len(Plan(spec)) : Plan(spec)[i] = Call(op, "hpa", name)
    BY <1>1, PlanOfSpec
  <2>2. Holds(Call(op, "hpa", name), spec)
    BY <2>1, PlanHoldsAtRest
  <2> QED BY <2>2 DEF Holds, Call
<1> QED BY <1>2, <1>3

(* An operator at rest has given every endpoint of the spec its            *)
(* Deployment, its Service and, exactly if it is autoscaled, its HPA, and  *)
(* has left nothing of the other topology, after any number of edits,      *)
(* deletions, failed calls and restarts.                                   *)
THEOREM TopologyIsComplete == Spec => []TopologyAtRest
<1>1. IInv => TopologyAtRest
  <2> SUFFICES ASSUME IInv, AtRest PROVE TopologyAtRest
    BY DEF TopologyAtRest
  <2>1. spec \in Specs
    BY DEF IInv, TypeOK
  <2>2. ASSUME NEW name \in WantedBy(spec)
        PROVE  /\ store["deployment"][name] # None /\ store["deployment"][name].spec = spec
               /\ store["service"][name] = [spec |-> spec]
               /\ store["hpa"][name] = IF name \in AutoscaledOf[spec] THEN [spec |-> spec] ELSE None
    <3>1. Desired(spec, "deployment", name) # None
      BY <2>1, NamesByTopology, DesiredIsObject DEF Kinds
    <3>2. /\ store["deployment"][name] = Desired(spec, "deployment", name)
          /\ store["service"][name] = Desired(spec, "service", name)
          /\ store["hpa"][name] = IF name \in AutoscaledOf[spec]
                                  THEN Desired(spec, "hpa", name) ELSE None
      BY <2>2, EndpointsAtRest
    <3>3. /\ Desired(spec, "deployment", name).spec = spec
          /\ Desired(spec, "service", name) = [spec |-> spec]
          /\ Desired(spec, "hpa", name) = [spec |-> spec]
      BY DEF Desired
    <3>4. store["hpa"][name] = IF name \in AutoscaledOf[spec] THEN [spec |-> spec] ELSE None
      BY <3>2, <3>3
    <3> QED BY <3>1, <3>2, <3>3, <3>4
  <2>4. store["pdb"][Unified] = IF Budgeted(spec) THEN [spec |-> spec] ELSE None
    <3> DEFINE op == IF Budgeted(spec) THEN "apply" ELSE "delete"
    <3>1. PICK i \in 1..Len(Plan(spec)) : Plan(spec)[i] = Call(op, "pdb", Unified)
      BY <2>1, PlanOfSpec
    <3>2. Holds(Call(op, "pdb", Unified), spec)
      BY <3>1, PlanHoldsAtRest
    <3>3. Desired(spec, "pdb", Unified) = [spec |-> spec]
      BY DEF Desired
    <3> QED BY <3>2, <3>3 DEF Holds, Call
  <2>3. ASSUME NEW name \in UnwantedBy(spec), NEW kind \in {"deployment", "service"}
        PROVE  store[kind][name] = None
    <3>1. PICK i \in 1..Len(Plan(spec)) : Plan(spec)[i] = Call("delete", kind, name)
      BY <2>1, PlanOfSpec
    <3>2. Holds(Call("delete", kind, name), spec)
      BY <3>1, PlanHoldsAtRest
    <3> QED BY <3>2 DEF Holds, Call
  <2> QED BY <2>2, <2>3, <2>4 DEF TopologyAtRest
<1> QED BY <1>1, InvHolds, PTL

(* With autoscaling off, spec.replicas is what counts once the operator    *)
(* rests, whatever the HPA controller has done in between.                 *)
THEOREM ReplicasTakeEffect == Spec => []ReplicasAtRest
<1>1. IInv => ReplicasAtRest
  <2> SUFFICES ASSUME IInv, AtRest, NEW name \in WantedBy(spec) \ AutoscaledOf[spec]
               PROVE  store["deployment"][name].replicas = Replicas(spec, name)
    BY DEF ReplicasAtRest
  <2>1. store["deployment"][name] = Desired(spec, "deployment", name)
    BY EndpointsAtRest
  <2>2. Desired(spec, "deployment", name).replicas = Replicas(spec, name)
    BY DEF Desired
  <2> QED BY <2>1, <2>2
<1> QED BY <1>1, InvHolds, PTL

(* A role that every spec serves has the Deployment and the Service of one *)
(* endpoint or the other at every step of every change of topology, also   *)
(* of one that fails half way or works from an old spec: the order of the  *)
(* API calls, which says nothing of pods.                                  *)
THEOREM ReplacementIsCreatedFirst == Spec => ReplacementCreatedFirst
<1>1. ASSUME IInv, [Next]_vars, deletions' = 0, NEW role \in AlwaysWanted, HasEndpoint(role)
      PROVE  HasEndpoint(role)'
  <2> DEFINE Stays(n) == \A kind \in {"deployment", "service"} :
                           store[kind][n] # None => store'[kind][n] # None
  <2>1. /\ TypeOK /\ Suffix /\ Standing
        /\ Unified \in Names /\ role \in Names /\ {"deployment", "service"} \subseteq Kinds
    <3>1. TypeOK /\ Suffix /\ Standing
      BY <1>1 DEF IInv
    <3>2. Unified \in Names /\ role \in Names
      BY <1>1 DEF AlwaysWanted, Names
    <3>3. {"deployment", "service"} \subseteq Kinds
      BY DEF Kinds
    <3> QED BY <3>1, <3>2, <3>3
  <2>2. ASSUME Stays(Unified), Stays(role) PROVE HasEndpoint(role)'
    BY <1>1, <2>2 DEF HasEndpoint, HasObjects
  <2>3. ASSUME UNCHANGED store PROVE HasEndpoint(role)'
    BY <2>2, <2>3
  <2>4. ASSUME NEW kind \in Kinds, NEW name \in Names, NEW value,
               Put(kind, name, value), value # None
        PROVE  HasEndpoint(role)'
    <3>1. \A n \in Names : Stays(n)
      BY <2>1, <2>4, PutIsNoticed
    <3> HIDE DEF Stays
    <3> QED BY <2>1, <2>2, <3>1
  <2>5. CASE Step
    <3> DEFINE call == Head(todo)
    <3>1. call.kind \in Kinds /\ call.name \in Names
      BY <2>1, <2>5, StepWrites
    <3>2. Wanted(call) # None
      BY <2>1, <3>1, DesiredIsObject DEF Wanted, TypeOK
    <3>3. CASE call.op = "delete" /\ Put(call.kind, call.name, None)
      <4>1. \A k \in Kinds, n \in Names :
              <<k, n>> # <<call.kind, call.name>> => store'[k][n] = store[k][n]
        BY <2>1, <3>1, <3>3, PutIsNoticed
      <4>2. CASE call.kind \in Extras
        <5>1. Stays(Unified) /\ Stays(role)
          BY <2>1, <4>1, <4>2 DEF Extras
        <5> QED BY <2>2, <5>1
      <4>3. CASE call.kind \notin Extras
        <5>1. deletions = 0 /\ run \in Specs
          BY <1>1, <2>1, <2>5, StepInPlan DEF TypeOK
        <5>2. /\ call.name \notin WantedBy(run)
              /\ \A n \in WantedBy(run), k \in {"deployment", "service"} : store[k][n] # None
          BY <2>1, <2>5, <3>3, <4>3, <5>1, DeletesOthers
        <5>3. WantedBy(run) \subseteq Names
          BY <5>1, NamesByTopology
        <5>4. \A n \in WantedBy(run), k \in {"deployment", "service"} : store'[k][n] # None
          BY <2>1, <4>1, <5>2, <5>3
        <5>5. Unified \in WantedBy(run) \/ role \in WantedBy(run)
          BY <5>1 DEF WantedBy, AlwaysWanted
        <5> QED BY <5>4, <5>5 DEF HasEndpoint, HasObjects
      <4> QED BY <4>2, <4>3
    <3> HIDE DEF call
    <3>4. CASE Put(call.kind, call.name, Wanted(call))
      BY <2>4, <3>1, <3>2, <3>4
    <3> QED BY <2>1, <2>3, <2>5, <3>3, <3>4, StepWrites DEF call
  <2>6. ASSUME NEW name \in Names, HPAScales(name) PROVE HasEndpoint(role)'
    <3>1. PICK value : value # None /\ Put("deployment", name, value)
      BY <2>1, <2>6, ScaledIsObject
    <3> QED BY <2>1, <2>4, <3>1
  <2>7. ASSUME NEW kind \in Kinds, NEW name \in Names, DeleteObject(kind, name) PROVE FALSE
    BY <1>1, <2>1, <2>7, Constants DEF DeleteObject, TypeOK, ConstantsAssumption
  <2>8. CASE Start \/ DeliverSpec \/ TimerFires \/ Wake \/ Restart
    BY <2>3, <2>8 DEF Start, DeliverSpec, TimerFires, Wake, Restart, objects
  <2>9. ASSUME NEW kind \in Kinds, Deliver(kind) PROVE HasEndpoint(role)'
    BY <2>3, <2>9 DEF Deliver
  <2>10. ASSUME NEW new \in Specs, EditSpec(new) PROVE HasEndpoint(role)'
    BY <2>3, <2>10 DEF EditSpec, objects
  <2>11. CASE UNCHANGED vars
    BY <2>3, <2>11 DEF vars, objects
  <2> QED BY <1>1, <2>5, <2>6, <2>7, <2>8, <2>9, <2>10, <2>11 DEF Next, Reconcile
<1>2. IInv /\ [Next]_vars =>
        [deletions' = 0 => \A role \in AlwaysWanted : HasEndpoint(role) => HasEndpoint(role)']_vars
  BY <1>1
<1> QED BY <1>2, InvHolds, PTL DEF Spec, ReplacementCreatedFirst

=============================================================================
