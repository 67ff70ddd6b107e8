--------------------------------- MODULE MCPods ---------------------------------
(***************************************************************************)
(* Instances of Pods for TLC.  One family of objects is edited while pods  *)
(* come and go; the others are rendered as they are, to meet every kind of *)
(* module, policy and error in combination.                                *)
(***************************************************************************)
EXTENDS Pods

CONSTANTS c1, c2, p1, p2, dbSecret, newDbSecret, nasSecret, newNasSecret

Ref(name) == [name |-> name, key |-> "password"]

Module(name, type) == [name |-> name, type |-> type, enabled |-> TRUE, raw |-> FALSE,
                       bad |-> FALSE, config |-> << >>]
With(m, section, password) ==
  [m EXCEPT !.config = (section :> [bad |-> {}, password |-> password, data |-> {}]) @@ m.config]
SQL(name, secret) == With(Module(name, "rlm_sql"), "sql", Ref(secret))

Cluster(modules) == [image |-> "freeradius", tls |-> None, modules |-> modules,
                     coa |-> FALSE, radiusd |-> << >>]

Client(secret) == [ip |-> "10.0.0.1", nas |-> "other", secret |-> Ref(secret),
                   raw |-> FALSE, bad |-> FALSE]
Named(name, object) == IF object = None THEN None ELSE [name |-> name] @@ object
Clients(first, second) ==
  [c \in {c1, c2} |-> Named(c, IF c = c1 THEN first ELSE second)]

Policy(priority, type) == [stage |-> "authorize", priority |-> priority, raw |-> FALSE,
                           match |-> {}, actions |-> <<[type |-> type, bad |-> FALSE]>>]
Policies(first, second) ==
  [p \in {p1, p2} |-> Named(p, IF p = p1 THEN first ELSE second)]

Objects(cluster, clients, policies) ==
  [part \in Parts |-> CASE part = "cluster" -> cluster
                        [] part = "clients" -> clients
                        [] part = "policies" -> policies]

-----------------------------------------------------------------------------
(* The family that is edited: the Secret of a module, that of a client,    *)
(* the action of a policy.                                                 *)
Member(database, nas, action) == Objects(Cluster(<<SQL("sql", database)>>),
                                         Clients(Client(nas), None),
                                         Policies(Policy(10, action), None))

Start == Member(dbSecret, nasSecret, "reject")
Family == {Start, Member(newDbSecret, nasSecret, "reject"),
           Member(dbSecret, newNasSecret, "reject"),
           Member(newDbSecret, newNasSecret, "reject"),
           Member(dbSecret, nasSecret, "accept")}

MCEdited(objects) ==
  IF objects \in Family
  THEN {o \in Family : Cardinality({part \in Parts : o[part] # objects[part]}) = 1}
  ELSE {}

-----------------------------------------------------------------------------
(* The others: modules of every kind and with every error, clients and     *)
(* policies that fail in every way, ties, literal text, divided names.     *)
VariousModules ==
  {<<SQL("sql", dbSecret)>>,
   <<SQL("backup", dbSecret)>>,
   <<With(Module("redis", "rlm_redis"), "redis", Ref(dbSecret)),
     [SQL("sql", newDbSecret) EXCEPT !.enabled = FALSE]>>,
   <<With(With(Module("ldap", "rlm_ldap"), "ldap", Ref(dbSecret)), "rest", Ref(newDbSecret)),
     [With(Module("users", "rlm_files"), "files", None) EXCEPT !.config["files"].data = {"authorize"}]>>,
   <<SQL("sql__eu", dbSecret), Module("pap", "rlm_pap")>>,
   <<[Module("odd", "rlm_odd") EXCEPT !.raw = TRUE], With(Module("eap", "rlm_eap"), "eap", None)>>,
   <<[Module("odd", "rlm_odd") EXCEPT !.enabled = FALSE]>>,
   <<[SQL("sql", dbSecret) EXCEPT !.config["sql"].bad = {"server"}]>>,
   <<Module("sql", "rlm_sql")>>,
   <<Module("odd", "rlm_odd"), Module("sql", "rlm_sql")>>,
   <<With(Module("rest", "rlm_rest"), "rest", Ref(dbSecret)), Module("odd", "rlm_odd")>>}

VariousClients ==
  {Clients(Client(nasSecret), None),
   Clients([Client(nasSecret) EXCEPT !.raw = TRUE], None),
   Clients([Client(nasSecret) EXCEPT !.bad = TRUE], None)}

Leaf(value) == [bad |-> FALSE, regex |-> FALSE, value |-> value]

VariousPolicies ==
  {Policies(Policy(20, "set"), Policy(10, "call")),
   Policies([Policy(10, "accept") EXCEPT !.match = {Leaf("plain"), Leaf("regex")}], None),
   Policies([Policy(10, "redundant") EXCEPT !.actions[1].bad = TRUE], Policy(20, "odd")),
   Policies([Policy(10, "odd") EXCEPT !.raw = TRUE], None),
   Policies([Policy(10, "reject") EXCEPT !.stage = "odd"], Policy(20, "reject"))}

Plain == Cluster(<<SQL("sql", dbSecret)>>)
OneClient == Clients(Client(nasSecret), None)
OnePolicy == Policies(Policy(10, "reject"), None)
WithModules(modules) == [Cluster(modules) EXCEPT !.radiusd = [max_servers |-> 8]]

(* Every two of the parts in combination; two clients; policies that tie;  *)
(* literal text for radiusd.conf.                                          *)
Various ==
  {Objects(WithModules(m), clients, OnePolicy) : m \in VariousModules, clients \in VariousClients}
  \cup {Objects(WithModules(m), OneClient, policies) :
          m \in VariousModules, policies \in VariousPolicies}
  \cup {Objects(Plain, clients, policies) :
          clients \in VariousClients, policies \in VariousPolicies}
  \cup {Objects(Plain, Clients(Client(nasSecret), Client(newNasSecret)), OnePolicy),
        Objects(Plain, Clients(None, None), Policies(Policy(10, "set"), Policy(10, "call"))),
        Objects([Plain EXCEPT !.radiusd = [raw |-> "text"]], OneClient, OnePolicy)}

MCStarts == {Start} \cup Various
MCInputs == Family \cup Various
MCMaxEvents(objects) == IF objects = Start THEN 2 ELSE 0
(* One rotation is enough for RotationReachesPods.                         *)
OneStart == {Start}
OneEvent(objects) == 1

(* A module that is not named after its type, one with "__" in its name,   *)
(* and two clients, of which the first one's Secret lacks its key: what    *)
(* PodsAsRendered needs to fail in each of its parts.                      *)
OddNames == {Objects(WithModules(<<SQL("backup", dbSecret), SQL("sql__eu", dbSecret)>>),
                     Clients(Client(nasSecret), Client(newNasSecret)), OnePolicy)}
NoEvent(objects) == 0

MCSecrets == [n \in {dbSecret, newDbSecret, nasSecret, newNasSecret} |->
                [keys |-> {"password"}, version |-> 1]]
KeyMissing == [MCSecrets EXCEPT ![nasSecret].keys = {}]
MCContents == {[keys |-> {"password"}, version |-> 2]}
MCPieces == "sql__eu" :> <<"sql", "eu">>
MCOrder == <<c1, c2>>

=============================================================================
