------------------------------- MODULE Rendering -------------------------------
(***************************************************************************)
(* From objects to files: what the RadiusCluster controller and the        *)
(* renderer make of a cluster, its clients and its policies, and what the  *)
(* init containers of a pod make of the result.                            *)
(*                                                                         *)
(*   cluster  [image, tls: None or a reference, modules: a sequence,       *)
(*             coa: a boolean, radiusd: the settings that are given]       *)
(*   module   [name, type, enabled, raw, bad, config: section -> [bad,     *)
(*             password: None or a reference, data: its data files]]       *)
(*   client   [name, ip, nas, secret: a reference, raw, bad]               *)
(*   policy   [name, stage, priority, raw, match: leaves,                  *)
(*             actions: a sequence]                                        *)
(*   a reference to a Secret is [name, key]                                *)
(*                                                                         *)
(* Text is kept only as far as files can differ by it.  "bad" stands for   *)
(* a field that does not match its pattern, "raw" for literal text in      *)
(* place of what would be generated.                                       *)
(***************************************************************************)
EXTENDS Integers, Sequences, FiniteSets, SequencesExt

CONSTANTS
  None,      \* an object or reference that is not there
  Pieces,    \* the names "__" divides, and what it divides them into
  APIOrder   \* the names of clients in the order the API server lists them

(* The orders in which the elements of a set may come.                     *)
Listings(S) == Bijection(1..Cardinality(S), S)

FixedNames == {"clients.conf", "radiusd.conf", "sites-enabled", "default",
               "mods-enabled", "mods-config"}

(* "__" divides a name into two pieces or more, and is in none of the      *)
(* names the renderer itself gives.                                        *)
ASSUME PiecesAssumption ==
  /\ \A name \in DOMAIN Pieces : Pieces[name] \in Seq(STRING) /\ Len(Pieces[name]) > 1
  /\ FixedNames \cap DOMAIN Pieces = {}

-----------------------------------------------------------------------------
(* Validation.  Only the fields of the section that fits the type are      *)
(* looked at; those that may be left out are never bad when they are.      *)

SectionOf == [rlm_sql |-> "sql", rlm_ldap |-> "ldap", rlm_eap |-> "eap",
              rlm_rest |-> "rest", rlm_redis |-> "redis", rlm_files |-> "files"]

PlainTypes == {"rlm_pap", "rlm_chap", "rlm_mschap", "rlm_unix", "rlm_pam", "rlm_python",
               "rlm_perl", "rlm_cache", "rlm_attr_filter", "rlm_expr", "rlm_detail",
               "rlm_linelog"}

CheckedFields ==
  [sql   |-> {"dialect", "server", "database", "login"},
   ldap  |-> {"server", "baseDN", "identity"},
   eap   |-> {"defaultEAPType", "certFile", "keyFile", "ttlsDefaultEAPType",
              "ttlsVirtualServer", "peapDefaultEAPType", "peapVirtualServer"},
   rest  |-> {"connectURI", "auth", "stageURI", "stageMethod"},
   redis |-> {"server"},
   files |-> {"key"}]

HasSection(m) == m.type \in DOMAIN SectionOf /\ SectionOf[m.type] \in DOMAIN m.config
Section(m) == m.config[SectionOf[m.type]]

ValidClient(c) == c.raw \/ ~c.bad

ValidModule(m) ==
  \/ ~m.enabled \/ m.raw
  \/ /\ ~m.bad
     /\ HasSection(m) => Section(m).bad \cap CheckedFields[SectionOf[m.type]] = {}

(* A value is plain, or fit for a regular expression only, or neither.     *)
ValidLeaf(leaf) == /\ ~leaf.bad
                   /\ leaf.value \in IF leaf.regex THEN {"plain", "regex"} ELSE {"plain"}

(* Neither the actions without arguments nor unknown ones are looked at.   *)
ValidAction(a) == a.type \in {"call", "set", "redundant", "load-balance"} => ~a.bad

ValidPolicy(p) ==
  p.raw \/ /\ \A leaf \in p.match : ValidLeaf(leaf)
           /\ \A i \in DOMAIN p.actions : ValidAction(p.actions[i])

-----------------------------------------------------------------------------
(* Render.  A run that fails with one of the three Invalid* types is not   *)
(* tried again; any other error, one that wraps them too, is.              *)

Wrapped(valid) == IF valid THEN "ok" ELSE "error"

ModuleVerdict(m) ==
  CASE ~m.enabled \/ m.raw                            -> "ok"
    [] m.type \notin DOMAIN SectionOf \cup PlainTypes -> "typed"
    [] OTHER -> Wrapped(m.type \in DOMAIN SectionOf => HasSection(m))

Stages == {"authorize", "authenticate", "preacct", "accounting", "post-auth",
           "pre-proxy", "post-proxy", "session"}
ActionTypes == {"set", "call", "reject", "accept", "redundant", "load-balance"}

(* Also of policies with raw text.                                         *)
SiteVerdict(p) ==
  IF /\ p.stage \in Stages
     /\ \A i \in DOMAIN p.actions : p.actions[i].type \in ActionTypes
  THEN "ok" ELSE "typed"

ClientVerdict(c) == Wrapped(ValidClient(c))
FieldsVerdict(m) == Wrapped(ValidModule(m))
PolicyVerdict(p) == Wrapped(ValidPolicy(p))

Each(seq, VerdictOf(_)) == [i \in DOMAIN seq |-> VerdictOf(seq[i])]

(* Everything Render looks at, in the order in which it does.              *)
SitesFirst(ctx) ==   \* mutant
  Each(ctx.clients, ClientVerdict)
    \o Each(ctx.policies, SiteVerdict)
    \o Each(ctx.cluster.modules, FieldsVerdict)
    \o Each(ctx.policies, PolicyVerdict)
    \o Each(ctx.cluster.modules, ModuleVerdict)

Verdicts(ctx) ==
  Each(ctx.clients, ClientVerdict)
    \o Each(ctx.cluster.modules, FieldsVerdict)
    \o Each(ctx.policies, PolicyVerdict)
    \o Each(ctx.cluster.modules, ModuleVerdict)
    \o Each(ctx.policies, SiteVerdict)

FirstFailure(verdicts) ==
  LET failed == {i \in DOMAIN verdicts : verdicts[i] # "ok"}
  IN IF failed = {} THEN "ok"
     ELSE verdicts[CHOOSE i \in failed : \A j \in failed : i <= j]

Verdict(ctx) == FirstFailure(Verdicts(ctx))

-----------------------------------------------------------------------------
(* The files: a function from paths to [text, refs], the references to     *)
(* Secrets being those written as ${file:...}.                             *)

File(text, refs) == [text |-> text, refs |-> refs]

(* A setting that is zero, false or empty is taken for one that is not     *)
(* given; literal text stands for all of them.                             *)
Defaults == [max_request_time |-> 30, max_requests |-> 16384,
             destination |-> "stdout", auth |-> TRUE, auth_badpass |-> FALSE, auth_goodpass |-> FALSE,
             max_attributes |-> 200, reject_delay |-> 1,
             start_servers |-> 5, max_servers |-> 32, min_spare_servers |-> 3,
             max_spare_servers |-> 10, max_requests_per_server |-> 0]
Switches == {"auth", "auth_badpass", "auth_goodpass"}
Zero(s) == CASE s \in Switches    -> FALSE
             [] s = "destination" -> ""
             [] OTHER             -> 0

Effective(settings) ==
  [s \in DOMAIN Defaults |->
     IF s \in DOMAIN settings /\ settings[s] # Zero(s) THEN settings[s] ELSE Defaults[s]]

RadiusdConf(cluster) ==
  File(IF "raw" \in DOMAIN cluster.radiusd
       THEN [raw |-> cluster.radiusd.raw]
       ELSE [settings |-> Effective(cluster.radiusd), coa |-> cluster.coa], {})

(* A client with raw text is that text.                                    *)
Entry(c) == IF c.raw THEN [raw |-> c.name]
                     ELSE [name |-> c.name, ip |-> c.ip, nas |-> c.nas, secret |-> c.secret]

ClientsConf(clients) ==
  File([i \in DOMAIN clients |-> Entry(clients[i])],
       {clients[i].secret : i \in {j \in DOMAIN clients : ~clients[j].raw}})

(* The password goes into the file only if the section fits the type.      *)
Password(m) == IF m.raw \/ ~HasSection(m) THEN {} ELSE {Section(m).password} \ {None}

DataFiles(m) == IF m.type = "rlm_files" /\ HasSection(m) THEN Section(m).data ELSE {}

ModulePaths(m) == {<<"mods-enabled", m.name>>}
                    \cup {<<"mods-config", m.name, file>> : file \in DataFiles(m)}
ModuleFile(m, path) ==
  IF path = <<"mods-enabled", m.name>> THEN File(m, Password(m)) ELSE File(<<m.name, path>>, {})

InListOrder(policies, S) == CHOOSE order \in Listings(S) :   \* mutant
  \A a, b \in DOMAIN order : a < b => order[a] < order[b]

(* By priority; ties stay in the order of the list (as they do in up to    *)
(* twelve policies, which sort.Slice sorts by insertion).                  *)
Precedes(policies, i, j) ==
  \/ policies[i].priority < policies[j].priority
  \/ policies[i].priority = policies[j].priority /\ i < j

ByPriority(policies, S) == CHOOSE order \in Listings(S) :
  \A a, b \in DOMAIN order : a < b => Precedes(policies, order[a], order[b])

OfStage(policies, stage) == {i \in DOMAIN policies : policies[i].stage = stage}

StageSites(policies, stage) ==
  LET order == ByPriority(policies, OfStage(policies, stage))
  IN [k \in DOMAIN order |-> policies[order[k]]]

(* The section of a stage that no policy is for is always the same.        *)
Sites(policies, coa) ==
  LET stages == {policies[i].stage : i \in DOMAIN policies}
  IN File([stages |-> [stage \in stages |-> StageSites(policies, stage)], coa |-> coa], {})

(* The renderer's own files.                                               *)
CorePaths == {<<"clients.conf">>, <<"radiusd.conf">>, <<"sites-enabled", "default">>}
CoreFile(ctx, path) ==
  CASE path = <<"clients.conf">>             -> ClientsConf(ctx.clients)
    [] path = <<"radiusd.conf">>             -> RadiusdConf(ctx.cluster)
    [] path = <<"sites-enabled", "default">> -> Sites(ctx.policies, ctx.cluster.coa)

(* With those of some of the modules: of two with one name the later one   *)
(* has the file.                                                           *)
FilesOf(ctx, rendered) ==
  LET modules == ctx.cluster.modules
      last(path) == CHOOSE i \in rendered :
        /\ path \in ModulePaths(modules[i])
        /\ \A j \in rendered : path \in ModulePaths(modules[j]) => j <= i
  IN [path \in CorePaths \cup UNION {ModulePaths(modules[i]) : i \in rendered} |->
        IF path \in CorePaths THEN CoreFile(ctx, path)
                              ELSE ModuleFile(modules[last(path)], path)]

RenderDisabledToo(ctx) == FilesOf(ctx, DOMAIN ctx.cluster.modules)   \* mutant

Enabled(modules) == {i \in DOMAIN modules : modules[i].enabled}
Render(ctx) == FilesOf(ctx, Enabled(ctx.cluster.modules))

-----------------------------------------------------------------------------
(* What the controller writes.                                             *)

Present(objects) == {o \in DOMAIN objects : objects[o] # None}
Listed(objects, order) == [i \in DOMAIN order |-> objects[order[i]]]

(* A Secret is mounted for every section of an enabled module that names   *)
(* one, of the module's type or not, and for every client.                 *)
PasswordSections == {"sql", "ldap", "rest", "redis"}

SecretsButRedis(m) ==   \* mutant
  IF m.enabled
  THEN {m.config[s].password : s \in DOMAIN m.config \cap {"sql", "ldap", "rest"}} \ {None}
  ELSE {}

ModuleSecrets(m) ==
  IF m.enabled
  THEN {m.config[s].password : s \in DOMAIN m.config \cap PasswordSections} \ {None}
  ELSE {}

collectModuleSecrets(ctx) ==   \* mutant: clients are forgotten
  {ref.name : ref \in ({ctx.cluster.tls} \ {None})
                \cup UNION {ModuleSecrets(m) : m \in ToSet(ctx.cluster.modules)}}

collectSecretRefs(ctx) ==
  {ref.name : ref \in ({ctx.cluster.tls} \ {None})
                \cup {c.secret : c \in ToSet(ctx.clients)}
                \cup UNION {ModuleSecrets(m) : m \in ToSet(ctx.cluster.modules)}}

(* The key of a file in the ConfigMap has "__" for "/"; the key is given   *)
(* by the pieces between them, which are also what config-init cuts it     *)
(* into again.                                                             *)
PiecesOf(name) == IF name \in DOMAIN Pieces THEN Pieces[name] ELSE <<name>>
Key(path) ==
  CASE Len(path) = 1 -> PiecesOf(path[1])
    [] Len(path) = 2 -> PiecesOf(path[1]) \o PiecesOf(path[2])
    [] Len(path) = 3 -> PiecesOf(path[1]) \o PiecesOf(path[2]) \o PiecesOf(path[3])

ConfigMapData(files) ==
  [key \in {Key(path) : path \in DOMAIN files} |->
     files[CHOOSE path \in DOMAIN files : Key(path) = key]]

HashedClients(clients) ==
  [i \in DOMAIN clients |-> [name |-> clients[i].name, ip |-> clients[i].ip,
                             secret |-> clients[i].secret, nas |-> clients[i].nas]]

HashWithoutFiles(ctx) == [clients |-> HashedClients(ctx.clients)]   \* mutant

(* The digest of the files and of the clients.                             *)
ConfigHash(ctx) == [files |-> Render(ctx), clients |-> HashedClients(ctx.clients)]

(* What of the pod template depends on it.                                 *)
Template(ctx) == [image |-> ctx.cluster.image, secrets |-> collectSecretRefs(ctx),
                  hash |-> ConfigHash(ctx)]

(* The parts Publisher reads.                                              *)
Parts == {"cluster", "clients", "policies"}

Readings(part, value) ==
  CASE part = "cluster"                -> {<<"cluster", value>>}
    [] part \in {"clients", "policies"} ->
         {<<part, Listed(value, order)>> : order \in Listings(Present(value))}

Context(draft) == [cluster |-> draft["cluster"][2], clients |-> draft["clients"][2],
                   policies |-> draft["policies"][2]]

(* What a run may make of the objects that reads all of them as they are.  *)
ContextsOf(objects) ==
  {[cluster  |-> objects["cluster"],
    clients  |-> Listed(objects["clients"], clients),
    policies |-> Listed(objects["policies"], policies)] :
       clients \in Listings(Present(objects["clients"])),
       policies \in Listings(Present(objects["policies"]))}

Accepted(draft) == Verdict(Context(draft)) = "ok"
Refused(draft) == Verdict(Context(draft)) = "typed"
ConfigFor(draft) == ConfigMapData(Render(Context(draft)))
WorkloadFor(draft) == Template(Context(draft))

(* What the API server makes sure of: a cluster has a list of modules, of  *)
(* which EAP and files have no field for a password; clients and policies  *)
(* go by their names.                                                      *)
IsList(list) == /\ IsFiniteSet(DOMAIN list)
                /\ DOMAIN list = 1..Cardinality(DOMAIN list)

WellFormed(part, value) ==
  CASE part = "cluster" ->
         /\ "modules" \in DOMAIN value /\ IsList(value.modules)
         /\ \A m \in ToSet(value.modules) :
              /\ m.name \in STRING /\ DataFiles(m) \subseteq STRING
              /\ \A section \in DOMAIN m.config \ PasswordSections :
                   m.config[section].password = None
    [] part \in {"clients", "policies"} ->
         /\ value # None /\ IsFiniteSet(DOMAIN value)
         /\ \A name \in Present(value) :
              /\ value[name].name = name
              /\ part = "policies" => value[name].priority \in Int

-----------------------------------------------------------------------------
(* What the init containers make of it.                                    *)

Readable(ref, secrets) == ref.name \in DOMAIN secrets /\ ref.key \in secrets[ref.name].keys

(* config-init looks into *.conf and into files of five names.             *)
LooksInto(key) ==
  Last(key) \in {"clients.conf", "radiusd.conf", "sql", "ldap", "rest", "redis", "eap"}

(* The references a file is left with.                                     *)
Unresolved(key, file, secrets) ==
  IF LooksInto(key) THEN {ref \in file.refs : ~Readable(ref, secrets)} ELSE file.refs

(* render-clients has the clients from the API server, without their raw   *)
(* text, and validates nothing.                                            *)
LiveClients(clients) ==
  [name \in Present(clients) |->
     [ip |-> clients[name].ip, nas |-> clients[name].nas, secret |-> clients[name].secret]]

(* It replaces references in the order of the text and stops at the first  *)
(* file it cannot read.                                                    *)
UnresolvedClients(clients, secrets) ==
  {name \in Present(clients) :
     \E i, j \in DOMAIN APIOrder :
       /\ i <= j /\ APIOrder[j] = name /\ APIOrder[i] \in Present(clients)
       /\ ~Readable(clients[APIOrder[i]].secret, secrets)}

=============================================================================
