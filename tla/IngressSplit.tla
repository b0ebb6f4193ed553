---------------------------- MODULE IngressSplit ----------------------------
(***************************************************************************)
(* How one user Ingress becomes many: the servers of getIngressConfig, the *)
(* single configurations of createSingleIngConfs with their names, hosts   *)
(* and TLS secrets, and the writes of createIngressResources, for the      *)
(* Ingresses of one namespace one after the other.  The tool works on      *)
(* v1beta1 Ingresses, on a cluster that has only v1 by converting them.    *)
(*                                                                         *)
(* The name of an Ingress is the sequence of what stands between its       *)
(* dashes: "a-b" is <<"a", "b">>, and "-" joins names with \o.             *)
(***************************************************************************)
EXTENDS Annotations, FiniteSets

CONSTANTS
    Inputs,     \* [ingresses, mode, api] : the user Ingresses of a namespace, and a mode
    Dashed,     \* the name of a service, cut at its dashes
    Stripped,   \* a path in lower case without all but letters and digits
    Wildcards,  \* the hosts that start with "*."
    YamlNumbers,        \* port names that YAML reads as numbers -> these
    NoHost, NoSecret,   \* "" and ""
    Suffixes    \* "0", "1", "2", ...: more than one name has duplicates

TestModes == {"test", "test-with-private"}

VARIABLES
    todo,       \* the Ingresses that are still to be migrated
    ing,        \* the one that is, or Idle
    servers,    \* convertedIngress.Servers
    srv, loc,   \* the server and location that are next
    host,       \* the host of this server in the generated Ingresses
    subdomains, \* subdomainMap: user hosts and test hosts of this Ingress
    confs,      \* singleIngConfs
    server,     \* serverIngConf: its hosts, TLS configurations and settings
    randoms,    \* how many random strings were drawn
    store,      \* the Ingresses in the namespace, by name
    reported,   \* the subdomain map of all Ingresses
    infos,      \* migrationInfos: the Ingresses that were migrated
    mode,       \* the mode of the run
    api         \* [version, discovered]: 1.22 is 122; the client knows it or not

splitVars == <<ing, servers, srv, loc, host, subdomains, confs, server>>
vars == <<todo, splitVars, randoms, store, reported, infos, mode, api>>

Idle ==
    [name |-> <<>>, rules |-> <<>>, backend |-> NoBackend, tls |-> <<>>,
     annotations |-> EmptyMap, conflict |-> FALSE]

(* What the API server lets a user's Ingress be: a port has a number or a    *)
(* name, the other is 0 or "", and a path type is "" when there is none, as  *)
(* in a cluster before 1.18.                                                 *)
Ports == [number : Nat, name : {""}] \cup [number : {0}, name : STRING]

UserPaths ==
    [path : DOMAIN Stripped, pathType : {"", "Exact", "Prefix", "ImplementationSpecific"},
     service : DOMAIN Dashed, port : Ports]

IsRule(rule) == rule = [host |-> rule.host, paths |-> rule.paths] /\ rule.paths \in Seq(UserPaths)

IsIngress(i) ==
    /\ i = [name |-> i.name, rules |-> i.rules, backend |-> i.backend, tls |-> i.tls,
            annotations |-> i.annotations, conflict |-> i.conflict]
    /\ i.name # <<>> /\ i.name \in Seq(STRING)
    /\ i.rules \in Seq(Range(i.rules)) /\ \A r \in DOMAIN i.rules : IsRule(i.rules[r])
    /\ i.backend \in {NoBackend} \cup [service : DOMAIN Dashed, port : Ports]
    /\ \A a \in DOMAIN i.annotations : i.annotations[a] \in Seq(Range(i.annotations[a]))

ASSUME InputsAssumption ==
    /\ Dashed \in [DOMAIN Dashed -> Seq(STRING)] /\ "" \notin DOMAIN Dashed
    /\ <<>> \notin Range(Dashed)
    /\ "/" \in DOMAIN Stripped /\ Stripped \in [DOMAIN Stripped -> STRING]
    /\ \A x \in Inputs :
          /\ x.mode \in TestModes \cup {"production"}
          /\ x.api \in [version : Nat, discovered : BOOLEAN]
          /\ \A i \in x.ingresses :
                /\ IsIngress(i)
                /\ x.api.version < 118 => \A r \in DOMAIN i.rules : \A p \in DOMAIN i.rules[r].paths :
                      i.rules[r].paths[p].pathType = ""

-----------------------------------------------------------------------------
(* IngressVersionAvailable takes a version that it cannot find out for an    *)
(* old one.                                                                  *)
Enhancements == api.discovered /\ api.version >= 118

V1Only == api.discovered /\ api.version >= 122

(* The cluster has no v1beta1 Ingresses since 1.22, to list them is an error.*)
Listed(x) ==
    IF x.api.version >= 122 /\ ~x.api.discovered THEN {} ELSE x.ingresses

IntOrString(port) == IF port.number # 0 THEN [port EXCEPT !.name = ""] ELSE port

ConvertV1ToV1Beta1Ingress(i) ==
    LET Path(path) ==
            [path EXCEPT !.port = IntOrString(@), !.pathType = IF Enhancements THEN @ ELSE ""]
        Rule(rule) == [rule EXCEPT !.paths = [p \in DOMAIN rule.paths |-> Path(rule.paths[p])]]
        Backend(backend) == [backend EXCEPT !.port = IntOrString(@)]
    IN  [i EXCEPT !.rules = [r \in DOMAIN i.rules |-> Rule(i.rules[r])],
                  !.backend = IF i.backend = NoBackend THEN NoBackend ELSE Backend(i.backend)]

(* GetIngressResources: the Ingress the tool works on.                       *)
Read(i) == IF V1Only THEN ConvertV1ToV1Beta1Ingress(i) ELSE i

(* Mutant: a prefix is what the controller takes it for.                     *)
ExactOnly(ingress) ==
    [ingress EXCEPT !.pathType = IF @ = "Exact" THEN @ ELSE "ImplementationSpecific"]

ConvertV1Beta1ToV1Ingress(ingress) ==
    [ingress EXCEPT !.pathType = IF @ \in {"Exact", "Prefix"} THEN @ ELSE "ImplementationSpecific"]

(* generateFromTemplate writes the port as text and reads it as YAML.        *)
Generated(conf) ==
    IF conf.port.name \in DOMAIN YamlNumbers
    THEN [conf EXCEPT !.port = [number |-> YamlNumbers[conf.port.name], name |-> ""]]
    ELSE conf

(* CreateOrUpdateIngress: the Ingress in the cluster.                        *)
Written(conf) ==
    IF V1Only THEN ConvertV1Beta1ToV1Ingress(Generated(conf)) ELSE Generated(conf)

-----------------------------------------------------------------------------
(* Mutant: an empty path is kept.                                            *)
PathKept(path) == path

PathOrDefault(path) == IF path = "" THEN "/" ELSE path

CalcPathType(i, service, original) ==
    IF Modifier(i, service) = "'='" THEN "Exact" ELSE original

(* createLocationConfig *)
Location(i, path) ==
    [path |-> PathOrDefault(path.path), service |-> path.service, port |-> path.port,
     pathType |-> IF Enhancements THEN CalcPathType(i, path.service, path.pathType) ELSE "",
     settings |-> LocationAnnotations(i, path.service)]

DefaultPath(i) ==
    [path |-> "/", pathType |-> "", service |-> i.backend.service, port |-> i.backend.port]

(* The default backend is the root location of a rule that has none.         *)
Paths(i, rule) ==
    IF i.backend = NoBackend \/ \E p \in DOMAIN rule.paths : PathOrDefault(rule.paths[p].path) = "/"
    THEN rule.paths ELSE Append(rule.paths, DefaultPath(i))

(* Without rules the default backend is a server, which is given no settings.*)
Servers(i) ==
    LET settings == ServerAnnotations(i)
        AServer(h, paths, own) ==
            [host |-> h, settings |-> own, locations |-> [p \in DOMAIN paths |-> Location(i, paths[p])]]
    IN  IF i.rules = <<>> /\ i.backend # NoBackend
        THEN <<AServer(NoHost, <<DefaultPath(i)>>, EmptyMap)>>
        ELSE [r \in DOMAIN i.rules |-> AServer(i.rules[r].host, Paths(i, i.rules[r]), settings)]

Unsupported == {"'~'", "'^~'"} \cup (IF Enhancements THEN {} ELSE {"'='"})

(* An annotation that is not right, a modifier that the new controller does  *)
(* not have and a rule without a host are errors.                            *)
Convertible(i) ==
    /\ WellFormed(i)
    /\ Range(GetAnnotationMap(i, "location-modifier", "Modifier")) \cap Unsupported = {}
    /\ \A r \in DOMAIN i.rules : i.rules[r].host # NoHost

(* getTLSSecret: the first TLS configuration that lists the host.            *)
TLSSecret(i, h) ==
    LET found == {t \in DOMAIN i.tls : h \in i.tls[t].hosts}
    IN  IF found = {} THEN NoSecret ELSE i.tls[Min(found)].secret

(* Mutant: no suffix for a name that is in use.                              *)
PlainName(base, used) == base

(* genereteUniqueName: the name, or the name with the first free suffix.     *)
UniqueName(base, used) ==
    IF base \notin used THEN base
    ELSE LET free == {k \in DOMAIN Suffixes : Append(base, Suffixes[k]) \notin used}
         IN  Append(base, Suffixes[Min(free)])

BaseName(i, location) ==
    i.name \o Dashed[location.service]
        \o (IF Stripped[location.path] = "" THEN <<>> ELSE <<Stripped[location.path]>>)

ServerName(i) == Append(i.name, "server")

UsedNames == {confs[c].name : c \in DOMAIN confs}

(* Mutant: every wildcard host is number 0.                                  *)
FirstWildcard(map) == 0

(* GenerateTestSubdomain: the first *.wc-N that this Ingress has not used.   *)
WildcardID(map) ==
    Min({k \in 0..Cardinality(DOMAIN map) : <<"wc", k>> \notin Range(map)})

NoServer == [hosts |-> {}, tls |-> EmptyMap, settings |-> EmptyMap]

-----------------------------------------------------------------------------
Init ==
    /\ \E x \in Inputs : todo = Listed(x) /\ mode = x.mode /\ api = x.api
    /\ ing = Idle /\ servers = <<>> /\ srv = 1 /\ loc = 0 /\ host = <<"user", NoHost>>
    /\ subdomains = EmptyMap /\ confs = <<>> /\ server = NoServer
    /\ randoms = 0 /\ store = EmptyMap /\ reported = EmptyMap /\ infos = {}

Reject ==
    /\ ing = Idle
    /\ \E i \in todo : ~Panics(i) /\ ~Convertible(i) /\ todo' = todo \ {i}
    /\ UNCHANGED <<splitVars, randoms, store, reported, infos, mode, api>>

(* An index that is out of range ends the run.                               *)
ParserPanic ==
    /\ ing = Idle
    /\ \E i \in todo : Panics(i)
    /\ todo' = {}
    /\ UNCHANGED <<splitVars, randoms, store, reported, infos, mode, api>>

Start ==
    /\ ing = Idle
    /\ \E i \in todo : ~Panics(i) /\ Convertible(i) /\ ing' = i /\ todo' = todo \ {i}
                       /\ servers' = Servers(Read(i))
    /\ srv' = 1 /\ loc' = 0 /\ subdomains' = EmptyMap /\ confs' = <<>>
    /\ server' = NoServer
    /\ UNCHANGED <<host, randoms, store, reported, infos, mode, api>>

Server == servers[srv]

Splitting == ing # Idle /\ srv <= Len(servers)

(* The host of the next server.  Every server draws a random string, that    *)
(* only hosts without a wildcard use; they are all different.                *)
StartServer ==
    /\ Splitting /\ loc = 0
    /\ loc' = 1
    /\ IF mode \in TestModes
       THEN /\ host' = IF Server.host \in Wildcards THEN <<"wc", WildcardID(subdomains)>>
                       ELSE <<"random", randoms>>
            /\ subdomains' = Put(subdomains, Server.host, host')
            /\ randoms' = randoms + 1
       ELSE /\ host' = <<"user", Server.host>>
            /\ UNCHANGED <<subdomains, randoms>>
    /\ UNCHANGED <<todo, ing, servers, srv, confs, server, store, reported, infos, mode, api>>

Secret == IF mode \in TestModes THEN "testSecret" ELSE TLSSecret(ing, Server.host)

LocationConf(location) ==
    [name |-> UniqueName(BaseName(ing, location), UsedNames), of |-> ing.name,
     kind |-> "location", hosts |-> {host}, path |-> location.path,
     service |-> location.service, port |-> location.port, pathType |-> location.pathType,
     settings |-> location.settings,
     tls |-> IF Secret = NoSecret THEN EmptyMap ELSE Put(EmptyMap, Secret, {host})]

AddLocation ==
    /\ Splitting /\ loc \in 1..Len(Server.locations)
    /\ confs' = Append(confs, LocationConf(Server.locations[loc]))
    /\ loc' = loc + 1
    /\ UNCHANGED <<todo, ing, servers, srv, host, subdomains, server, randoms, store, reported, infos, mode, api>>

(* Mutant: a secret that is there already is not given the host.             *)
NewSecretsOnly(tls, h) ==
    IF Secret = NoSecret \/ Secret \in DOMAIN tls THEN tls ELSE Put(tls, Secret, {h})

WithSecret(tls, h) ==
    IF Secret = NoSecret THEN tls
    ELSE Put(tls, Secret, {h} \cup (IF Secret \in DOMAIN tls THEN tls[Secret] ELSE {}))

EndServer ==
    /\ Splitting /\ loc > Len(Server.locations)
    /\ server' = [hosts |-> server.hosts \cup {host}, tls |-> WithSecret(server.tls, host),
                  settings |-> Server.settings]
    /\ srv' = srv + 1 /\ loc' = 0
    /\ UNCHANGED <<todo, ing, servers, host, subdomains, confs, randoms, store, reported, infos, mode, api>>

ServerConf ==
    [name |-> ServerName(ing), of |-> ing.name, kind |-> "server", hosts |-> server.hosts,
     settings |-> server.settings, tls |-> server.tls]

(* createIngressResources creates or updates what has the name.              *)
Apply ==
    /\ ing # Idle /\ srv > Len(servers) /\ confs # <<>>
    /\ store' = Put(store, Head(confs).name, Written(Head(confs)))
    /\ confs' = Tail(confs)
    /\ UNCHANGED <<todo, ing, servers, srv, loc, host, subdomains, server, randoms, reported, infos, mode, api>>

(* Mutant: the subdomains of the Ingress replace those of the others.         *)
OwnSubdomains == subdomains

AllSubdomains ==
    [h \in DOMAIN subdomains \cup DOMAIN reported |->
        IF h \in DOMAIN subdomains THEN subdomains[h] ELSE reported[h]]

(* The server resource is the last one; then the loop takes the next Ingress. *)
FinishIngress ==
    /\ ing # Idle /\ srv > Len(servers) /\ confs = <<>>
    /\ store' = Put(store, ServerName(ing), ServerConf)
    /\ reported' = AllSubdomains
    /\ infos' = infos \cup {ing}
    /\ ing' = Idle
    /\ UNCHANGED <<todo, servers, srv, loc, host, subdomains, confs, server, randoms, mode, api>>

Stopped == ing = Idle /\ todo = {} /\ UNCHANGED vars

Next ==
    \/ Reject \/ ParserPanic \/ Start \/ StartServer \/ AddLocation \/ EndServer \/ Apply
    \/ FinishIngress \/ Stopped

Spec == Init /\ [][Next]_vars

-----------------------------------------------------------------------------
Users == UNION {x.ingresses : x \in Inputs}

UserHosts(i) ==
    IF i.rules = <<>> /\ i.backend # NoBackend THEN {NoHost}
    ELSE {i.rules[r].host : r \in DOMAIN i.rules}

Hosts == ({"user"} \X UNION {UserHosts(i) : i \in Users}) \cup ({"wc", "random"} \X Nat)

(* What each variable may hold; while an Ingress is split there is a host    *)
(* and a configuration for every location that is done.                      *)
TypeOK ==
    /\ todo \subseteq Users /\ infos \subseteq Users /\ mode \in TestModes \cup {"production"}
    /\ api \in [version : Nat, discovered : BOOLEAN]
    /\ ing \in Users \cup {Idle}
    /\ ing # Idle => srv \in 1..(Len(servers) + 1)
    /\ Splitting => loc <= Len(Server.locations) + 1 /\ (loc > 0 => host \in Hosts)
    /\ Range(subdomains) \subseteq Hosts /\ Range(reported) \subseteq Hosts
    /\ server.hosts \subseteq Hosts
    /\ \A n \in DOMAIN store :
          /\ store[n].name = n /\ store[n].hosts \subseteq Hosts
          /\ DOMAIN store[n].settings \subseteq DOMAIN LocationSource \cup DOMAIN ServerSource
          /\ store[n].kind = "location" => store[n].path \in DOMAIN Stripped \ {""}
    /\ todo \cap infos = {} /\ ing \notin todo \cup infos

(* The locations of a user's Ingress; 0 is the default backend for a host of *)
(* which it has no root path.                                                *)
IsRoot(path) == path.path \in {"", "/"}

Places(i) ==
    (UNION {{r} \X DOMAIN i.rules[r].paths : r \in DOMAIN i.rules}) \cup
    (IF i.backend = NoBackend THEN {} ELSE
        {<<r, 0>> : r \in IF i.rules = <<>> THEN {0}
            ELSE {q \in DOMAIN i.rules : ~\E p \in DOMAIN i.rules[q].paths : IsRoot(i.rules[q].paths[p])}})

At(i, place) ==
    IF place[2] = 0
    THEN [path |-> "/", pathType |-> "", service |-> i.backend.service, port |-> i.backend.port]
    ELSE LET path == i.rules[place[1]].paths[place[2]]
         IN  [path EXCEPT !.path = IF IsRoot(path) THEN "/" ELSE @]

(* A name never runs out of suffixes (genereteUniqueName counts on).         *)
ASSUME SuffixesAssumption ==
    /\ Suffixes \in Seq(STRING)
    /\ \A k, l \in DOMAIN Suffixes : Suffixes[k] = Suffixes[l] => k = l
    /\ \A i \in Users : Cardinality(Places(i)) <= Len(Suffixes)

HostOf(i, place) == IF place[1] = 0 THEN NoHost ELSE i.rules[place[1]].host

(* In a test mode nothing in a resource tells what host it is generated for. *)
Alike(i, x, y) ==
    /\ At(i, x).path = At(i, y).path /\ At(i, x).service = At(i, y).service
    /\ mode \in TestModes \/ HostOf(i, x) = HostOf(i, y)

ResourcesFor(i, place) ==
    {n \in DOMAIN store :
        /\ store[n].of = i.name /\ store[n].kind = "location"
        /\ store[n].path = At(i, place).path /\ store[n].service = At(i, place).service
        /\ mode \in TestModes \/ store[n].hosts = {<<"user", HostOf(i, place)>>}}

(* The names that a location resource of an Ingress can get, and all of its. *)
LocationNames(i) ==
    LET base(x) == BaseName(i, At(i, x))
    IN  UNION {{base(x)} \cup {Append(base(x), Suffixes[k]) : k \in DOMAIN Suffixes} : x \in Places(i)}

AllNames(i) == LocationNames(i) \cup {ServerName(i)}

(* What the theorems need of the users' names, and no code makes sure of: no *)
(* resource can get the name of another Ingress's, or of its own server's.   *)
NamesApart(inputs) ==
    \A x \in inputs : \A i \in x.ingresses :
        /\ ServerName(i) \notin LocationNames(i)
        /\ \A j \in x.ingresses \ {i} : i.name # j.name /\ AllNames(i) \cap AllNames(j) = {}

(* When that is so: of two names of Ingresses none begins with the other, to *)
(* its end or to a dash, and no service has the name "server".               *)
NamesDiffer(inputs) ==
    /\ <<"server">> \notin Range(Dashed)
    /\ \A x \in inputs : \A i, j \in x.ingresses :
          i # j => \E k \in DOMAIN i.name \cap DOMAIN j.name : i.name[k] # j.name[k]

(* And of their hosts: in a test mode, each is in one rule only.             *)
HostsApart(inputs) ==
    \A x \in inputs : x.mode \in TestModes => \A i \in x.ingresses :
        /\ \A r, q \in DOMAIN i.rules : i.rules[r].host = i.rules[q].host => r = q
        /\ \A j \in x.ingresses \ {i} : UserHosts(i) \cap UserHosts(j) = {}

(* Every location of a migrated Ingress has an Ingress of its own, and there *)
(* is one for its server too: no name is used for two of them, whatever else *)
(* is migrated before or after (createSingleIngConfs, genereteUniqueName).   *)
EveryLocationOnce ==
    ing = Idle => \A i \in infos :
        /\ ServerName(i) \in DOMAIN store /\ store[ServerName(i)].kind = "server"
        /\ \A x \in Places(i) :
              Cardinality(ResourcesFor(i, x)) = Cardinality({y \in Places(i) : Alike(i, x, y)})

(* The server resource of an Ingress serves every host that a location       *)
(* resource of it serves, with the same TLS secrets (createSingleIngConfs).  *)
ServerAgrees ==
    ing = Idle => \A i \in infos : \A n \in DOMAIN store : store[n].of = i.name =>
        \A h \in store[n].hosts :
            /\ h \in store[ServerName(i)].hosts
            /\ {s \in DOMAIN store[n].tls : h \in store[n].tls[s]} =
                  {s \in DOMAIN store[ServerName(i)].tls : h \in store[ServerName(i)].tls[s]}

(* In a test mode no two hosts of one Ingress get the same test host, also   *)
(* when several of them are wildcards (GenerateTestSubdomain).               *)
TestHostsDiffer ==
    ing = Idle /\ mode \in TestModes => \A i \in infos :
        Cardinality(store[ServerName(i)].hosts) = Cardinality(UserHosts(i))

(* In a test mode the subdomain map of the status leads from every host of a *)
(* migrated Ingress to a host its resources serve (HandleIngressResources).  *)
HostsAreReported ==
    ing = Idle /\ mode \in TestModes => \A i \in infos : \A h \in UserHosts(i) :
        h \in DOMAIN reported /\ reported[h] \in store[ServerName(i)].hosts

(* What the last entry of an annotation that names a service says.           *)
Lasting(i, annotation, service, setting) ==
    LET own == {k \in DOMAIN Entries(i, annotation) : Meanings(i, annotation)[k].service = service}
    IN  IF own = {} THEN "" ELSE Meanings(i, annotation)[Max(own)].settings[setting]

Meant(i, service, setting) ==
    LET own == Lasting(i, LocationSource[setting], service, setting)
        all == Lasting(i, LocationSource[setting], All, setting)
    IN  CASE setting = "RedirectToHTTPS" -> all
          [] setting = "ClientMaxBodySize" /\ service \in GetIngressSvcs(i) -> OrDefault(own, all)
          [] setting \in {"AppIDAuthURL", "AppIDSignInURL"} /\ i.conflict -> ""
          [] OTHER -> own

(* Every location resource of a migrated Ingress carries what the last entry *)
(* for its service says, sizes and redirects also what one for all services  *)
(* says, and nothing of another service; the server resource of an Ingress   *)
(* with rules carries what is for the server (GetAnnotationMap,              *)
(* GetAnnotationSizes, createLocationConfig, createSingleIngConfs).          *)
SettingsArrive ==
    ing = Idle => \A i \in infos :
        /\ \A x \in Places(i) : \A n \in ResourcesFor(i, x) : \A s \in DOMAIN LocationSource :
              Lookup(store[n].settings, s) = Meant(i, At(i, x).service, s)
        /\ i.rules # <<>> => \A s \in DOMAIN ServerSource :
              Lookup(store[ServerName(i)].settings, s) = Lasting(i, ServerSource[s], All, s)

SamePathType(x, y) == x = y \/ {x, y} = {"", "ImplementationSpecific"}

(* A location of a migrated Ingress has a resource with the port and the     *)
(* path type that the user gave it, Exact for the modifier '=', through both *)
(* conversions of the API version and the template; but for port names that  *)
(* YAML reads as numbers, and when the version is known                      *)
(* (convertV1ToV1Beta1Ingress, createLocationConfig, generateFromTemplate,   *)
(* convertV1Beta1ToV1Ingress).                                               *)
RouteKept ==
    ing = Idle /\ api.discovered => \A i \in infos : \A x \in Places(i) :
        \E n \in ResourcesFor(i, x) :
            /\ At(i, x).port.name \notin DOMAIN YamlNumbers => store[n].port = At(i, x).port
            /\ SamePathType(store[n].pathType,
                   IF Modifier(i, At(i, x).service) = "'='" THEN "Exact" ELSE At(i, x).pathType)

(* Settings of which the annotation may name no service.                     *)
Optional ==
    {"ProxyReadTimeout", "ProxyConnectTimeout", "ProxyBuffering", "ClientMaxBodySize"}

(* A setting that an annotation gives to all services reaches the locations  *)
(* of all of them (README.md:66: the same behavior).                         *)
EveryServiceGetsIt ==
    ing = Idle => \A i \in infos : \A x \in Places(i) : \A n \in ResourcesFor(i, x) :
        \A s \in Optional :
            Lasting(i, LocationSource[s], All, s) # "" => s \in DOMAIN store[n].settings

=============================================================================
