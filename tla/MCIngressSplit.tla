--------------------------- MODULE MCIngressSplit ---------------------------
(***************************************************************************)
(* Instances of IngressSplit for TLC.                                      *)
(***************************************************************************)
EXTENDS IngressSplit

CONSTANTS H1, H2, W1, W2      \* hosts of users; the last two are wildcards

MCWildcards == {W1, W2}

MCSuffixes == <<"0", "1", "2", "3", "4", "5", "6", "7">>

(* Two paths that differ only in what a name cannot have, and upper case.    *)
MCStripped == [p \in {"", "/", "/b", "/b/", "/B"} |-> IF p \in {"", "/"} THEN "" ELSE "b"]

MCDashed == "x" :> <<"x">> @@ "y" :> <<"y">> @@ "b-x" :> <<"b", "x">>

MCYamlNumbers == "1e3" :> 1000

MCAppIDName == "binding-id" :> "id"

MCPieces ==
    "5m" :> <<[digits |-> 5, unit |-> "m"]>> @@ "8s" :> <<[digits |-> 8, unit |-> "s"]>> @@
    "1h5m" :> <<[digits |-> 1, unit |-> "h"], [digits |-> 5, unit |-> "m"]>>

Number(n) == [number |-> n, name |-> ""]
Name(n) == [number |-> 0, name |-> n]

X == [service |-> "x", port |-> Number(80)]
Y == [service |-> "y", port |-> Number(81)]

Annotated(name, rules, backend, tls, annotations) ==
    [name |-> name, rules |-> rules, backend |-> backend, tls |-> tls,
     annotations |-> annotations, conflict |-> FALSE]

Ingress(name, rules, backend, tls) == Annotated(name, rules, backend, tls, EmptyMap)

Rule(h, paths) == [host |-> h, paths |-> paths]

Path(path, backend) ==
    [path |-> path, pathType |-> "", service |-> backend.service, port |-> backend.port]

Old == [version |-> 116, discovered |-> TRUE]
New == [version |-> 119, discovered |-> TRUE]

-----------------------------------------------------------------------------
SomePaths ==
    {<<>>, <<Path("", X)>>, <<Path("/b", X), Path("/b/", X), Path("/B", Y)>>,
     <<Path("/", Y), Path("/b", X)>>}

SomeTls ==
    {<<>>, <<[secret |-> "s1", hosts |-> {H1, H2}], [secret |-> "s2", hosts |-> {H1, W1}]>>}

(* Any one Ingress with up to two rules, hosts in common or not.             *)
OneIngress ==
    {{Ingress(<<"a">>, rules, backend, tls)} :
        rules \in {<<>>} \cup {<<Rule(g, p), Rule(h, q)>> :
            g \in {H1, W1}, h \in {H1, H2, W1, NoHost}, p, q \in SomePaths},
        backend \in {NoBackend, X}, tls \in SomeTls}

(* The host of every rule is its own, wildcards among them; two Ingresses    *)
(* have no host in common, and only one has wildcards.                       *)
OwnHosts ==
    {{Ingress(<<"a">>, <<Rule(g, p), Rule(h, q)>>, backend, <<>>),
      Ingress(<<"b">>, <<Rule(H2, p)>>, X, tls)} :
        g \in {H1, W1}, h \in {W2}, p, q \in SomePaths, backend \in {NoBackend, Y},
        tls \in SomeTls}

(* "a" with service "b-x" and "a-b" with service "x".                        *)
DashedNames ==
    {{Ingress(<<"a">>, <<Rule(H1, <<Path("/", s)>>)>>, NoBackend, <<>>),
      Ingress(<<"a", "b">>, <<Rule(H2, p)>>, NoBackend, <<>>)} :
        s \in {X, [X EXCEPT !.service = "b-x"]}, p \in SomePaths}

-----------------------------------------------------------------------------
S(service) == <<"serviceName", service>>

(* One of several entries, for a service or for all, with one thing wrong.   *)
Variants(key, v, w, wrong) ==
    {<<<<S("x"), <<key, v>>>>, <<<<key, w>>>>, <<S("x"), <<key, w>>>>>>,
     <<<<<<v>>>>, <<<<key, w>>, S("y")>>>>,
     <<<<S("y"), <<key, v>>>>, wrong>>}

SomeValues ==
    [annotation \in {"proxy-read-timeout", "proxy-connect-timeout"} |->
        Variants("timeout", "5m", "8s", <<<<"timeout", "1h5m">>>>)] @@
    [annotation \in {"rewrite-path", "location-modifier"} |->
        LET key == IF annotation = "rewrite-path" THEN "rewrite" ELSE "modifier"
        IN  {<<<<S("x"), <<key, "'='">>>>, <<S("y"), <<key, "'~*'">>>>, <<S("x"), <<key, "'~*'">>>>>>,
             <<<<S("x"), <<key, "'~'">>>>>>, <<<<S("x")>>>>}] @@
    "proxy-buffering" :> Variants("enabled", "true", "no", <<S("x")>>) @@
    "client-max-body-size" :> Variants("size", "1m", "2m", <<<<"siz", "1m">>>>) @@
    "keepalive-requests" :> Variants("requests", "1", "2", <<S(""), <<"requests", "1">>>>) @@
    "keepalive-timeout" :> Variants("timeout", "8s", "5m", <<<<"timeout", "">>>>) @@
    "proxy-buffers" :>
        {<<<<S("x"), <<"number", "4">>, <<"size", "1k">>>>, <<S("x"), <<"number", "8">>, <<"size", "2k">>>>>>,
         <<<<S("x"), <<"number", "4">>>>>>, <<<<<<"number", "4">>, <<"size", "1k">>>>>>} @@
    "ssl-services" :>
        {<<<<<<"ssl-service", "x">>, <<"ssl-secret", "s">>, <<"proxy-ssl-name", "n">>>>,
           <<<<"ssl-service", "y">>>>,
           <<<<"ssl-service", "x">>, <<"ssl-secret", "s">>, <<"proxy-ssl-verify-depth", "5">>>>>>,
         <<<<<<"ssl-service", "x">>, <<"ssl-secret", "s">>, <<"proxy-ssl-verify-depth", "11">>>>>>} @@
    "proxy-next-upstream-config" :>
        {<<<<S("x"), <<"http_502", "true">>, <<"error", "true">>, <<"retries", "3">>>>,
           <<S("y"), <<"off", "true">>, <<"error", "true">>>>, <<S("x"), <<"timeout", "5">>>>>>,
         <<<<<<"error", "true">>>>>>} @@
    "sticky-cookie-services" :>
        {<<<<S("x"), <<"name", "c">>, <<"secure">>>>, <<S("y"), <<"expires", "1h5m">>, <<"path", "/">>>>,
           <<S("x"), <<"httponly">>, <<"hash", "sha1">>>>>>,
         <<<<S("x"), <<"expires", "1d">>>>>>, <<<<S("x"), <<"safe">>>>>>} @@
    "appid-auth" :>
        {<<<<S("x"), <<"bindSecret", "binding-id">>, <<"requestType", "web">>>>,
           <<S("y"), <<"bindSecret", "binding-id">>>>>>,
         <<<<S("x"), <<"bindSecret">>>>>>, <<<<S("x"), <<"web">>, <<"bindSecret", "binding-id">>>>>>} @@
    "redirect-to-https" :> {<<<<<<"true">>>>>>, <<<<<<"no">>>>>>} @@
    "mutual-auth" :>
        {<<<<<<"secretName", "s">>, <<"port", "443">>>>>>, <<<<<<"secretName", "s">>>>>>,
         <<<<<<"secretName">>>>>>} @@
    "large-client-header-buffers" :>
        {<<<<<<"number", "4">>, <<"size", "8k">>>>>>, <<<<<<"number", "4">>>>>>}

(* Nothing but one annotation, or one with another of its service.           *)
SomeAnnotations ==
    UNION {{a :> v : v \in SomeValues[a]} : a \in DOMAIN SomeValues} \cup
    {"ssl-services" :> <<<<<<"ssl-service", "y">>, <<"ssl-secret", "s">>>>>> @@ "appid-auth" :> v :
        v \in SomeValues["appid-auth"]}

(* Two services, one of them the default backend too; an Ingress without     *)
(* annotations before or after it; and only a default backend.               *)
SettingInputs ==
    {[ingresses |->
        {[Annotated(<<"a">>, rules, Y, <<>>, annotations) EXCEPT !.conflict = conflict],
         Ingress(<<"b">>, <<Rule(H2, <<Path("/b", X)>>)>>, NoBackend, <<>>)},
      mode |-> "production", api |-> cluster] :
        rules \in {<<Rule(H1, <<Path("/", X), Path("/b", X)>>), Rule(W1, <<Path("/b", X)>>)>>, <<>>},
        annotations \in SomeAnnotations, conflict \in BOOLEAN, cluster \in {Old, New}}

(* Clusters whose version is known or not; a path type needs 1.18.           *)
Clusters == [version : {116, 119, 122}, discovered : BOOLEAN]

RouteInputs ==
    {[ingresses |->
        {Annotated(<<"a">>,
            <<Rule(H1, <<[Path("/b", X) EXCEPT !.pathType = type, !.port = port], Path("/B", Y)>>)>>,
            [X EXCEPT !.port = port], <<>>, annotations)},
      mode |-> "production", api |-> cluster] :
        type \in {"", "Exact", "Prefix", "ImplementationSpecific"},
        port \in {Number(80), Name("http"), Name("1e3")}, cluster \in Clusters,
        annotations \in {EmptyMap} \cup {"location-modifier" :> v : v \in SomeValues["location-modifier"]}}

(* The one Ingress in production, the two in a test mode.                    *)
SomeInputs ==
    [ingresses : OneIngress, mode : {"production"}, api : {New}] \cup
    [ingresses : OwnHosts, mode : {"test"}, api : {New}] \cup
    SettingInputs \cup
    {x \in RouteInputs : x.api.version = 116 =>
        \A i \in x.ingresses : i.rules[1].paths[1].pathType = ""}

ASSUME ApartAssumption ==
    /\ NamesApart(SomeInputs) /\ NamesDiffer(SomeInputs)
    /\ HostsApart(SomeInputs) /\ All \notin DOMAIN Dashed

TwoIngresses == [ingresses : DashedNames, mode : {"production"}, api : {New}]

=============================================================================
