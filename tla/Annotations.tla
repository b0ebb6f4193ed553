----------------------------- MODULE Annotations -----------------------------
(***************************************************************************)
(* The annotations of an Ingress, and the settings of its services and of  *)
(* its server that parsers/annotation_parsers.go and annotation_getter.go  *)
(* make of them.  A header or a snippet is not a setting: LocationSnippets *)
(* has those.                                                              *)
(*                                                                         *)
(* The value of an annotation is a sequence of entries (between its        *)
(* semicolons), an entry of words (between spaces), a word of pieces       *)
(* (between its "="): "serviceName=x timeout=5m" is the one entry          *)
(* << <<"serviceName", "x">>, <<"timeout", "5m">> >>.  A key occurs once   *)
(* in an entry, an entry of a single value or a rewrite has at most two    *)
(* words, a number has no leading zeros, an "expires" has a value, and     *)
(* what the code looks for by strings.Contains is a whole piece or word.   *)
(***************************************************************************)
EXTENDS Durations, FiniteSetsExt, Functions, TLC
LOCAL Seqs == INSTANCE SequencesExt

CONSTANTS
    AppIDName,      \* bind secrets -> their names without "binding-"
    NoBackend       \* nil

All == "k8-svc-all"     \* AllIngressServiceName: the entry names no service

EmptyMap == [x \in {} |-> x]

(* A map with v at x.                                                       *)
Put(map, x, v) == [y \in DOMAIN map \cup {x} |-> IF y = x THEN v ELSE map[y]]

-----------------------------------------------------------------------------
(* What a parser makes of an entry.                                         *)
Ok(service, settings) == [outcome |-> "ok", service |-> service, settings |-> settings]
Bad(outcome) == [outcome |-> outcome, service |-> "", settings |-> EmptyMap]

OkIf(valid, service, settings) == IF valid THEN Ok(service, settings) ELSE Bad("error")

IsPair(word, key) == Len(word) = 2 /\ word[1] = key

(* The value of a key, "" if there is none.                                 *)
Value(entry, key) ==
    LET with == {k \in DOMAIN entry : IsPair(entry[k], key)}
    IN  IF with = {} THEN "" ELSE entry[Max(with)][2]

OnlyPairs(entry) == \A k \in DOMAIN entry : Len(entry[k]) = 2

(* Two pairs with these keys and with values.                               *)
HasPairs(entry, key1, key2) ==
    /\ Len(entry) = 2 /\ OnlyPairs(entry)
    /\ Value(entry, key1) # "" /\ Value(entry, key2) # ""

PairOfService(entry, key, settings) ==
    OkIf(HasPairs(entry, "serviceName", key), Value(entry, "serviceName"), settings)

Mentions(word) == "serviceName" \in Range(word)

(* parseServiceNameOrAllService, "" for an error: the second of two parts   *)
(* has all words but the first in it.                                       *)
ServiceOf(entry) ==
    LET naming == {k \in DOMAIN entry : Mentions(entry[k])}
        first == Min(naming)
    IN  IF naming = {} THEN All
        ELSE IF IsPair(entry[first], "serviceName") /\ (first = 1 \/ Len(entry) = 2)
             THEN entry[first][2] ELSE ""

(* parseServiceWithSingleValue, "" for an error: the key may be left out.   *)
SingleValue(entry, key) ==
    LET others == {k \in DOMAIN entry : ~Mentions(entry[k])}
        word == entry[Min(others)]
    IN  IF others = {} \/ ServiceOf(entry) = "" THEN ""
        ELSE IF Len(word) # 2 THEN word[1]
        ELSE IF word[1] = key THEN word[2] ELSE ""

Single(entry, key, setting) ==
    LET value == SingleValue(entry, key)
    IN  OkIf(value # "", ServiceOf(entry), [s \in {setting} |-> value])

(* The value is an amount of time, the setting its seconds.                 *)
SingleTimeout(entry, setting) ==
    LET text == SingleValue(entry, "timeout")
    IN  IF ValidTimeout(text) THEN Ok(ServiceOf(entry), setting :> ToString(Timeout(text)))
        ELSE Bad("error")

ProxyBuffering(entry) ==
    LET enabled == SingleValue(entry, "enabled")
    IN  OkIf(enabled # "", ServiceOf(entry),
             "ProxyBuffering" :> IF enabled = "true" THEN "on" ELSE "off")

(* The size is looked for behind the number without a look whether there    *)
(* are so many words.                                                       *)
ProxyBuffers(entry) ==
    IF ServiceOf(entry) = "" \/ Len(entry) = 1 THEN Bad("error")
    ELSE IF ~IsPair(entry[2], "number") THEN Bad("error")
    ELSE IF Len(entry) = 2 THEN Bad("panic")
    ELSE OkIf(IsPair(entry[3], "size"), ServiceOf(entry),
              "ProxyBuffers" :> Value(entry, "number") @@ "ProxyBufferSize" :> Value(entry, "size"))

OrDefault(value, default) == IF value = "" THEN default ELSE value

SslDepths == {ToString(depth) : depth \in 1..10}

SslService(entry) ==
    OkIf(/\ Len(entry) <= 4 /\ IsPair(entry[1], "ssl-service")
         /\ \A k \in 2..Len(entry) :
               \/ k = 2 /\ IsPair(entry[k], "ssl-secret")
               \/ k > 2 /\ IsPair(entry[k], "proxy-ssl-name")
               \/ k > 2 /\ IsPair(entry[k], "proxy-ssl-verify-depth") /\ entry[k][2] \in SslDepths,
         Value(entry, "ssl-service"),
         "ProxySSLSecret" :> Value(entry, "ssl-secret") @@
         "ProxySSLName" :> Value(entry, "proxy-ssl-name") @@
         "ProxySSLVerifyDepth" :> OrDefault(Value(entry, "proxy-ssl-verify-depth"), "1") @@
         "ProxySSLVerify" :> "on")

Conditions ==
    <<"error", "invalid_header", "http_500", "http_502", "http_503", "http_504", "http_403",
      "http_404", "http_429", "non_idempotent">>

(* The conditions of an entry in their own order, or only "off".            *)
NextUpstream(entry) ==
    LET Asked(condition) == <<condition, "true">> \in Range(entry)
        Add(text, condition) == IF text = "" THEN condition ELSE text \o " " \o condition
    IN  IF Asked("off") THEN "off" ELSE Seqs!FoldLeft(Add, "", SelectSeq(Conditions, Asked))

NextUpstreamConfig(entry) ==
    OkIf(Value(entry, "serviceName") # "", Value(entry, "serviceName"),
         "ProxyNextUpstream" :> NextUpstream(entry) @@
         "ProxyNextUpstreamTries" :> Value(entry, "retries") @@
         "ProxyNextUpstreamTimeout" :> Value(entry, "timeout"))

(* A service with an entry has a sticky cookie, whatever the entry sets.    *)
StickyCookie(entry) ==
    LET expires == Value(entry, "expires")
        pairs == SelectSeq(entry, LAMBDA word : word \notin {<<"secure">>, <<"httponly">>})
    IN  IF ~OnlyPairs(pairs) \/ Value(entry, "serviceName") = "" \/ (expires # "" /\ ~ValidTime(expires))
        THEN Bad("error")
        ELSE Ok(Value(entry, "serviceName"),
                "SetStickyCookie" :> "true" @@
                "StickyCookieName" :> Value(entry, "name") @@
                "StickyCookiePath" :> Value(entry, "path") @@
                "StickyCookieExpire" :> IF expires = "" THEN "" ELSE ToString(TimeWithUnits(expires)))

(* A word without a "=" is an error, but its value is still looked at when  *)
(* it is one of the keys.  The URLs are told apart by the App ID instance.  *)
AppidAuth(entry) ==
    LET keys == {"serviceName", "bindSecret", "namespace", "requestType", "idToken"}
        secret == Value(entry, "bindSecret")
        request == Value(entry, "requestType")
    IN  IF \E key \in keys : <<key>> \in Range(entry) THEN Bad("panic")
        ELSE IF \/ ~OnlyPairs(entry) \/ Value(entry, "serviceName") = "" \/ secret = ""
                \/ request \notin {"", "api", "web"}
             THEN Bad("error")
        ELSE Ok(Value(entry, "serviceName"),
                "AppIDAuthURL" :> AppIDName[secret] @@
                "AppIDSignInURL" :> IF request = "web" THEN AppIDName[secret] ELSE "")

(* The modifiers but "'~*'" and "'='" keep an Ingress from being migrated.  *)
LocationModifier(entry) ==
    LET modifier == Value(entry, "modifier")
    IN  PairOfService(entry, "modifier",
            "Modifier" :> modifier @@ "UseRegex" :> IF modifier = "'~*'" THEN "true" ELSE "")

(* These two are about the server: their one entry names no service.        *)
MutualAuth(entry) ==
    LET secret == Value(entry, "secretName")
    IN  OkIf(OnlyPairs(entry), All,
             "MutualAuthSecretName" :> IF Value(entry, "port") = "" THEN "" ELSE secret)

(* For all locations, whatever their service.                               *)
RedirectToHTTPS(entry) ==
    Ok(All, "RedirectToHTTPS" :> IF entry = << <<"true">> >> THEN "true" ELSE "")

LargeClientHeaderBuffers(entry) ==
    OkIf(HasPairs(entry, "number", "size"), All,
         "LargeClientHeaderBuffers" :> Value(entry, "number") \o " " \o Value(entry, "size"))

-----------------------------------------------------------------------------
Parse(annotation, entry) ==
    CASE annotation = "rewrite-path" ->
            PairOfService(entry, "rewrite", "Rewrite" :> Value(entry, "rewrite"))
      [] annotation = "proxy-read-timeout" -> SingleTimeout(entry, "ProxyReadTimeout")
      [] annotation = "proxy-connect-timeout" -> SingleTimeout(entry, "ProxyConnectTimeout")
      [] annotation = "proxy-buffering" -> ProxyBuffering(entry)
      [] annotation = "proxy-buffers" -> ProxyBuffers(entry)
      [] annotation = "client-max-body-size" -> Single(entry, "size", "ClientMaxBodySize")
      [] annotation = "ssl-services" -> SslService(entry)
      [] annotation = "proxy-next-upstream-config" -> NextUpstreamConfig(entry)
      [] annotation = "sticky-cookie-services" -> StickyCookie(entry)
      [] annotation = "appid-auth" -> AppidAuth(entry)
      [] annotation = "location-modifier" -> LocationModifier(entry)
      [] annotation = "redirect-to-https" -> RedirectToHTTPS(entry)
      [] annotation = "mutual-auth" -> MutualAuth(entry)
      [] annotation = "large-client-header-buffers" -> LargeClientHeaderBuffers(entry)
      [] annotation = "keepalive-requests" -> Single(entry, "requests", "KeepaliveRequests")
      [] annotation = "keepalive-timeout" -> Single(entry, "timeout", "KeepaliveTimeout")

(* The annotation that has a setting of a location, of a server.            *)
LocationSource ==
    [ProxySSLSecret |-> "ssl-services", ProxySSLName |-> "ssl-services",
     ProxySSLVerifyDepth |-> "ssl-services", ProxySSLVerify |-> "ssl-services",
     ProxyNextUpstream |-> "proxy-next-upstream-config",
     ProxyNextUpstreamTries |-> "proxy-next-upstream-config",
     ProxyNextUpstreamTimeout |-> "proxy-next-upstream-config",
     SetStickyCookie |-> "sticky-cookie-services", StickyCookieName |-> "sticky-cookie-services",
     StickyCookiePath |-> "sticky-cookie-services", StickyCookieExpire |-> "sticky-cookie-services",
     ProxyBuffers |-> "proxy-buffers", ProxyBufferSize |-> "proxy-buffers",
     AppIDAuthURL |-> "appid-auth", AppIDSignInURL |-> "appid-auth",
     Rewrite |-> "rewrite-path", ProxyReadTimeout |-> "proxy-read-timeout",
     ProxyConnectTimeout |-> "proxy-connect-timeout", ProxyBuffering |-> "proxy-buffering",
     ClientMaxBodySize |-> "client-max-body-size", UseRegex |-> "location-modifier",
     RedirectToHTTPS |-> "redirect-to-https"]

ServerSource ==
    [MutualAuthSecretName |-> "mutual-auth", KeepaliveRequests |-> "keepalive-requests",
     LargeClientHeaderBuffers |-> "large-client-header-buffers",
     KeepaliveTimeout |-> "keepalive-timeout"]

-----------------------------------------------------------------------------
(* The entries of an annotation of an Ingress, and what they mean.          *)
Entries(i, annotation) ==
    IF annotation \in DOMAIN i.annotations THEN i.annotations[annotation] ELSE <<>>

Meanings(i, annotation) ==
    [k \in DOMAIN Entries(i, annotation) |-> Parse(annotation, Entries(i, annotation)[k])]

(* The first entry that is not right ends the parsing of an annotation.     *)
Outcome(i, annotation) ==
    LET bad == {k \in DOMAIN Entries(i, annotation) : Meanings(i, annotation)[k].outcome # "ok"}
    IN  IF bad = {} THEN "ok" ELSE Meanings(i, annotation)[Min(bad)].outcome

Panics(i) == \E annotation \in DOMAIN i.annotations : Outcome(i, annotation) = "panic"

WellFormed(i) == \A annotation \in DOMAIN i.annotations : Outcome(i, annotation) = "ok"

KeyOf(service) == IF service = All THEN "" ELSE service

(* Mutant: the first entry of a service wins.                               *)
FirstEntryWins(i, annotation, setting) ==
    LET entries == Meanings(i, annotation)
        Of(key) == {k \in DOMAIN entries : KeyOf(entries[k].service) = key}
    IN  [key \in {KeyOf(entries[k].service) : k \in DOMAIN entries} |->
            entries[Min(Of(key))].settings[setting]]

(* The values of a setting by service, "" for all services; each entry is   *)
(* put over what the ones before it gave.                                   *)
LastValues(entries, setting) ==
    LET values[k \in 0..Len(entries)] ==
            IF k = 0 THEN EmptyMap
            ELSE Put(values[k - 1], KeyOf(entries[k].service), entries[k].settings[setting])
    IN  values[Len(entries)]

GetAnnotationMap(i, annotation, setting) == LastValues(Meanings(i, annotation), setting)

(* The default backend counts only if there are no rules.                   *)
GetIngressSvcs(i) ==
    IF i.rules # <<>>
    THEN {path.service : path \in UNION {Range(i.rules[r].paths) : r \in DOMAIN i.rules}}
    ELSE IF i.backend # NoBackend THEN {i.backend.service} ELSE {}

(* Only a size for all services is given to every service by its name.      *)
GetAnnotationSizes(i) ==
    LET map == GetAnnotationMap(i, "client-max-body-size", "ClientMaxBodySize")
        named == DOMAIN map \ {""}
        others == IF "" \in DOMAIN map THEN GetIngressSvcs(i) \ named ELSE {}
    IN  [service \in named \cup others |-> IF service \in named THEN map[service] ELSE map[""]]

Lookup(map, service) == IF service \in DOMAIN map THEN map[service] ELSE ""

(* The value createLocationConfig finds for a service, "" if there is none. *)
SettingOf(i, service, setting) ==
    CASE setting = "ClientMaxBodySize" -> Lookup(GetAnnotationSizes(i), service)
      [] setting = "RedirectToHTTPS" ->
            Lookup(GetAnnotationMap(i, "redirect-to-https", setting), "")
      [] OTHER -> Lookup(GetAnnotationMap(i, LocationSource[setting], setting), service)

Modifier(i, service) == Lookup(GetAnnotationMap(i, "location-modifier", "Modifier"), service)

(* What a location resource carries: the settings that are not "".  When a  *)
(* snippet has App ID lines of its own, no service gets the URLs.           *)
LocationAnnotations(i, service) ==
    LET all == [setting \in DOMAIN LocationSource |-> SettingOf(i, service, setting)]
        off == IF i.conflict THEN {"AppIDAuthURL", "AppIDSignInURL"} ELSE {}
    IN  Restrict(all, {setting \in DOMAIN all \ off : all[setting] # ""})

(* What the server resource carries.                                        *)
ServerAnnotations(i) ==
    LET all == [setting \in DOMAIN ServerSource |->
                   Lookup(GetAnnotationMap(i, ServerSource[setting], setting), "")]
    IN  Restrict(all, {setting \in DOMAIN all : all[setting] # ""})
=============================================================================
