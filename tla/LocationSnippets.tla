-------------------------- MODULE LocationSnippets --------------------------
(***************************************************************************)
(* How getIngressConfig collects the configuration snippet of every        *)
(* service of one Ingress: the lines of the location-snippets annotation,  *)
(* to which the App ID, header and keepalive annotations add theirs.       *)
(*                                                                         *)
(* The code keeps a map from services to Go slices and appends to them.  A *)
(* slice is a length and a backing array; an append writes into the array  *)
(* when it has room, and copies it else.  Slices of several services may   *)
(* share an array, so the arrays are part of the state.  The maps that the *)
(* code ranges over are visited in any order.                              *)
(***************************************************************************)
EXTENDS Naturals, Sequences, FiniteSets, FiniteSetsExt, Functions

CONSTANTS
    Ingresses,  \* the annotations of the Ingresses that may be migrated
    All,        \* AllIngressServiceName
    Every,      \* "": an entry without a service
    AuthLike,   \* lines of users that App ID conflicts with
    Free        \* what a cell holds that no slice has written to

(* services are the services of the rules.  sections maps services and All  *)
(* to the lines of the annotation, that are delimited by <EOS> or not.      *)
(* appid maps services to the idToken of the annotation, headers gives for  *)
(* each of the three annotations a map to how many headers are changed.     *)
HeaderPhases == <<"add", "response", "remove">>

Phases == {"auth", "requests", "timeouts"} \cup {HeaderPhases[k] : k \in 1..3}

(* What a line of a snippet can be: one of a user, or one that is added for  *)
(* the entry of an annotation.                                              *)
UserLine ==
    UNION {UNION {{i.sections[s][k] : k \in DOMAIN i.sections[s]} : s \in DOMAIN i.sections} :
               i \in Ingresses}

Name ==
    UNION {DOMAIN i.appid \cup DOMAIN i.requests \cup DOMAIN i.timeouts
               \cup UNION {DOMAIN i.headers[HeaderPhases[k]] : k \in 1..3} : i \in Ingresses}

Line == UserLine \cup (Phases \X Name \X Nat)

(* The room of ParsedCap is bounded by 16 lines.  strings.Split gives at     *)
(* least one header, and the services of rules have names.                  *)
ASSUME IngressesAssumption ==
    \A i \in Ingresses :
        /\ \A s \in DOMAIN i.sections :
              i.sections[s] \in Seq(UserLine) /\ Len(i.sections[s]) <= 16
        /\ \A k \in 1..3 : \A s \in DOMAIN i.headers[HeaderPhases[k]] :
              i.headers[HeaderPhases[k]][s] \in Nat \ {0}
        /\ Every \notin i.services

ASSUME FreeAssumption == Free \notin Line

VARIABLES
    ing,        \* the Ingress
    arrays,     \* backing arrays; Free past every length
    slices,     \* locationSnippets
    server,     \* serverSnippets
    phase,      \* the annotation that is next
    todo,       \* the keys of its map that are not yet visited
    inner,      \* the keys AddKeepaliveRequestsLocationSnippets has not visited
    requests,   \* the keys of keepaliveRequests
    conflict    \* locationSnippetConflict

vars == <<ing, arrays, slices, server, phase, todo, inner, requests, conflict>>

-----------------------------------------------------------------------------
Lines(s) ==
    IF s \in DOMAIN slices THEN SubSeq(arrays[slices[s].array], 1, slices[s].len) ELSE <<>>

(* append: the capacity of an array that is outgrown is doubled.            *)
GrownCap(cap, need) == IF need > 2 * cap THEN need ELSE 2 * cap

Padded(lines, cap) ==
    [k \in 1..cap |-> IF k <= Len(lines) THEN lines[k] ELSE Free]

Cap(s) == IF s \in DOMAIN slices THEN Len(arrays[slices[s].array]) ELSE 0

(* A map with v at x.                                                       *)
Put(map, x, v) == [y \in DOMAIN map \cup {x} |-> IF y = x THEN v ELSE map[y]]

(* A new array is named after the service and the length it was made at.    *)
AppendLines(s, lines) ==
    LET old == Lines(s)
        need == Len(old) + Len(lines)
        id == IF need <= Cap(s) THEN slices[s].array ELSE <<s, need>>
        cells == IF need <= Cap(s)
                 THEN [k \in 1..Cap(s) |-> IF k \in (Len(old) + 1)..need
                                           THEN lines[k - Len(old)] ELSE arrays[id][k]]
                 ELSE Padded(old \o lines, GrownCap(Cap(s), need))
    IN  /\ arrays' = Put(arrays, id, cells)
        /\ slices' = Put(slices, s, [array |-> id, len |-> need])

(* parseLocationSnippetLine appends the lines of a section one by one, so   *)
(* there is room up to the next power of two; without a delimiter it keeps  *)
(* the result of strings.Split, that has no room.                           *)
ParsedCap(i, lines) ==
    IF i.eos THEN Min({c \in {1, 2, 4, 8, 16} : c >= Len(lines)}) ELSE Len(lines)

ParsedArrays(i) ==
    [id \in {<<s, 0>> : s \in DOMAIN i.sections} |->
        Padded(i.sections[id[1]], ParsedCap(i, i.sections[id[1]]))]

(* GetLocationSnippets: all services of the rules share the slice of All,   *)
(* whatever they had.                                                       *)
ParsedSlices(i) ==
    LET section(s) == IF All \in DOMAIN i.sections /\ s \in i.services THEN All ELSE s
        keys == DOMAIN i.sections \cup (IF All \in DOMAIN i.sections THEN i.services ELSE {})
    IN  [s \in keys |-> [array |-> <<section(s), 0>>, len |-> Len(i.sections[section(s)])]]

Init ==
    /\ ing \in Ingresses
    /\ arrays = ParsedArrays(ing) /\ slices = ParsedSlices(ing)
    /\ server = <<>> /\ inner = {} /\ requests = DOMAIN ing.requests /\ conflict = FALSE
    /\ phase = "auth" /\ todo = DOMAIN ing.appid

-----------------------------------------------------------------------------
(* authConfigAccessTokenIDToken has a line that authConfigAccessTokenOnly    *)
(* has not.                                                                 *)
AuthLines(s) == [k \in 1..(IF ing.appid[s] = "true" THEN 11 ELSE 10) |-> <<"auth", s, k>>]

(* Mutant: nothing conflicts.                                               *)
NothingConflicts(s) == FALSE

Conflicting(s) == s \in DOMAIN slices /\ Range(Lines(s)) \cap AuthLike # {}

(* Mutant: the conflict of the last service counts.                         *)
LastConflict(s) == conflict' = Conflicting(s)

Conflicts(s) == conflict' = (conflict \/ Conflicting(s))

(* AddAuthConfigToLocationSnippets, one service.                            *)
AddAuth ==
    /\ phase = "auth"
    /\ \E s \in todo :
          /\ todo' = todo \ {s}
          /\ IF Conflicting(s) THEN UNCHANGED <<arrays, slices>>
             ELSE AppendLines(s, AuthLines(s))
          /\ Conflicts(s)
    /\ UNCHANGED <<ing, server, phase, inner, requests>>

HeaderLines(s) == [k \in 1..ing.headers[phase][s] |-> <<phase, s, k>>]

(* AddHeaderModificationToLocationSnippets, one service.                    *)
AddHeaders ==
    /\ phase \in Range(HeaderPhases)
    /\ \E s \in todo : todo' = todo \ {s} /\ AppendLines(s, HeaderLines(s))
    /\ UNCHANGED <<ing, server, phase, inner, requests, conflict>>

(* Mutant: an entry for a service is written to the server as well.         *)
EveryServerWide(s) == TRUE

(* An entry without a service is for the server.                            *)
ServerWide(s) == s = Every

(* The loop over keepaliveRequests: an entry for every service goes to the  *)
(* server and is deleted, any other starts a loop over the whole map.       *)
KeepaliveRequests ==
    /\ phase = "requests" /\ inner = {}
    /\ \E s \in todo :
          /\ todo' = todo \ {s}
          /\ IF ServerWide(s)
             THEN /\ server' = Append(server, <<"requests", s, 1>>)
                  /\ requests' = requests \ {s}
                  /\ inner' = {}
             ELSE /\ inner' = requests
                  /\ UNCHANGED <<server, requests>>
    /\ UNCHANGED <<ing, arrays, slices, phase, conflict>>

(* AddKeepaliveRequestsLocationSnippets, one service.                       *)
AddKeepaliveRequests ==
    /\ \E s \in inner : inner' = inner \ {s} /\ AppendLines(s, <<<<"requests", s, 1>>>>)
    /\ UNCHANGED <<ing, server, phase, todo, requests, conflict>>

KeepaliveTimeout ==
    /\ phase = "timeouts"
    /\ \E s \in todo :
          /\ todo' = todo \ {s}
          /\ IF ServerWide(s)
             THEN /\ server' = Append(server, <<"timeouts", s, 1>>)
                  /\ UNCHANGED <<arrays, slices>>
             ELSE /\ AppendLines(s, <<<<"timeouts", s, 1>>>>)
                  /\ UNCHANGED server
    /\ UNCHANGED <<ing, phase, inner, requests, conflict>>

Following(p) ==
    CASE p = "auth" -> "add" [] p = "add" -> "response" [] p = "response" -> "remove"
      [] p = "remove" -> "requests" [] p = "requests" -> "timeouts" [] p = "timeouts" -> "done"

Keys(p) ==
    IF p \in Range(HeaderPhases) THEN DOMAIN ing.headers[p]
    ELSE IF p = "requests" THEN DOMAIN ing.requests
    ELSE IF p = "timeouts" THEN DOMAIN ing.timeouts ELSE {}

(* The next annotation of getIngressConfig.                                 *)
NextAnnotation ==
    /\ phase # "done" /\ todo = {} /\ inner = {}
    /\ phase' = Following(phase) /\ todo' = Keys(phase')
    /\ UNCHANGED <<ing, arrays, slices, server, inner, requests, conflict>>

Stopped == phase = "done" /\ UNCHANGED vars

Next ==
    \/ AddAuth \/ AddHeaders \/ KeepaliveRequests \/ AddKeepaliveRequests
    \/ KeepaliveTimeout \/ NextAnnotation \/ Stopped

Spec == Init /\ [][Next]_vars

-----------------------------------------------------------------------------
UserLines(s) ==
    LET from == IF All \in DOMAIN ing.sections THEN All ELSE s
    IN  IF from \in DOMAIN ing.sections THEN ing.sections[from] ELSE <<>>

KeepsOwnAuth(s) == \E k \in DOMAIN UserLines(s) : UserLines(s)[k] \in AuthLike

OwnLine(p, s, map) == IF s \in DOMAIN map THEN <<<<p, s, 1>>>> ELSE <<>>

OwnHeaders(p, s) ==
    IF s \in DOMAIN ing.headers[p]
    THEN [k \in 1..ing.headers[p][s] |-> <<p, s, k>>] ELSE <<>>

(* Two things the code does not ensure and the results need: a section that *)
(* all services share has no room behind it, and keepalive-requests names   *)
(* one service at most (runs SharedSnippet and KeepaliveTwice).             *)
NoSharedRoom(ingresses) ==
    \A i \in ingresses : All \in DOMAIN i.sections
        => ParsedCap(i, i.sections[All]) = Len(i.sections[All])

OneRequestKey(ingresses) ==
    \A i \in ingresses : \A s, t \in DOMAIN i.requests \ {Every} : s = t

(* README.md:61-66: an annotation that names a service applies to that one  *)
(* alone and still does after the migration.  The snippet of a service has  *)
(* the lines of the user and then those of each of its own annotations once, *)
(* without App ID where the user has such lines.                            *)
SnippetIsOwn ==
    phase = "done" => \A s \in ing.services :
        Lines(s) = UserLines(s)
            \o (IF s \in DOMAIN ing.appid /\ ~KeepsOwnAuth(s) THEN AuthLines(s) ELSE <<>>)
            \o OwnHeaders("add", s) \o OwnHeaders("response", s) \o OwnHeaders("remove", s)
            \o OwnLine("requests", s, ing.requests) \o OwnLine("timeouts", s, ing.timeouts)

(* A location that is sent to App ID has the App ID lines in its snippet;   *)
(* when those of one service cannot be added no location is sent there, in  *)
(* whatever order the services are visited (AddAuthConfigToLocationSnippets, *)
(* appidAuthURL).                                                           *)
AuthHasSnippet ==
    phase = "done" /\ ~conflict => \A s \in DOMAIN ing.appid :
        Range(AuthLines(s)) \subseteq Range(Lines(s))

(* Slices lie within their arrays, and only what is appended to an array is *)
(* in it; no line that is meant for one service is in the server's snippet. *)
TypeOK ==
    /\ phase \in {"auth", "add", "response", "remove", "requests", "timeouts", "done"}
    /\ \A s \in DOMAIN slices :
          /\ slices[s].array \in DOMAIN arrays
          /\ slices[s].len <= Len(arrays[slices[s].array])
          /\ Free \notin Range(Lines(s))
    /\ Range(server) \subseteq {<<"requests", Every, 1>>, <<"timeouts", Every, 1>>}
    /\ inner \subseteq requests /\ requests \subseteq DOMAIN ing.requests
    /\ conflict \in BOOLEAN

=============================================================================
