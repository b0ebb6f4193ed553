------------------------ MODULE IngressSplit_proofs ------------------------
(***************************************************************************)
(* What holds of IngressSplit for every set of Ingresses, with proofs.     *)
(***************************************************************************)
EXTENDS IngressSplit, FiniteSetTheorems, SequenceTheorems, TLAPS

(* The user's port of an Ingress is not changed by the conversion.           *)
LEMMA PortsConvert ==
    ASSUME NEW port \in Ports
    PROVE  IntOrString(port) = port
<1>1. CASE port \in [number : Nat, name : {""}]
  BY <1>1 DEF IntOrString
<1>2. CASE port \in [number : {0}, name : STRING]
  BY <1>2 DEF IntOrString
<1> QED
  BY <1>1, <1>2 DEF Ports

(* To read an Ingress as v1beta1 changes nothing that the tool works with.   *)
LEMMA ReadIsSame ==
    ASSUME NEW i, IsIngress(i), api \in [version : Nat, discovered : BOOLEAN]
    PROVE  Read(i) = i
<1> SUFFICES ASSUME V1Only PROVE ConvertV1ToV1Beta1Ingress(i) = i
  BY DEF Read
<1>1. Enhancements
  BY DEF V1Only, Enhancements
<1> DEFINE Path(path) ==
             [path EXCEPT !.port = IntOrString(@), !.pathType = IF Enhancements THEN @ ELSE ""]
           Rule(rule) == [rule EXCEPT !.paths = [p \in DOMAIN rule.paths |-> Path(rule.paths[p])]]
           Backend(backend) == [backend EXCEPT !.port = IntOrString(@)]
<1>2. ASSUME NEW path \in UserPaths PROVE Path(path) = path
  <2>1. IntOrString(path.port) = path.port
    BY PortsConvert DEF UserPaths
  <2> QED
    BY <1>1, <2>1 DEF UserPaths
<1>3. ASSUME NEW rule, IsRule(rule) PROVE Rule(rule) = rule
  <2>1. rule = [host |-> rule.host, paths |-> rule.paths] /\ rule.paths \in Seq(UserPaths)
    BY <1>3 DEF IsRule
  <2>2. \A p \in DOMAIN rule.paths : rule.paths[p] \in UserPaths
    BY <2>1
  <2> HIDE DEF Path
  <2>3. \A p \in DOMAIN rule.paths : Path(rule.paths[p]) = rule.paths[p]
    BY <1>2, <2>2
  <2>4. rule.paths = [p \in DOMAIN rule.paths |-> rule.paths[p]]
    BY <2>1
  <2>5. [p \in DOMAIN rule.paths |-> Path(rule.paths[p])] = rule.paths
    BY <2>3, <2>4
  <2> QED
    BY <2>1, <2>5
<1>4. ASSUME NEW backend \in [service : DOMAIN Dashed, port : Ports]
      PROVE  Backend(backend) = backend
  <2>1. IntOrString(backend.port) = backend.port
    BY PortsConvert
  <2> QED
    BY <2>1
<1>5. ConvertV1ToV1Beta1Ingress(i) =
        [i EXCEPT !.rules = [r \in DOMAIN i.rules |-> Rule(i.rules[r])],
                  !.backend = IF i.backend = NoBackend THEN NoBackend ELSE Backend(i.backend)]
  BY DEF ConvertV1ToV1Beta1Ingress
<1> HIDE DEF Path, Rule, Backend
<1>6. [r \in DOMAIN i.rules |-> Rule(i.rules[r])] = i.rules
  <2>1. \A r \in DOMAIN i.rules : Rule(i.rules[r]) = i.rules[r]
    BY <1>3 DEF IsIngress
  <2> PICK R : i.rules \in Seq(R)
    BY DEF IsIngress
  <2> QED
    BY <2>1
<1>7. (IF i.backend = NoBackend THEN NoBackend ELSE Backend(i.backend)) = i.backend
  BY <1>4 DEF IsIngress
<1>8. i = [name |-> i.name, rules |-> i.rules, backend |-> i.backend, tls |-> i.tls,
           annotations |-> i.annotations, conflict |-> i.conflict]
  BY DEF IsIngress
<1> QED
  BY <1>5, <1>6, <1>7, <1>8

-----------------------------------------------------------------------------
(* The servers of an Ingress, and the place that each of their locations     *)
(* comes from.                                                               *)
OnlyBackend(i) == i.rules = <<>> /\ i.backend # NoBackend

ServerOf(h, paths, own, i) ==
    [host |-> h, settings |-> own, locations |-> [p \in DOMAIN paths |-> Location(i, paths[p])]]

LEMMA RulesAre ==
    ASSUME NEW i, IsIngress(i)
    PROVE  /\ Len(i.rules) \in Nat /\ DOMAIN i.rules = 1..Len(i.rules)
           /\ (i.rules = <<>>) <=> (Len(i.rules) = 0)
           /\ \A r \in DOMAIN i.rules : i.rules[r].paths \in Seq(UserPaths)
<1> PICK R : i.rules \in Seq(R)
  BY DEF IsIngress
<1> QED
  BY DEF IsIngress, IsRule

LEMMA BackendServer ==
    ASSUME NEW i, IsIngress(i), OnlyBackend(i)
    PROVE  Servers(i) = <<ServerOf(NoHost, <<DefaultPath(i)>>, EmptyMap, i)>>
BY DEF Servers, ServerOf, OnlyBackend

LEMMA RuleServers ==
    ASSUME NEW i, IsIngress(i), ~OnlyBackend(i)
    PROVE  Servers(i) = [r \in DOMAIN i.rules |->
                            ServerOf(i.rules[r].host, Paths(i, i.rules[r]), ServerAnnotations(i), i)]
BY DEF Servers, ServerOf, OnlyBackend

LEMMA LengthOf ==
    ASSUME NEW n \in Nat, NEW s, s = [k \in 1..n |-> s[k]]
    PROVE  Len(s) = n
<1> DEFINE S == {s[k] : k \in 1..n}
<1>1. s \in [1..n -> S]
  OBVIOUS
<1> HIDE DEF S
<1>2. s \in Seq(S)
  BY <1>1
<1> QED
  BY <1>1, <1>2

(* The paths of a rule, and the root location of the default backend.        *)
LEMMA PathsAre ==
    ASSUME NEW i, IsIngress(i), NEW r \in DOMAIN i.rules
    PROVE  LET own == i.rules[r].paths
               all == Paths(i, i.rules[r])
               n == Len(own)
           IN  /\ n \in Nat /\ DOMAIN own = 1..n
               /\ \A p \in 1..n : own[p] \in UserPaths /\ all[p] = own[p]
               /\ \/ /\ <<r, 0>> \notin Places(i) /\ DOMAIN all = 1..n
                  \/ /\ <<r, 0>> \in Places(i) /\ DOMAIN all = 1..(n + 1)
                     /\ all[n + 1] = DefaultPath(i) /\ i.backend # NoBackend
<1> DEFINE own == i.rules[r].paths
<1>1. own \in Seq(UserPaths)
  BY RulesAre
<1>2. own = <<>> \/ own # <<>>
  OBVIOUS
<1> DEFINE root == \E p \in DOMAIN own : IsRoot(own[p])
<1>3. root <=> \E p \in DOMAIN own : PathOrDefault(own[p].path) = "/"
  BY DEF IsRoot, PathOrDefault
<1>4. <<r, 0>> \in Places(i) <=> i.backend # NoBackend /\ ~root
  <2>1. r # 0 /\ i.rules # <<>>
    BY RulesAre
  <2>2. \A q \in DOMAIN i.rules : 0 \notin DOMAIN i.rules[q].paths
    <3> SUFFICES ASSUME NEW q \in DOMAIN i.rules PROVE 0 \notin DOMAIN i.rules[q].paths
      OBVIOUS
    <3>1. i.rules[q].paths \in Seq(UserPaths)
      BY RulesAre
    <3> QED
      BY <3>1
  <2> DEFINE rootless ==
               {q \in DOMAIN i.rules : ~\E p \in DOMAIN i.rules[q].paths : IsRoot(i.rules[q].paths[p])}
             given == UNION {{q} \X DOMAIN i.rules[q].paths : q \in DOMAIN i.rules}
             backend == {<<q, 0>> : q \in rootless}
  <2>3. <<r, 0>> \notin given
    BY <2>2
  <2>4. Places(i) = given \cup (IF i.backend = NoBackend THEN {} ELSE backend)
    BY <2>1 DEF Places
  <2>5. r \in rootless <=> ~root
    OBVIOUS
  <2> HIDE DEF rootless, root
  <2>6. <<r, 0>> \in backend <=> r \in rootless
    OBVIOUS
  <2> HIDE DEF given, backend
  <2> QED
    BY <2>3, <2>4, <2>5, <2>6
<1>5. Paths(i, i.rules[r]) = IF i.backend = NoBackend \/ root THEN own ELSE Append(own, DefaultPath(i))
  BY <1>3 DEF Paths
<1> HIDE DEF own, root
<1>6. \A p \in 1..Len(own) : Append(own, DefaultPath(i))[p] = own[p]
  BY <1>1
<1>7. /\ DOMAIN Append(own, DefaultPath(i)) = 1..(Len(own) + 1)
      /\ Append(own, DefaultPath(i))[Len(own) + 1] = DefaultPath(i)
  <2> DEFINE S == UserPaths \cup {DefaultPath(i)}
  <2>1. own \in Seq(S) /\ DefaultPath(i) \in S
    BY <1>1
  <2> HIDE DEF S
  <2> QED
    BY <2>1
<1>8. Len(own) \in Nat /\ DOMAIN own = 1..Len(own) /\ \A p \in 1..Len(own) : own[p] \in UserPaths
  BY <1>1
<1> QED
  BY <1>4, <1>5, <1>6, <1>7, <1>8 DEF own

(* The place of a location has a slot in the servers, each slot one place.   *)
SlotOf(i, x) ==
    IF x[1] = 0 THEN <<1, 1>>
    ELSE IF x[2] = 0 THEN <<x[1], Len(i.rules[x[1]].paths) + 1>> ELSE x

LEMMA BackendPlaces ==
    ASSUME NEW i, IsIngress(i), OnlyBackend(i)
    PROVE  Places(i) = {<<0, 0>>}
<1>1. DOMAIN i.rules = {} /\ i.rules = <<>>
  BY RulesAre DEF OnlyBackend
<1> QED
  BY <1>1 DEF Places, OnlyBackend

LEMMA RulePlaces ==
    ASSUME NEW i, IsIngress(i), ~OnlyBackend(i)
    PROVE  /\ \A x \in Places(i) :
                 \E r \in DOMAIN i.rules :
                    x = <<r, 0>> \/ \E p \in DOMAIN i.rules[r].paths : x = <<r, p>>
           /\ \A r \in DOMAIN i.rules : \A p \in DOMAIN i.rules[r].paths : <<r, p>> \in Places(i)
<1> DEFINE rootless ==
             {q \in DOMAIN i.rules : ~\E p \in DOMAIN i.rules[q].paths : IsRoot(i.rules[q].paths[p])}
           given == UNION {{q} \X DOMAIN i.rules[q].paths : q \in DOMAIN i.rules}
           backend == {<<q, 0>> : q \in rootless}
<1>1. \A y : y \in given <=> \E r \in DOMAIN i.rules : \E p \in DOMAIN i.rules[r].paths : y = <<r, p>>
  OBVIOUS
<1>2. Places(i) = given \cup (IF i.backend = NoBackend THEN {} ELSE backend)
  BY RulesAre DEF Places, OnlyBackend
<1>3. \A y : y \in backend => \E r \in DOMAIN i.rules : y = <<r, 0>>
  OBVIOUS
<1> HIDE DEF given, backend
<1>4. \A r \in DOMAIN i.rules : \A p \in DOMAIN i.rules[r].paths : <<r, p>> \in given
  BY <1>1
<1> QED
  BY <1>1, <1>2, <1>3, <1>4

(* The location of a slot is the one that At finds.                          *)
IsAt(i, x, location) ==
    /\ location.path = At(i, x).path /\ location.service = At(i, x).service
    /\ location.port = At(i, x).port
    /\ location.settings = LocationAnnotations(i, At(i, x).service)
    /\ location.pathType =
          IF Enhancements THEN CalcPathType(i, At(i, x).service, At(i, x).pathType) ELSE ""

LEMMA DefaultIsAt ==
    ASSUME NEW i, NEW x, x[2] = 0
    PROVE  IsAt(i, x, Location(i, DefaultPath(i))) /\ At(i, x) = DefaultPath(i)
<1>1. At(i, x) = DefaultPath(i)
  BY DEF At, DefaultPath
<1>2. DefaultPath(i).path = "/" /\ PathOrDefault("/") = "/"
  BY DEF DefaultPath, PathOrDefault
<1> QED
  BY <1>1, <1>2 DEF IsAt, Location

LEMMA PathIsAt ==
    ASSUME NEW i, NEW x, x[2] # 0, i.rules[x[1]].paths[x[2]] \in UserPaths
    PROVE  /\ IsAt(i, x, Location(i, i.rules[x[1]].paths[x[2]]))
           /\ At(i, x) \in UserPaths /\ At(i, x).path # ""
           /\ At(i, x).pathType = i.rules[x[1]].paths[x[2]].pathType
<1> PICK path : path = i.rules[x[1]].paths[x[2]]
  OBVIOUS
<1>1. At(i, x) = [path EXCEPT !.path = PathOrDefault(path.path)]
  BY DEF At, PathOrDefault, IsRoot
<1>2. /\ At(i, x).path = PathOrDefault(path.path) /\ At(i, x).service = path.service
      /\ At(i, x).port = path.port /\ At(i, x).pathType = path.pathType
      /\ PathOrDefault(path.path) \in DOMAIN Stripped \ {""}
  BY <1>1, InputsAssumption DEF UserPaths, PathOrDefault
<1>3. At(i, x) \in UserPaths
  BY <1>1, <1>2 DEF UserPaths
<1> QED
  BY <1>2, <1>3 DEF IsAt, Location

LEMMA DefaultPathIs ==
    ASSUME NEW i, IsIngress(i), i.backend # NoBackend
    PROVE  DefaultPath(i) \in UserPaths /\ DefaultPath(i).path = "/" /\ DefaultPath(i).pathType = ""
BY InputsAssumption DEF DefaultPath, UserPaths, IsIngress

(* One server of the Ingress, by its rule or the default backend.            *)
LEMMA ServerIs ==
    ASSUME NEW i, IsIngress(i)
    PROVE  /\ Len(Servers(i)) = (IF OnlyBackend(i) THEN 1 ELSE Len(i.rules))
           /\ DOMAIN Servers(i) = 1..Len(Servers(i))
           /\ \A s \in DOMAIN Servers(i) :
                 Servers(i)[s] = IF OnlyBackend(i)
                                 THEN ServerOf(NoHost, <<DefaultPath(i)>>, EmptyMap, i)
                                 ELSE ServerOf(i.rules[s].host, Paths(i, i.rules[s]), ServerAnnotations(i), i)
<1>1. CASE OnlyBackend(i)
  BY <1>1, BackendServer
<1>2. CASE ~OnlyBackend(i)
  <2> DEFINE f == [r \in DOMAIN i.rules |->
                     ServerOf(i.rules[r].host, Paths(i, i.rules[r]), ServerAnnotations(i), i)]
  <2>1. Servers(i) = f
    BY <1>2, RuleServers
  <2>2. f = [r \in 1..Len(i.rules) |-> f[r]] /\ Len(i.rules) \in Nat
    BY RulesAre
  <2>3. \A r \in DOMAIN f :
          f[r] = ServerOf(i.rules[r].host, Paths(i, i.rules[r]), ServerAnnotations(i), i)
    OBVIOUS
  <2> HIDE DEF f
  <2>4. Len(f) = Len(i.rules)
    BY <2>2, LengthOf
  <2> QED
    BY <1>2, <2>1, <2>2, <2>3, <2>4
<1> QED
  BY <1>1, <1>2

(* The locations of a server are those of its paths.                         *)
LEMMA LocationsAre ==
    ASSUME NEW h, NEW paths, NEW own, NEW i, NEW n \in Nat, DOMAIN paths = 1..n,
           NEW one, one = ServerOf(h, paths, own, i)
    PROVE  /\ one.host = h /\ one.settings = own
           /\ Len(one.locations) = n /\ DOMAIN one.locations = 1..n
           /\ \A l \in 1..n : one.locations[l] = Location(i, paths[l])
<1> DEFINE f == [p \in DOMAIN paths |-> Location(i, paths[p])]
<1>1. f = [k \in 1..n |-> f[k]] /\ \A l \in 1..n : f[l] = Location(i, paths[l])
  OBVIOUS
<1>2. ServerOf(h, paths, own, i) = [host |-> h, settings |-> own, locations |-> f]
  BY DEF ServerOf
<1> HIDE DEF f
<1>3. Len(f) = n
  BY <1>1, LengthOf
<1> QED
  BY <1>1, <1>2, <1>3

(* Every slot is that of a place, whose host and location it has.            *)
SlotIsFor(i, s, l, x) ==
    /\ x \in Places(i) /\ SlotOf(i, x) = <<s, l>>
    /\ Servers(i)[s].host = HostOf(i, x) /\ IsAt(i, x, Servers(i)[s].locations[l])
    /\ At(i, x) \in UserPaths /\ At(i, x).path # ""

(* The slots of a server are numbered, and that of a place is one of them.   *)
LEMMA SlotsOfServer ==
    ASSUME NEW i, IsIngress(i), NEW s \in DOMAIN Servers(i)
    PROVE  LET n == Len(Servers(i)[s].locations)
           IN  /\ n \in Nat /\ DOMAIN Servers(i)[s].locations = 1..n
               /\ \A l \in 1..n : \E x \in Places(i) : SlotIsFor(i, s, l, x)
               /\ \A x \in Places(i) : SlotOf(i, x)[1] = s => SlotOf(i, x)[2] \in 1..n
               /\ \A x, y \in Places(i) :
                     SlotOf(i, x)[1] = s /\ SlotOf(i, x) = SlotOf(i, y) => x = y
               /\ Servers(i)[s].host \in UserHosts(i)
               /\ Servers(i)[s].settings = IF OnlyBackend(i) THEN EmptyMap ELSE ServerAnnotations(i)
<1>1. CASE OnlyBackend(i)
  <2>1. Servers(i)[s] = ServerOf(NoHost, <<DefaultPath(i)>>, EmptyMap, i) /\ s = 1
    BY <1>1, ServerIs
  <2>2. /\ Servers(i)[s].host = NoHost /\ Servers(i)[s].settings = EmptyMap
        /\ Len(Servers(i)[s].locations) = 1 /\ DOMAIN Servers(i)[s].locations = 1..1
        /\ Servers(i)[s].locations[1] = Location(i, DefaultPath(i))
    <3>1. PICK n \in Nat : n = 1
      OBVIOUS
    <3>2. PICK paths : paths = <<DefaultPath(i)>>
      OBVIOUS
    <3>3. DOMAIN paths = 1..n /\ Servers(i)[s] = ServerOf(NoHost, paths, EmptyMap, i)
      BY <2>1, <3>1, <3>2
    <3>4. /\ Servers(i)[s].host = NoHost /\ Servers(i)[s].settings = EmptyMap
          /\ Len(Servers(i)[s].locations) = n /\ DOMAIN Servers(i)[s].locations = 1..n
          /\ \A l \in 1..n : Servers(i)[s].locations[l] = Location(i, paths[l])
      BY <3>3, LocationsAre
    <3> QED
      BY <3>1, <3>2, <3>4
  <2>3. Places(i) = {<<0, 0>>} /\ SlotOf(i, <<0, 0>>) = <<1, 1>> /\ HostOf(i, <<0, 0>>) = NoHost
    BY <1>1, BackendPlaces DEF SlotOf, HostOf
  <2>4. /\ IsAt(i, <<0, 0>>, Location(i, DefaultPath(i)))
        /\ At(i, <<0, 0>>) \in UserPaths /\ At(i, <<0, 0>>).path # ""
    BY <1>1, DefaultIsAt, DefaultPathIs DEF OnlyBackend
  <2>5. SlotIsFor(i, s, 1, <<0, 0>>)
    BY <2>1, <2>2, <2>3, <2>4 DEF SlotIsFor
  <2>6. UserHosts(i) = {NoHost}
    BY <1>1 DEF UserHosts, OnlyBackend
  <2> QED
    BY <1>1, <2>2, <2>3, <2>5, <2>6
<1>2. CASE ~OnlyBackend(i)
  <2>1. s \in DOMAIN i.rules /\ s # 0
    <3>1. DOMAIN Servers(i) = 1..Len(Servers(i)) /\ Len(Servers(i)) = Len(i.rules)
      BY <1>2, ServerIs
    <3>2. Len(i.rules) \in Nat /\ DOMAIN i.rules = 1..Len(i.rules)
      BY RulesAre
    <3> QED
      BY <3>1, <3>2
  <2> PICK own : own = i.rules[s].paths
    OBVIOUS
  <2> PICK n : n = Len(own)
    OBVIOUS
  <2> PICK all : all = Paths(i, i.rules[s])
    OBVIOUS
  <2>2. /\ n \in Nat /\ DOMAIN own = 1..n
        /\ \A p \in 1..n : own[p] \in UserPaths /\ all[p] = own[p]
        /\ \/ <<s, 0>> \notin Places(i) /\ DOMAIN all = 1..n
           \/ /\ <<s, 0>> \in Places(i) /\ DOMAIN all = 1..(n + 1)
              /\ all[n + 1] = DefaultPath(i) /\ i.backend # NoBackend
    BY <2>1, PathsAre
  <2> PICK m \in {n, n + 1} : DOMAIN all = 1..m /\ (m = n + 1 <=> <<s, 0>> \in Places(i))
    BY <2>2
  <2>3. /\ Servers(i)[s].host = i.rules[s].host /\ Servers(i)[s].settings = ServerAnnotations(i)
        /\ Len(Servers(i)[s].locations) = m /\ DOMAIN Servers(i)[s].locations = 1..m
        /\ \A l \in 1..m : Servers(i)[s].locations[l] = Location(i, all[l])
    <3>1. Servers(i)[s] = ServerOf(i.rules[s].host, all, ServerAnnotations(i), i)
      BY <1>2, ServerIs
    <3>2. m \in Nat
      BY <2>2
    <3> QED
      BY <3>1, <3>2, LocationsAre
  <2>4. ASSUME NEW x \in Places(i), SlotOf(i, x)[1] = s
        PROVE  \/ x = <<s, 0>> /\ m = n + 1 /\ SlotOf(i, x) = <<s, n + 1>>
               \/ \E p \in 1..n : x = <<s, p>> /\ SlotOf(i, x) = <<s, p>>
    <3> PICK r \in DOMAIN i.rules :
               x = <<r, 0>> \/ \E p \in DOMAIN i.rules[r].paths : x = <<r, p>>
      BY <1>2, RulePlaces
    <3>1. r # 0
      BY RulesAre
    <3>2. CASE x = <<r, 0>>
      <4>1. SlotOf(i, x) = <<r, Len(i.rules[r].paths) + 1>>
        BY <3>1, <3>2 DEF SlotOf
      <4> QED
        BY <2>4, <3>2, <4>1
    <3>3. ASSUME NEW p \in DOMAIN i.rules[r].paths, x = <<r, p>>
          PROVE  SlotOf(i, x) = <<r, p>> /\ r = s /\ p \in 1..n
      <4>1. i.rules[r].paths \in Seq(UserPaths)
        BY RulesAre
      <4>2. p # 0
        BY <4>1
      <4>3. SlotOf(i, x) = <<r, p>>
        BY <3>1, <3>3, <4>2 DEF SlotOf
      <4> QED
        BY <2>2, <2>4, <4>3
    <3> QED
      BY <3>2, <3>3
  <2>5. \A x \in Places(i) : SlotOf(i, x)[1] = s => SlotOf(i, x)[2] \in 1..m
    <3> SUFFICES ASSUME NEW x \in Places(i), SlotOf(i, x)[1] = s PROVE SlotOf(i, x)[2] \in 1..m
      OBVIOUS
    <3> QED
      BY <2>2, <2>4
  <2>6. \A x, y \in Places(i) : SlotOf(i, x)[1] = s /\ SlotOf(i, x) = SlotOf(i, y) => x = y
    <3> SUFFICES ASSUME NEW x \in Places(i), NEW y \in Places(i), SlotOf(i, x)[1] = s,
                        SlotOf(i, x) = SlotOf(i, y)
                 PROVE  x = y
      OBVIOUS
    <3>1. SlotOf(i, y)[1] = s
      OBVIOUS
    <3>2. \/ x = <<s, 0>> /\ SlotOf(i, x) = <<s, n + 1>>
          \/ \E p \in 1..n : x = <<s, p>> /\ SlotOf(i, x) = <<s, p>>
      BY <2>4
    <3>3. \/ y = <<s, 0>> /\ SlotOf(i, y) = <<s, n + 1>>
          \/ \E p \in 1..n : y = <<s, p>> /\ SlotOf(i, y) = <<s, p>>
      BY <2>4, <3>1
    <3> QED
      BY <2>2, <3>2, <3>3
  <2>7. ASSUME NEW l \in 1..m PROVE \E x \in Places(i) : SlotIsFor(i, s, l, x)
    <3>1. CASE l \in 1..n
      <4>1. <<s, l>> \in Places(i)
        BY <1>2, <2>1, <2>2, <3>1, RulePlaces
      <4>2. SlotOf(i, <<s, l>>) = <<s, l>> /\ HostOf(i, <<s, l>>) = i.rules[s].host
        BY <2>1, <2>2, <3>1 DEF SlotOf, HostOf
      <4>3. /\ IsAt(i, <<s, l>>, Location(i, all[l]))
            /\ At(i, <<s, l>>) \in UserPaths /\ At(i, <<s, l>>).path # ""
        <5> PICK x : x = <<s, l>>
          OBVIOUS
        <5>1. x[1] = s /\ x[2] = l /\ x[2] # 0 /\ i.rules[x[1]].paths[x[2]] = own[l]
          BY <2>2, <3>1
        <5>2. own[l] \in UserPaths /\ all[l] = own[l]
          BY <2>2, <3>1
        <5> QED
          BY <5>1, <5>2, PathIsAt
      <4> QED
        BY <2>3, <4>1, <4>2, <4>3 DEF SlotIsFor
    <3>2. CASE l \notin 1..n
      <4>1. l = n + 1 /\ <<s, 0>> \in Places(i) /\ all[l] = DefaultPath(i) /\ i.backend # NoBackend
        BY <2>2, <3>2
      <4>2. SlotOf(i, <<s, 0>>) = <<s, l>> /\ HostOf(i, <<s, 0>>) = i.rules[s].host
        BY <2>1, <2>2, <4>1 DEF SlotOf, HostOf
      <4>3. /\ IsAt(i, <<s, 0>>, Location(i, all[l]))
            /\ At(i, <<s, 0>>) \in UserPaths /\ At(i, <<s, 0>>).path # ""
        BY <4>1, DefaultIsAt, DefaultPathIs
      <4> QED
        BY <2>3, <4>1, <4>2, <4>3 DEF SlotIsFor
    <3> QED
      BY <3>1, <3>2
  <2>8. i.rules[s].host \in UserHosts(i)
    BY <1>2, <2>1 DEF UserHosts, OnlyBackend
  <2>9. m \in Nat
    BY <2>2
  <2> QED
    BY <1>2, <2>3, <2>5, <2>6, <2>7, <2>8, <2>9
<1> QED
  BY <1>1, <1>2

LEMMA PlaceHasSlot ==
    ASSUME NEW i, IsIngress(i), NEW x \in Places(i)
    PROVE  SlotOf(i, x)[1] \in DOMAIN Servers(i)
<1>1. CASE OnlyBackend(i)
  <2>1. x = <<0, 0>> /\ SlotOf(i, x) = <<1, 1>>
    BY <1>1, BackendPlaces DEF SlotOf
  <2>2. DOMAIN Servers(i) = 1..1
    BY <1>1, ServerIs
  <2> QED
    BY <2>1, <2>2
<1>2. CASE ~OnlyBackend(i)
  <2>1. DOMAIN Servers(i) = DOMAIN i.rules
    <3>1. DOMAIN Servers(i) = 1..Len(Servers(i)) /\ Len(Servers(i)) = Len(i.rules)
      BY <1>2, ServerIs
    <3> QED
      BY <3>1, RulesAre
  <2> PICK r \in DOMAIN i.rules : x = <<r, 0>> \/ \E p \in DOMAIN i.rules[r].paths : x = <<r, p>>
    BY <1>2, RulePlaces
  <2>2. SlotOf(i, x)[1] = r
    BY RulesAre DEF SlotOf
  <2> QED
    BY <2>1, <2>2
<1> QED
  BY <1>1, <1>2

LEMMA PlacesFinite ==
    ASSUME NEW i, IsIngress(i)
    PROVE  IsFiniteSet(Places(i))
<1>0. \A x : IsFiniteSet({x})
  BY FS_Singleton
<1>1. CASE OnlyBackend(i)
  <2>1. Places(i) = {<<0, 0>>}
    BY <1>1, BackendPlaces
  <2> QED
    BY <1>0, <2>1
<1>2. CASE ~OnlyBackend(i)
  <2>1. Len(i.rules) \in Nat /\ DOMAIN i.rules = 1..Len(i.rules)
    BY RulesAre
  <2>2. IsFiniteSet(DOMAIN i.rules)
    <3>1. \A n \in Nat : IsFiniteSet(1..n)
      BY FS_Interval
    <3> QED
      BY <2>1, <3>1
  <2> DEFINE Of(r) == {r} \X DOMAIN i.rules[r].paths
             f == [r \in DOMAIN i.rules |-> Of(r)]
             all == {Of(r) : r \in DOMAIN i.rules}
  <2>3. ASSUME NEW r \in DOMAIN i.rules PROVE IsFiniteSet(Of(r))
    <3>1. i.rules[r].paths \in Seq(UserPaths)
      BY RulesAre
    <3>2. IsFiniteSet(DOMAIN i.rules[r].paths)
      BY <3>1, FS_Interval
    <3> QED
      BY <3>2, FS_Singleton, FS_Product
  <2>4. \A own \in all : IsFiniteSet(own)
    <3> HIDE DEF Of
    <3> QED
      BY <2>3
  <2>5. f \in Surjection(DOMAIN i.rules, all)
    <3> HIDE DEF Of
    <3> QED
      BY DEF Surjection
  <2>6. IsFiniteSet(UNION all)
    <3> HIDE DEF f, all
    <3>1. IsFiniteSet(all)
      BY <2>2, <2>5, FS_Surjection
    <3> QED
      BY <2>4, <3>1, FS_UNION
  <2>7. PICK roots : IsFiniteSet(roots) /\ \A r \in DOMAIN i.rules : <<r, 0>> \in roots
    <3>1. PICK D, Z : D = DOMAIN i.rules /\ Z = {0}
      OBVIOUS
    <3>2. IsFiniteSet(D) /\ IsFiniteSet(Z)
      BY <1>0, <2>2, <3>1
    <3>3. IsFiniteSet(D \X Z)
      BY <3>2, FS_Product
    <3>4. \A r \in DOMAIN i.rules : <<r, 0>> \in D \X Z
      BY <3>1
    <3> QED
      BY <3>3, <3>4
  <2>8. Places(i) \subseteq (UNION all) \cup roots
    <3> SUFFICES ASSUME NEW x \in Places(i) PROVE x \in UNION all \/ x \in roots
      OBVIOUS
    <3>1. PICK r \in DOMAIN i.rules : x = <<r, 0>> \/ \E p \in DOMAIN i.rules[r].paths : x = <<r, p>>
      BY <1>2, RulePlaces
    <3>2. \A p \in DOMAIN i.rules[r].paths : <<r, p>> \in Of(r)
      OBVIOUS
    <3>3. Of(r) \in all
      OBVIOUS
    <3> HIDE DEF Of, all
    <3> QED
      BY <2>7, <3>1, <3>2, <3>3
  <2> HIDE DEF all
  <2>9. IsFiniteSet((UNION all) \cup roots)
    BY <2>6, <2>7, FS_Union
  <2> QED
    BY <2>8, <2>9, FS_Subset
<1> QED
  BY <1>1, <1>2

(* Suffixes never run out: a place needs less than there are.                *)
LEMMA Smallest ==
    ASSUME NEW S, S \subseteq Nat, S # {}
    PROVE  Min(S) \in S /\ \A n \in S : Min(S) <= n
<1> DEFINE R == OpToRel(<, Nat)
<1>1. IsWellFoundedOn(R, Nat)
  BY NatLessThanWellFounded
<1>2. \A x, y \in Nat : <<y, x>> \in R <=> y < x
  BY DEF OpToRel
<1> HIDE DEF R
<1>3. \E x \in S : \A y \in S : ~(<<y, x>> \in R)
  BY <1>1, WFMin
<1>4. \E x \in S : \A y \in S : x <= y
  <2> PICK x \in S : \A y \in S : ~(<<y, x>> \in R)
    BY <1>3
  <2>1. \A y \in S : x \in Nat /\ y \in Nat /\ ~(y < x)
    BY <1>2
  <2> QED
    BY <2>1
<1> QED
  BY <1>4 DEF Min

LEMMA FreeSuffix ==
    ASSUME NEW used, IsFiniteSet(used), Cardinality(used) < Len(Suffixes), NEW base \in Seq(STRING)
    PROVE  \E k \in DOMAIN Suffixes : Append(base, Suffixes[k]) \notin used
<1> SUFFICES ASSUME \A k \in DOMAIN Suffixes : Append(base, Suffixes[k]) \in used
             PROVE  FALSE
  OBVIOUS
<1> DEFINE D == DOMAIN Suffixes
           f == [k \in D |-> Append(base, Suffixes[k])]
<1>1. Len(Suffixes) \in Nat /\ D = 1..Len(Suffixes) /\ \A k \in D : Suffixes[k] \in STRING
  BY SuffixesAssumption
<1>2. \A k, l \in D : f[k] = f[l] => k = l
  <2> SUFFICES ASSUME NEW k \in D, NEW l \in D, f[k] = f[l] PROVE Suffixes[k] = Suffixes[l]
    BY SuffixesAssumption
  <2>1. Append(base, Suffixes[k]) = Append(base, Suffixes[l])
    OBVIOUS
  <2> QED
    BY <1>1, <2>1, AppendProperties
<1>3. f \in [D -> used]
  OBVIOUS
<1> HIDE DEF f, D
<1>4. f \in Injection(D, used)
  BY <1>2, <1>3 DEF Injection, IsInjective
<1>5. Cardinality(D) <= Cardinality(used) /\ IsFiniteSet(D)
  BY <1>4, FS_Injection
<1>6. \A n \in Nat : Cardinality(1..n) = n
  BY FS_Interval
<1>7. Cardinality(used) \in Nat
  BY FS_CardinalityType
<1> QED
  BY <1>1, <1>5, <1>6, <1>7

LEMMA UniqueNameIsNew ==
    ASSUME NEW used, IsFiniteSet(used), Cardinality(used) < Len(Suffixes), NEW base \in Seq(STRING)
    PROVE  /\ UniqueName(base, used) \notin used
           /\ UniqueName(base, used) \in {base} \cup {Append(base, Suffixes[k]) : k \in DOMAIN Suffixes}
<1> DEFINE free == {k \in DOMAIN Suffixes : Append(base, Suffixes[k]) \notin used}
<1>1. free # {} /\ free \subseteq DOMAIN Suffixes /\ free \subseteq Nat
  BY FreeSuffix, SuffixesAssumption
<1>2. Min(free) \in free
  <2> HIDE DEF free
  <2> QED
    BY <1>1, Smallest
<1>3. Append(base, Suffixes[Min(free)]) \notin used /\ Min(free) \in DOMAIN Suffixes
  BY <1>2
<1>4. UniqueName(base, used) = IF base \notin used THEN base ELSE Append(base, Suffixes[Min(free)])
  BY DEF UniqueName
<1> HIDE DEF free
<1> QED
  BY <1>3, <1>4

(* There is always a number for a wildcard host that the Ingress has not     *)
(* used.                                                                     *)
LEMMA WildcardIsNew ==
    ASSUME NEW map, IsFiniteSet(DOMAIN map)
    PROVE  WildcardID(map) \in Nat /\ <<"wc", WildcardID(map)>> \notin Range(map)
<1> DEFINE n == Cardinality(DOMAIN map)
           free == {k \in 0..n : <<"wc", k>> \notin Range(map)}
<1>1. n \in Nat
  BY FS_CardinalityType
<1>2. free # {}
  <2> SUFFICES ASSUME \A k \in 0..n : \E d \in DOMAIN map : map[d] = <<"wc", k>>
               PROVE  FALSE
    BY DEF Range
  <2> DEFINE f == [k \in 0..n |-> CHOOSE d \in DOMAIN map : map[d] = <<"wc", k>>]
  <2>1. \A k \in 0..n : f[k] \in DOMAIN map /\ map[f[k]] = <<"wc", k>>
    OBVIOUS
  <2>2. f \in [0..n -> DOMAIN map] /\ \A k, l \in 0..n : f[k] = f[l] => k = l
    <3>1. DOMAIN f = 0..n /\ f = [k \in 0..n |-> f[k]]
      OBVIOUS
    <3> HIDE DEF f
    <3> QED
      BY <2>1, <3>1
  <2>3. f \in Injection(0..n, DOMAIN map)
    <3> HIDE DEF f
    <3> QED
      BY <2>2 DEF Injection, IsInjective
  <2>4. Cardinality(0..n) <= n
    <3> HIDE DEF f
    <3> QED
      BY <2>3, FS_Injection
  <2>5. \A m \in Nat : Cardinality(0..m) = m + 1
    BY FS_Interval
  <2> HIDE DEF n
  <2> QED
    BY <1>1, <2>4, <2>5
<1>3. WildcardID(map) = Min(free)
  BY DEF WildcardID
<1>4. free \subseteq Nat /\ \A k \in free : <<"wc", k>> \notin Range(map)
  BY <1>1
<1> HIDE DEF free
<1> QED
  BY <1>2, <1>3, <1>4, Smallest

LEMMA PutIs ==
    ASSUME NEW map, NEW x, NEW v
    PROVE  /\ DOMAIN Put(map, x, v) = DOMAIN map \cup {x} /\ Put(map, x, v)[x] = v
           /\ \A y \in DOMAIN map : y # x => Put(map, x, v)[y] = map[y]
           /\ Range(Put(map, x, v)) \subseteq {v} \cup Range(map)
BY DEF Put, Range

-----------------------------------------------------------------------------
(* Sequences whose elements nothing is said of.                              *)
IsSequence(s) == Len(s) \in Nat /\ s = [k \in 1..Len(s) |-> s[k]]

LEMMA SequenceIs ==
    ASSUME NEW S, NEW s \in Seq(S)
    PROVE  IsSequence(s) /\ DOMAIN s = 1..Len(s)
<1>1. Len(s) \in Nat /\ s \in [1..Len(s) -> S]
  OBVIOUS
<1> PICK n \in Nat : n = Len(s)
  BY <1>1
<1>2. s = [k \in 1..n |-> s[k]]
  BY <1>1
<1> QED
  BY <1>1, <1>2 DEF IsSequence

LEMMA SequenceHas ==
    ASSUME NEW s, IsSequence(s), NEW x
    PROVE  \E S : s \in Seq(S) /\ x \in S
<1> PICK n \in Nat : n = Len(s) /\ s = [k \in 1..n |-> s[k]]
  BY DEF IsSequence
<1> DEFINE S == {s[k] : k \in 1..n} \cup {x}
<1>1. s \in [1..n -> S]
  OBVIOUS
<1>2. x \in S
  OBVIOUS
<1> HIDE DEF S
<1> QED
  BY <1>1, <1>2

LEMMA AppendIs ==
    ASSUME NEW s, IsSequence(s), NEW x
    PROVE  /\ IsSequence(Append(s, x)) /\ Len(Append(s, x)) = Len(s) + 1
           /\ DOMAIN s = 1..Len(s) /\ DOMAIN Append(s, x) = 1..(Len(s) + 1)
           /\ Append(s, x)[Len(s) + 1] = x
           /\ \A k \in 1..Len(s) : Append(s, x)[k] = s[k]
<1>1. PICK S : s \in Seq(S) /\ x \in S
  BY SequenceHas
<1>2. IsSequence(Append(s, x)) /\ DOMAIN Append(s, x) = 1..Len(Append(s, x))
  BY <1>1, AppendProperties, SequenceIs
<1>3. DOMAIN s = 1..Len(s)
  BY <1>1, SequenceIs
<1> QED
  BY <1>1, <1>2, <1>3, AppendProperties

LEMMA TailIs ==
    ASSUME NEW s, IsSequence(s), s # <<>>
    PROVE  /\ IsSequence(Tail(s)) /\ Len(Tail(s)) = Len(s) - 1 /\ Len(s) > 0
           /\ DOMAIN s = 1..Len(s) /\ DOMAIN Tail(s) = 1..(Len(s) - 1)
           /\ Head(s) = s[1]
           /\ \A k \in 1..(Len(s) - 1) : Tail(s)[k] = s[k + 1]
<1>1. PICK S : s \in Seq(S)
  BY SequenceHas
<1>2. Tail(s) \in Seq(S) /\ Len(Tail(s)) = Len(s) - 1 /\ Len(s) \in Nat /\ Len(s) > 0
  BY <1>1
<1>3. \A k \in 1..(Len(s) - 1) : Tail(s)[k] = s[k + 1]
  BY <1>1
<1>4. Head(s) = s[1]
  BY <1>1
<1>5. IsSequence(Tail(s)) /\ DOMAIN Tail(s) = 1..Len(Tail(s)) /\ DOMAIN s = 1..Len(s)
  BY <1>1, <1>2, SequenceIs
<1> QED
  BY <1>2, <1>3, <1>4, <1>5

LEMMA EmptyIs == IsSequence(<<>>) /\ DOMAIN <<>> = {} /\ Len(<<>>) = 0
BY DEF IsSequence

-----------------------------------------------------------------------------
(* A configuration of a location, and what becomes of it in the cluster.     *)
IsConf(c) ==
    c = [name |-> c.name, of |-> c.of, kind |-> c.kind, hosts |-> c.hosts, path |-> c.path,
         service |-> c.service, port |-> c.port, pathType |-> c.pathType,
         settings |-> c.settings, tls |-> c.tls]

SameButRoute(c, d) ==
    /\ c.name = d.name /\ c.of = d.of /\ c.kind = d.kind /\ c.hosts = d.hosts /\ c.path = d.path
    /\ c.service = d.service /\ c.settings = d.settings /\ c.tls = d.tls

LEMMA GeneratedIs ==
    ASSUME NEW c, IsConf(c)
    PROVE  /\ IsConf(Generated(c)) /\ SameButRoute(Generated(c), c)
           /\ Generated(c).pathType = c.pathType
           /\ c.port.name \notin DOMAIN YamlNumbers => Generated(c).port = c.port
<1>1. ASSUME NEW other, NEW d, d = [c EXCEPT !.port = other]
      PROVE  IsConf(d) /\ SameButRoute(d, c) /\ d.pathType = c.pathType
  <2> PICK name, of, kind, hosts, path, service, port, pathType, settings, tls :
      c = [name |-> name, of |-> of, kind |-> kind, hosts |-> hosts, path |-> path,
           service |-> service, port |-> port, pathType |-> pathType,
           settings |-> settings, tls |-> tls]
    BY DEF IsConf
  <2>1. [c EXCEPT !.port = other] =
          [name |-> name, of |-> of, kind |-> kind, hosts |-> hosts, path |-> path,
           service |-> service, port |-> other, pathType |-> pathType,
           settings |-> settings, tls |-> tls]
    OBVIOUS
  <2> QED
    BY <1>1, <2>1 DEF IsConf, SameButRoute
<1>2. \/ Generated(c) = c
      \/ c.port.name \in DOMAIN YamlNumbers /\ \E other : Generated(c) = [c EXCEPT !.port = other]
  BY DEF Generated
<1>3. SameButRoute(c, c)
  BY DEF SameButRoute
<1>4. CASE Generated(c) = c
  BY <1>3, <1>4
<1>5. ASSUME c.port.name \in DOMAIN YamlNumbers, NEW other, Generated(c) = [c EXCEPT !.port = other]
      PROVE  /\ IsConf(Generated(c)) /\ SameButRoute(Generated(c), c)
             /\ Generated(c).pathType = c.pathType
  BY <1>1, <1>5, Zenon
<1> QED
  BY <1>2, <1>4, <1>5

LEMMA ConvertedIs ==
    ASSUME NEW c, IsConf(c), NEW d, d = ConvertV1Beta1ToV1Ingress(c)
    PROVE  /\ IsConf(d) /\ SameButRoute(d, c) /\ d.port = c.port
           /\ d.pathType = IF c.pathType \in {"Exact", "Prefix"} THEN c.pathType
                           ELSE "ImplementationSpecific"
<1> PICK name, of, kind, hosts, path, service, port, pathType, settings, tls :
      c = [name |-> name, of |-> of, kind |-> kind, hosts |-> hosts, path |-> path,
           service |-> service, port |-> port, pathType |-> pathType,
           settings |-> settings, tls |-> tls]
  BY DEF IsConf
<1> PICK type :
      type = IF c.pathType \in {"Exact", "Prefix"} THEN c.pathType ELSE "ImplementationSpecific"
  OBVIOUS
<1>1. [c EXCEPT !.pathType = type] =
          [name |-> name, of |-> of, kind |-> kind, hosts |-> hosts, path |-> path,
           service |-> service, port |-> port, pathType |-> type,
           settings |-> settings, tls |-> tls]
  OBVIOUS
<1>2. d = [c EXCEPT !.pathType = type]
  BY DEF ConvertV1Beta1ToV1Ingress
<1> QED
  BY <1>1, <1>2 DEF IsConf, SameButRoute

LEMMA WrittenIs ==
    ASSUME NEW c, IsConf(c)
    PROVE  /\ IsConf(Written(c)) /\ SameButRoute(Written(c), c)
           /\ c.port.name \notin DOMAIN YamlNumbers => Written(c).port = c.port
           /\ Written(c).pathType =
                 IF V1Only /\ c.pathType \notin {"Exact", "Prefix"}
                 THEN "ImplementationSpecific" ELSE c.pathType
<1> PICK d : d = Generated(c)
  OBVIOUS
<1>1. /\ IsConf(d) /\ SameButRoute(d, c) /\ d.pathType = c.pathType
      /\ c.port.name \notin DOMAIN YamlNumbers => d.port = c.port
  BY GeneratedIs
<1> PICK e : e = ConvertV1Beta1ToV1Ingress(d)
  OBVIOUS
<1>2. /\ IsConf(e) /\ SameButRoute(e, d) /\ e.port = d.port
      /\ e.pathType = IF d.pathType \in {"Exact", "Prefix"} THEN d.pathType
                      ELSE "ImplementationSpecific"
  BY <1>1, ConvertedIs
<1>3. Written(c) = IF V1Only THEN e ELSE d
  BY DEF Written
<1>4. SameButRoute(e, c)
  BY <1>1, <1>2 DEF SameButRoute
<1> QED
  BY <1>1, <1>2, <1>3, <1>4

-----------------------------------------------------------------------------
(* The invariant that TypeOK needs.  The Ingresses and the mode of a run are *)
(* those of one input.                                                       *)
InputInv ==
    \E x \in Inputs :
        /\ todo \cup infos \cup ({ing} \ {Idle}) \subseteq x.ingresses
        /\ mode = x.mode /\ api = x.api

(* Where in the servers of its Ingress the split is.                         *)
PlaceInv ==
    /\ todo \cap infos = {} /\ ing \notin todo \cup infos
    /\ ing # Idle =>
          /\ servers = Servers(ing) /\ Convertible(ing)
          /\ srv \in 1..(Len(servers) + 1) /\ loc \in Nat
          /\ srv > Len(servers) => loc = 0
          /\ srv <= Len(servers) => loc <= Len(servers[srv].locations) + 1

KnownSettings == DOMAIN LocationSource \cup DOMAIN ServerSource

Sound(resource) ==
    /\ resource.hosts \subseteq Hosts /\ DOMAIN resource.settings \subseteq KnownSettings
    /\ resource.kind = "location" => resource.path \in DOMAIN Stripped \ {""}

ConfsInv ==
    /\ IsSequence(confs)
    /\ \A c \in DOMAIN confs : IsConf(confs[c]) /\ confs[c].kind = "location" /\ Sound(confs[c])

HostsInv ==
    /\ randoms \in Nat /\ IsFiniteSet(DOMAIN subdomains)
    /\ Range(subdomains) \subseteq Hosts /\ Range(reported) \subseteq Hosts
    /\ ing # Idle /\ loc > 0 => host \in Hosts
    /\ server.hosts \subseteq Hosts /\ DOMAIN server.settings \subseteq KnownSettings

StoreInv == \A n \in DOMAIN store : store[n].name = n /\ Sound(store[n])

TypeInv == InputInv /\ PlaceInv /\ ConfsInv /\ HostsInv /\ StoreInv

(* What an input is, for the Ingresses of the run.                           *)
LEMMA InputIs ==
    ASSUME InputInv
    PROVE  /\ mode \in TestModes \cup {"production"} /\ api \in [version : Nat, discovered : BOOLEAN]
           /\ \A i \in todo \cup infos \cup ({ing} \ {Idle}) : IsIngress(i) /\ i \in Users
BY InputsAssumption DEF InputInv, Users

LEMMA IdleIsNoUser == \A i \in Users : IsIngress(i) /\ i # Idle
<1>1. \A i \in Users : IsIngress(i)
  BY InputsAssumption DEF Users
<1>2. \A i : IsIngress(i) => i.name # <<>>
  BY DEF IsIngress
<1>3. Idle.name = <<>>
  BY DEF Idle
<1> QED
  BY <1>1, <1>2, <1>3

LEMMA InputInvHolds ==
    ASSUME InputInv, [Next]_vars
    PROVE  InputInv'
<1> PICK x \in Inputs : /\ todo \cup infos \cup ({ing} \ {Idle}) \subseteq x.ingresses
                        /\ mode = x.mode /\ api = x.api
  BY DEF InputInv
<1>1. mode' = mode /\ api' = api
  BY DEF Next, vars, Reject, ParserPanic, Start, StartServer, AddLocation, EndServer, Apply,
         FinishIngress, Stopped
<1>2. todo' \cup infos' \cup ({ing'} \ {Idle}) \subseteq todo \cup infos \cup ({ing} \ {Idle})
  BY DEF Next, vars, splitVars, Reject, ParserPanic, Start, StartServer, AddLocation, EndServer,
         Apply, FinishIngress, Stopped
<1> QED
  BY <1>1, <1>2 DEF InputInv

LEMMA PlaceInvHolds ==
    ASSUME InputInv, PlaceInv, [Next]_vars
    PROVE  PlaceInv'
<1> USE DEF PlaceInv
<1>1. CASE Reject
  BY <1>1 DEF Reject, splitVars
<1>2. CASE ParserPanic
  BY <1>2 DEF ParserPanic, splitVars
<1>3. CASE Start
  <2> PICK i \in todo : /\ ~Panics(i) /\ Convertible(i) /\ ing' = i /\ todo' = todo \ {i}
                        /\ servers' = Servers(Read(i))
    BY <1>3 DEF Start
  <2>1. IsIngress(i) /\ api \in [version : Nat, discovered : BOOLEAN] /\ i \in Users
    BY InputIs
  <2>2. Read(i) = i
    BY <2>1, ReadIsSame
  <2>3. api' = api /\ infos' = infos /\ srv' = 1 /\ loc' = 0
    BY <1>3 DEF Start
  <2>4. Servers(i)' = Servers(i) /\ Convertible(i)' = Convertible(i)
    BY <2>3 DEF Servers, Location, Enhancements, Convertible, Unsupported
  <2>5. Len(Servers(i)) \in Nat /\ \A s \in 1..Len(Servers(i)) : Len(Servers(i)[s].locations) \in Nat
    BY <2>1, ServerIs, RulesAre, SlotsOfServer
  <2>6. /\ servers' = Servers(ing)' /\ Convertible(ing)'
        /\ srv' \in 1..(Len(servers') + 1) /\ loc' \in Nat
        /\ srv' > Len(servers') => loc' = 0
        /\ srv' <= Len(servers') => loc' <= Len(servers'[srv'].locations) + 1
    BY <2>2, <2>3, <2>4, <2>5
  <2> QED
    BY <2>3, <2>6
<1>4. ASSUME ing # Idle
      PROVE  /\ IsIngress(ing) /\ ing \in Users /\ Len(servers) \in Nat /\ servers = Servers(ing)
             /\ srv <= Len(servers) => Len(servers[srv].locations) \in Nat /\ srv \in DOMAIN servers
  <2>1. IsIngress(ing) /\ ing \in Users
    BY <1>4, InputIs
  <2>2. Len(Servers(ing)) \in Nat /\ DOMAIN Servers(ing) = 1..Len(Servers(ing))
    BY <2>1, ServerIs, RulesAre
  <2>3. \A s \in DOMAIN Servers(ing) : Len(Servers(ing)[s].locations) \in Nat
    BY <2>1, SlotsOfServer
  <2> QED
    BY <1>4, <2>1, <2>2, <2>3
<1>5. UNCHANGED api => Servers(ing)' = Servers(ing') /\ Convertible(ing)' = Convertible(ing')
  BY DEF Servers, Location, Enhancements, Convertible, Unsupported
<1>6. CASE StartServer
  <2>1. ing # Idle /\ srv <= Len(servers) /\ loc = 0 /\ loc' = 1
    BY <1>6 DEF StartServer, Splitting
  <2>2. UNCHANGED <<todo, ing, servers, srv, infos, api>>
    BY <1>6 DEF StartServer
  <2>3. loc' <= Len(servers[srv].locations) + 1
    BY <1>4, <2>1
  <2> QED
    BY <1>5, <2>1, <2>2, <2>3
<1>7. CASE AddLocation
  <2>1. ing # Idle /\ srv <= Len(servers) /\ loc \in 1..Len(servers[srv].locations) /\ loc' = loc + 1
    BY <1>7 DEF AddLocation, Splitting, Server
  <2>2. UNCHANGED <<todo, ing, servers, srv, infos, api>>
    BY <1>7 DEF AddLocation
  <2>3. loc' \in Nat /\ loc' <= Len(servers[srv].locations) + 1
    BY <1>4, <2>1
  <2> QED
    BY <1>5, <2>1, <2>2, <2>3
<1>8. CASE EndServer
  <2>1. ing # Idle /\ srv <= Len(servers) /\ srv' = srv + 1 /\ loc' = 0
    BY <1>8 DEF EndServer, Splitting
  <2>2. UNCHANGED <<todo, ing, servers, infos, api>>
    BY <1>8 DEF EndServer
  <2>3. srv \in 1..(Len(servers) + 1) /\ Len(servers) \in Nat
    BY <1>4, <2>1
  <2>4. srv' \in 1..(Len(servers) + 1)
    BY <2>1, <2>3
  <2>5. srv' <= Len(servers) => loc' <= Len(servers[srv'].locations) + 1
    <3> SUFFICES ASSUME srv' <= Len(servers) PROVE 0 <= Len(servers[srv'].locations) + 1
      BY <2>1
    <3>1. srv' \in DOMAIN Servers(ing) /\ servers = Servers(ing)
      BY <1>4, <2>1, <2>3, ServerIs
    <3> QED
      BY <1>4, <2>1, <3>1, SlotsOfServer
  <2> QED
    BY <1>5, <2>1, <2>2, <2>4, <2>5
<1>9. CASE Apply
  <2>1. UNCHANGED <<todo, ing, servers, srv, loc, infos, api>>
    BY <1>9 DEF Apply
  <2> QED
    BY <1>5, <2>1
<1>10. CASE FinishIngress
  <2>1. /\ ing # Idle /\ ing' = Idle /\ infos' = infos \cup {ing} /\ todo' = todo
    BY <1>10 DEF FinishIngress
  <2>2. Idle \notin todo \cup infos'
    BY <1>4, <2>1, InputIs, IdleIsNoUser
  <2> QED
    BY <2>1, <2>2
<1>11. CASE UNCHANGED vars
  BY <1>5, <1>11 DEF vars, splitVars
<1> QED
  BY <1>1, <1>2, <1>3, <1>6, <1>7, <1>8, <1>9, <1>10, <1>11 DEF Next, Stopped

LEMMA HostsAre ==
    /\ \A i \in Users : \A h \in UserHosts(i) : <<"user", h>> \in Hosts
    /\ \A k \in Nat : <<"wc", k>> \in Hosts /\ <<"random", k>> \in Hosts
<1> DEFINE all == UNION {UserHosts(i) : i \in Users}
<1>1. \A i \in Users : \A h \in UserHosts(i) : h \in all
  OBVIOUS
<1>2. Hosts = ({"user"} \X all) \cup ({"wc", "random"} \X Nat)
  BY DEF Hosts
<1> HIDE DEF all
<1> QED
  BY <1>1, <1>2

LEMMA SettingsAreKnown ==
    ASSUME NEW i, NEW service
    PROVE  /\ DOMAIN LocationAnnotations(i, service) \subseteq KnownSettings
           /\ DOMAIN ServerAnnotations(i) \subseteq KnownSettings
           /\ DOMAIN EmptyMap \subseteq KnownSettings
<1>1. DOMAIN LocationAnnotations(i, service) \subseteq DOMAIN LocationSource
  BY DEF LocationAnnotations, Restrict
<1>2. DOMAIN ServerAnnotations(i) \subseteq DOMAIN ServerSource
  BY DEF ServerAnnotations, Restrict
<1>3. DOMAIN EmptyMap = {}
  BY DEF EmptyMap
<1> QED
  BY <1>1, <1>2, <1>3 DEF KnownSettings

(* What there is to work with while an Ingress is split.                     *)
LEMMA ServerHas ==
    ASSUME InputInv, PlaceInv, Splitting
    PROVE  /\ IsIngress(ing) /\ ing \in Users /\ ing # Idle
           /\ srv \in DOMAIN Servers(ing) /\ Server = Servers(ing)[srv]
           /\ Server.host \in UserHosts(ing) /\ DOMAIN Server.settings \subseteq KnownSettings
           /\ loc \in Nat /\ Len(Server.locations) \in Nat
           /\ loc <= Len(Server.locations) + 1
           /\ \A l \in 1..Len(Server.locations) : \E x \in Places(ing) : SlotIsFor(ing, srv, l, x)
<1>1. ing # Idle /\ servers = Servers(ing) /\ srv <= Len(servers) /\ srv \in 1..(Len(servers) + 1)
      /\ loc \in Nat /\ loc <= Len(Server.locations) + 1
  BY DEF PlaceInv, Splitting, Server
<1>2. IsIngress(ing) /\ ing \in Users
  BY <1>1, InputIs
<1>3. srv \in DOMAIN Servers(ing)
  <2>1. Len(Servers(ing)) \in Nat /\ DOMAIN Servers(ing) = 1..Len(Servers(ing))
    BY <1>2, ServerIs, RulesAre
  <2> QED
    BY <1>1, <2>1
<1>4. Server = Servers(ing)[srv]
  BY <1>1 DEF Server
<1>5. /\ Len(Server.locations) \in Nat /\ Server.host \in UserHosts(ing)
      /\ Server.settings = IF OnlyBackend(ing) THEN EmptyMap ELSE ServerAnnotations(ing)
      /\ \A l \in 1..Len(Server.locations) : \E x \in Places(ing) : SlotIsFor(ing, srv, l, x)
  BY <1>2, <1>3, <1>4, SlotsOfServer
<1>6. DOMAIN Server.settings \subseteq KnownSettings
  BY <1>5, SettingsAreKnown
<1> QED
  BY <1>1, <1>2, <1>3, <1>4, <1>5, <1>6

(* A configuration that is made is that of the place of its slot.            *)
LEMMA LocationConfIs ==
    ASSUME NEW location, NEW c, c = LocationConf(location)
    PROVE  /\ IsConf(c) /\ c.kind = "location" /\ c.of = ing.name /\ c.hosts = {host}
           /\ c.name = UniqueName(BaseName(ing, location), UsedNames)
           /\ c.path = location.path /\ c.service = location.service /\ c.port = location.port
           /\ c.pathType = location.pathType /\ c.settings = location.settings
           /\ c.tls = IF Secret = NoSecret THEN EmptyMap ELSE Put(EmptyMap, Secret, {host})
BY DEF LocationConf, IsConf

LEMMA ConfsInvHolds ==
    ASSUME InputInv, PlaceInv, HostsInv, ConfsInv, [Next]_vars
    PROVE  ConfsInv'
<1>1. CASE UNCHANGED confs
  BY <1>1 DEF ConfsInv, Sound
<1>2. CASE Start
  BY <1>2, EmptyIs DEF Start, ConfsInv
<1>3. CASE AddLocation
  <2>1. Splitting /\ loc \in 1..Len(Server.locations)
        /\ confs' = Append(confs, LocationConf(Server.locations[loc]))
    BY <1>3 DEF AddLocation
  <2>2. PICK x \in Places(ing) : SlotIsFor(ing, srv, loc, x)
    BY <2>1, ServerHas
  <2>3. PICK c : c = LocationConf(Server.locations[loc])
    OBVIOUS
  <2>4. IsConf(c) /\ c.kind = "location" /\ c.hosts = {host} /\ c.path = Server.locations[loc].path
        /\ c.settings = Server.locations[loc].settings
    BY <2>3, LocationConfIs
  <2>5. Server = Servers(ing)[srv] /\ ing # Idle
    BY <2>1, ServerHas
  <2>6. c.path \in DOMAIN Stripped \ {""} /\ DOMAIN c.settings \subseteq KnownSettings
    <3>1. PICK path : path = At(ing, x)
      OBVIOUS
    <3>2. path \in UserPaths /\ path.path # "" /\ c.path = path.path
          /\ c.settings = LocationAnnotations(ing, path.service)
      BY <2>2, <2>4, <2>5, <3>1 DEF SlotIsFor, IsAt
    <3>3. path.path \in DOMAIN Stripped
      BY <3>2 DEF UserPaths
    <3> QED
      BY <3>2, <3>3, SettingsAreKnown
  <2>7. host \in Hosts
    BY <2>1, <2>5, ServerHas DEF HostsInv
  <2>8. Sound(c)
    BY <2>4, <2>6, <2>7 DEF Sound
  <2>9. /\ IsSequence(confs') /\ DOMAIN confs' = 1..(Len(confs) + 1) /\ DOMAIN confs = 1..Len(confs)
        /\ confs'[Len(confs) + 1] = c /\ \A k \in 1..Len(confs) : confs'[k] = confs[k]
        /\ Len(confs) \in Nat
    BY <2>1, <2>3, AppendIs DEF ConfsInv, IsSequence
  <2>10. ASSUME NEW k \in DOMAIN confs'
         PROVE  IsConf(confs'[k]) /\ confs'[k].kind = "location" /\ Sound(confs'[k])
    <3>1. CASE k = Len(confs) + 1
      BY <2>4, <2>8, <2>9, <3>1
    <3>2. CASE k \in DOMAIN confs
      BY <2>9, <3>2 DEF ConfsInv
    <3> QED
      BY <2>9, <3>1, <3>2
  <2> QED
    BY <2>9, <2>10 DEF ConfsInv, Sound
<1>4. CASE Apply
  <2>1. confs # <<>> /\ confs' = Tail(confs)
    BY <1>4 DEF Apply
  <2>2. /\ IsSequence(confs') /\ Len(confs) \in Nat /\ Len(confs) > 0
        /\ DOMAIN confs = 1..Len(confs) /\ DOMAIN confs' = 1..(Len(confs) - 1)
        /\ \A k \in 1..(Len(confs) - 1) : confs'[k] = confs[k + 1]
    BY <2>1, TailIs DEF ConfsInv, IsSequence
  <2>3. ASSUME NEW k \in DOMAIN confs'
        PROVE  IsConf(confs'[k]) /\ confs'[k].kind = "location" /\ Sound(confs'[k])
    <3>1. k + 1 \in DOMAIN confs /\ confs'[k] = confs[k + 1]
      BY <2>2
    <3> QED
      BY <3>1 DEF ConfsInv
  <2> QED
    BY <2>2, <2>3 DEF ConfsInv, Sound
<1> QED
  BY <1>1, <1>2, <1>3, <1>4
  DEF Next, vars, splitVars, Reject, ParserPanic, StartServer, EndServer, FinishIngress, Stopped

LEMMA HostsInvHolds ==
    ASSUME InputInv, PlaceInv, HostsInv, [Next]_vars
    PROVE  HostsInv'
<1>1. CASE UNCHANGED <<randoms, subdomains, reported, ing, loc, host, server>>
  BY <1>1 DEF HostsInv
<1>2. CASE Start
  <2>1. DOMAIN EmptyMap = {} /\ Range(EmptyMap) = {}
    BY DEF EmptyMap, Range
  <2>2. UNCHANGED <<randoms, reported>> /\ subdomains' = EmptyMap /\ server' = NoServer /\ loc' = 0
    BY <1>2 DEF Start
  <2>3. NoServer.hosts = {} /\ NoServer.settings = EmptyMap
    BY DEF NoServer
  <2>4. IsFiniteSet({})
    BY FS_EmptySet
  <2> QED
    BY <2>1, <2>2, <2>3, <2>4 DEF HostsInv
<1>3. CASE StartServer
  <2>1. Splitting /\ UNCHANGED <<ing, reported, server>>
    BY <1>3 DEF StartServer
  <2>2. Server.host \in UserHosts(ing) /\ ing \in Users
    BY <2>1, ServerHas
  <2>3. CASE mode \notin TestModes
    <3>1. host' = <<"user", Server.host>> /\ UNCHANGED <<subdomains, randoms>>
      BY <1>3, <2>3 DEF StartServer
    <3>2. host' \in Hosts
      BY <2>2, <3>1, HostsAre
    <3> QED
      BY <2>1, <3>1, <3>2 DEF HostsInv
  <2>4. CASE mode \in TestModes
    <3>1. /\ host' = IF Server.host \in Wildcards THEN <<"wc", WildcardID(subdomains)>>
                     ELSE <<"random", randoms>>
          /\ subdomains' = Put(subdomains, Server.host, host') /\ randoms' = randoms + 1
      BY <1>3, <2>4 DEF StartServer
    <3>2. WildcardID(subdomains) \in Nat /\ randoms \in Nat
      BY WildcardIsNew DEF HostsInv
    <3>3. host' \in Hosts
      BY <3>1, <3>2, HostsAre
    <3>4. DOMAIN subdomains' = DOMAIN subdomains \cup {Server.host}
      BY <3>1, PutIs
    <3>5. IsFiniteSet(DOMAIN subdomains')
      BY <3>4, FS_AddElement DEF HostsInv
    <3>6. Range(subdomains') \subseteq {host'} \cup Range(subdomains)
      BY <3>1, PutIs
    <3>7. Range(subdomains') \subseteq Hosts
      BY <3>3, <3>6 DEF HostsInv
    <3> QED
      BY <2>1, <3>1, <3>2, <3>3, <3>5, <3>7 DEF HostsInv
  <2> QED
    BY <2>3, <2>4
<1>4. CASE AddLocation
  <2>1. Splitting /\ loc \in 1..Len(Server.locations)
        /\ UNCHANGED <<randoms, subdomains, reported, ing, host, server>>
    BY <1>4 DEF AddLocation
  <2>2. loc > 0 /\ ing # Idle
    BY <2>1, ServerHas
  <2> QED
    BY <2>1, <2>2 DEF HostsInv
<1>5. CASE EndServer
  <2>1. /\ Splitting /\ loc > Len(Server.locations) /\ loc' = 0
        /\ server' = [hosts |-> server.hosts \cup {host}, tls |-> WithSecret(server.tls, host),
                      settings |-> Server.settings]
        /\ UNCHANGED <<randoms, subdomains, reported, ing, host>>
    BY <1>5 DEF EndServer
  <2>2. loc > 0 /\ ing # Idle /\ DOMAIN Server.settings \subseteq KnownSettings
    BY <2>1, ServerHas
  <2>3. server'.hosts = server.hosts \cup {host} /\ server'.settings = Server.settings
    BY <2>1
  <2> QED
    BY <2>1, <2>2, <2>3 DEF HostsInv
<1>6. CASE FinishIngress
  <2>1. reported' = AllSubdomains /\ UNCHANGED <<randoms, subdomains, server>> /\ ing' = Idle
    BY <1>6 DEF FinishIngress
  <2>2. Range(AllSubdomains) \subseteq Range(subdomains) \cup Range(reported)
    BY DEF AllSubdomains, Range
  <2> QED
    BY <2>1, <2>2 DEF HostsInv
<1> QED
  BY <1>1, <1>2, <1>3, <1>4, <1>5, <1>6
  DEF Next, vars, splitVars, Reject, ParserPanic, Apply, Stopped

LEMMA StoreInvHolds ==
    ASSUME InputInv, PlaceInv, ConfsInv, HostsInv, StoreInv, [Next]_vars
    PROVE  StoreInv'
<1>1. CASE UNCHANGED store
  BY <1>1 DEF StoreInv, Sound
<1>2. ASSUME NEW name, NEW resource, store' = Put(store, name, resource),
             resource.name = name, Sound(resource)
      PROVE  StoreInv'
  <2>1. ASSUME NEW n \in DOMAIN store' PROVE store'[n].name = n /\ Sound(store'[n])
    <3>1. CASE n = name
      BY <1>2, <3>1 DEF Put
    <3>2. CASE n # name
      <4>1. n \in DOMAIN store /\ store'[n] = store[n]
        BY <1>2, <3>2 DEF Put
      <4> QED
        BY <4>1 DEF StoreInv
    <3> QED
      BY <3>1, <3>2
  <2> QED
    BY <2>1 DEF StoreInv, Sound
<1>3. CASE Apply
  <2>1. confs # <<>> /\ store' = Put(store, Head(confs).name, Written(Head(confs)))
    BY <1>3 DEF Apply
  <2>2. PICK c : c = Head(confs)
    OBVIOUS
  <2>3. IsConf(c) /\ Sound(c)
    <3>1. c = confs[1] /\ 1 \in DOMAIN confs
      BY <2>1, <2>2, TailIs DEF ConfsInv, IsSequence
    <3> QED
      BY <3>1 DEF ConfsInv
  <2>4. Written(c).name = c.name /\ Sound(Written(c))
    BY <2>3, WrittenIs DEF SameButRoute, Sound
  <2> QED
    BY <1>2, <2>1, <2>2, <2>4
<1>4. CASE FinishIngress
  <2>1. store' = Put(store, ServerName(ing), ServerConf)
    BY <1>4 DEF FinishIngress
  <2>2. ServerConf.name = ServerName(ing) /\ Sound(ServerConf)
    BY DEF ServerConf, Sound, HostsInv
  <2> QED
    BY <1>2, <2>1, <2>2
<1> QED
  BY <1>1, <1>3, <1>4
  DEF Next, vars, Reject, ParserPanic, Start, StartServer, AddLocation, EndServer, Stopped

LEMMA TypeInvStarts ==
    ASSUME Init
    PROVE  TypeInv
<1> PICK x \in Inputs : todo = Listed(x) /\ mode = x.mode /\ api = x.api
  BY DEF Init
<1>1. /\ ing = Idle /\ loc = 0 /\ subdomains = EmptyMap /\ confs = <<>> /\ server = NoServer
      /\ randoms = 0 /\ store = EmptyMap /\ reported = EmptyMap /\ infos = {}
  BY DEF Init
<1>2. todo \subseteq x.ingresses
  BY DEF Listed
<1>3. InputInv
  BY <1>1, <1>2 DEF InputInv
<1>4. PlaceInv
  <2>1. Idle \notin todo
    BY <1>2, IdleIsNoUser DEF Users
  <2> QED
    BY <1>1, <2>1 DEF PlaceInv
<1>5. ConfsInv
  BY <1>1, EmptyIs DEF ConfsInv
<1>6. DOMAIN EmptyMap = {} /\ Range(EmptyMap) = {} /\ NoServer.hosts = {} /\ NoServer.settings = EmptyMap
  BY DEF EmptyMap, Range, NoServer
<1>7. HostsInv /\ StoreInv
  <2>1. IsFiniteSet({})
    BY FS_EmptySet
  <2> QED
    BY <1>1, <1>6, <2>1 DEF HostsInv, StoreInv
<1> QED
  BY <1>3, <1>4, <1>5, <1>7 DEF TypeInv

LEMMA TypeInvHolds ==
    ASSUME TypeInv, [Next]_vars
    PROVE  TypeInv'
BY InputInvHolds, PlaceInvHolds, ConfsInvHolds, HostsInvHolds, StoreInvHolds DEF TypeInv

LEMMA TypeInvImplies ==
    ASSUME TypeInv
    PROVE  TypeOK
<1> USE DEF TypeInv
<1>1. todo \subseteq Users /\ infos \subseteq Users /\ ing \in Users \cup {Idle}
  BY InputIs
<1>2. mode \in TestModes \cup {"production"} /\ api \in [version : Nat, discovered : BOOLEAN]
  BY InputIs
<1>3. ing # Idle => srv \in 1..(Len(servers) + 1)
  BY DEF PlaceInv
<1>4. Splitting => loc <= Len(Server.locations) + 1 /\ (loc > 0 => host \in Hosts)
  BY DEF PlaceInv, HostsInv, Splitting, Server
<1>5. /\ Range(subdomains) \subseteq Hosts /\ Range(reported) \subseteq Hosts
      /\ server.hosts \subseteq Hosts
  BY DEF HostsInv
<1>6. \A n \in DOMAIN store :
          /\ store[n].name = n /\ store[n].hosts \subseteq Hosts
          /\ DOMAIN store[n].settings \subseteq DOMAIN LocationSource \cup DOMAIN ServerSource
          /\ store[n].kind = "location" => store[n].path \in DOMAIN Stripped \ {""}
  BY DEF StoreInv, Sound, KnownSettings
<1>7. todo \cap infos = {} /\ ing \notin todo \cup infos
  BY DEF PlaceInv
<1> QED
  BY <1>1, <1>2, <1>3, <1>4, <1>5, <1>6, <1>7 DEF TypeOK

(* In every run, whatever the Ingresses are called, each variable holds what *)
(* it may: no name is stored under another, every host is a user's, or a     *)
(* numbered test host, and no generated location has an empty path.          *)
THEOREM TypeCorrect == Spec => []TypeOK
<1>1. Init => TypeInv
  BY TypeInvStarts
<1>2. TypeInv /\ [Next]_vars => TypeInv'
  BY TypeInvHolds
<1>3. TypeInv => TypeOK
  BY TypeInvImplies
<1> QED
  BY <1>1, <1>2, <1>3, PTL DEF Spec

-----------------------------------------------------------------------------
(* The invariant that the location resources need.  Those of an Ingress are  *)
(* in the cluster, or for the one that is split still to be written; the     *)
(* places of its locations that have one are all, or those before the slot   *)
(* that is next.                                                             *)
Current == infos \cup ({ing} \ {Idle})

Stored(i) == {store[n] : n \in {m \in DOMAIN store : store[m].of = i.name /\ store[m].kind = "location"}}

Pending == {Written(confs[c]) : c \in DOMAIN confs}

Made(i) == Stored(i) \cup (IF i = ing THEN Pending ELSE {})

Before(slot) == slot[1] < srv \/ (slot[1] = srv /\ slot[2] < loc)

Done(i) == IF i = ing THEN {x \in Places(i) : Before(SlotOf(i, x))} ELSE Places(i)

SecretFor(i, h) == IF mode \in TestModes THEN "testSecret" ELSE TLSSecret(i, h[2])

OneSecret(secret, h) == IF secret = NoSecret THEN EmptyMap ELSE Put(EmptyMap, secret, {h})

(* The resource is the one of this place.                                    *)
Fits(i, x, r) ==
    /\ r.of = i.name /\ r.kind = "location"
    /\ r.path = At(i, x).path /\ r.service = At(i, x).service
    /\ r.settings = LocationAnnotations(i, At(i, x).service)
    /\ mode \notin TestModes => r.hosts = {<<"user", HostOf(i, x)>>}
    /\ \E h \in r.hosts : r.hosts = {h} /\ r.tls = OneSecret(SecretFor(i, h), h)
    /\ api.discovered =>
          /\ At(i, x).port.name \notin DOMAIN YamlNumbers => r.port = At(i, x).port
          /\ SamePathType(r.pathType,
                IF Modifier(i, At(i, x).service) = "'='" THEN "Exact" ELSE At(i, x).pathType)

(* Each of the places has one of the resources, and no other place has it.   *)
Assigned(i, places, resources) ==
    \E f \in [places -> resources] :
        /\ \A x, y \in places : f[x] = f[y] => x = y
        /\ \A r \in resources : \E x \in places : f[x] = r
        /\ \A x \in places : Fits(i, x, f[x])

NamesInv ==
    /\ \A c, d \in DOMAIN confs : confs[c].name = confs[d].name => c = d
    /\ ing = Idle => confs = <<>>
    /\ \A c \in DOMAIN confs :
          /\ confs[c].of = ing.name /\ confs[c].name \in LocationNames(ing)
          /\ confs[c].name \notin DOMAIN store
    /\ \A n \in DOMAIN store : \E i \in Current :
          /\ store[n].of = i.name
          /\ \/ store[n].kind = "location" /\ n \in LocationNames(i)
             \/ store[n].kind = "server" /\ n = ServerName(i) /\ i \in infos
    /\ Splitting => \A n \in DOMAIN store : store[n].of # ing.name
    /\ \A i \in infos : ServerName(i) \in DOMAIN store /\ store[ServerName(i)].kind = "server"

PlacesInv == \A i \in Current : Assigned(i, Done(i), Made(i))

(* The server resource serves the hosts of the locations, with the secrets   *)
(* that they have.                                                           *)
Secrets(i, hosts, tls) ==
    /\ NoSecret \notin DOMAIN tls
    /\ \A h \in hosts : SecretFor(i, h) # NoSecret => SecretFor(i, h) \in DOMAIN tls
    /\ \A s \in DOMAIN tls : tls[s] = {h \in hosts : SecretFor(i, h) = s}

Begun == IF loc > 0 THEN {host} ELSE {}

ServerInv ==
    /\ ing # Idle =>
          /\ \A r \in Made(ing) : r.hosts \subseteq server.hosts \cup Begun
          /\ Secrets(ing, server.hosts, server.tls)
          /\ loc > 0 /\ mode \notin TestModes => host = <<"user", Server.host>>
          /\ srv > 1 /\ ing.rules # <<>> => server.settings = ServerAnnotations(ing)
    /\ \A i \in infos : LET s == store[ServerName(i)] IN
          /\ s.of = i.name
          /\ \A r \in Made(i) : r.hosts \subseteq s.hosts
          /\ Secrets(i, s.hosts, s.tls)
          /\ i.rules # <<>> => s.settings = ServerAnnotations(i)

(* In a test mode each host of the Ingress that is split has its test host.  *)
TestInv ==
    mode \in TestModes =>
        /\ ing # Idle =>
              /\ DOMAIN subdomains =
                    {servers[s].host : s \in {t \in DOMAIN servers : t < srv \/ (t = srv /\ loc > 0)}}
              /\ Range(subdomains) = server.hosts \cup Begun
              /\ \A g, h \in DOMAIN subdomains : subdomains[g] = subdomains[h] => g = h
              /\ \A k \in Nat : <<"random", k>> \in Range(subdomains) => k < randoms
        /\ \A i \in infos : LET s == store[ServerName(i)] IN
              /\ Cardinality(s.hosts) = Cardinality(UserHosts(i))
              /\ \A h \in UserHosts(i) : h \in DOMAIN reported /\ reported[h] \in s.hosts

LEMMA ApartIs ==
    ASSUME NamesApart(Inputs), InputInv, NEW i \in todo \cup Current
    PROVE  /\ ServerName(i) \notin LocationNames(i)
           /\ \A j \in todo \cup Current :
                 i # j => i.name # j.name /\ AllNames(i) \cap AllNames(j) = {}
<1> PICK x \in Inputs : todo \cup infos \cup ({ing} \ {Idle}) \subseteq x.ingresses
  BY DEF InputInv
<1>1. i \in x.ingresses /\ \A j \in todo \cup Current : j \in x.ingresses
  BY DEF Current
<1>2. /\ ServerName(i) \notin LocationNames(i)
      /\ \A j \in x.ingresses \ {i} : i.name # j.name /\ AllNames(i) \cap AllNames(j) = {}
  BY <1>1 DEF NamesApart
<1> QED
  BY <1>1, <1>2

(* A name is new while not every place has its resource.                     *)
LEMMA FewUsed ==
    ASSUME TypeInv, PlacesInv, ing # Idle, NEW x \in Places(ing), x \notin Done(ing)
    PROVE  IsFiniteSet(UsedNames) /\ Cardinality(UsedNames) < Len(Suffixes)
<1>1. IsIngress(ing) /\ ing \in Users /\ ing \in Current
  BY InputIs DEF TypeInv, Current
<1>2. IsFiniteSet(Places(ing))
  BY <1>1, PlacesFinite
<1> PICK D : D = Done(ing)
  OBVIOUS
<1> PICK P : P = Places(ing)
  OBVIOUS
<1>3. D \subseteq P /\ D # P
  BY DEF Done
<1>4. /\ IsFiniteSet(D) /\ Cardinality(D) <= Cardinality(P)
      /\ Cardinality(D) # Cardinality(P)
      /\ Cardinality(D) \in Nat /\ Cardinality(P) \in Nat
  <2>1. /\ IsFiniteSet(P)
        /\ IsFiniteSet(D) /\ Cardinality(D) <= Cardinality(P)
        /\ Cardinality(P) = Cardinality(D) => P = D
    BY <1>2, <1>3, FS_Subset
  <2> QED
    BY <1>3, <2>1, FS_CardinalityType
<1>5. PICK f \in [D -> Made(ing)] : \A r \in Made(ing) : \E y \in D : f[y] = r
  BY <1>1 DEF PlacesInv, Assigned
<1> DEFINE g == [y \in D |-> f[y].name]
           S == {g[y] : y \in D}
<1>6. g \in Surjection(D, S)
  BY DEF Surjection
<1>7. \A r \in Made(ing) : r.name \in S
  BY <1>5
<1> HIDE DEF g, S
<1>8. IsFiniteSet(S) /\ Cardinality(S) <= Cardinality(D)
  BY <1>4, <1>6, FS_Surjection
<1>9. UsedNames \subseteq S
  <2> SUFFICES ASSUME NEW c \in DOMAIN confs PROVE confs[c].name \in S
    BY DEF UsedNames
  <2>1. Written(confs[c]).name = confs[c].name
    BY WrittenIs DEF TypeInv, ConfsInv, SameButRoute
  <2>2. Written(confs[c]) \in Made(ing)
    BY DEF Made, Pending
  <2> QED
    BY <1>7, <2>1, <2>2
<1>10. /\ IsFiniteSet(UsedNames) /\ Cardinality(UsedNames) <= Cardinality(S)
       /\ Cardinality(UsedNames) \in Nat /\ Cardinality(S) \in Nat
  BY <1>8, <1>9, FS_Subset, FS_CardinalityType
<1>11. Cardinality(P) <= Len(Suffixes) /\ Len(Suffixes) \in Nat
  BY <1>1, SuffixesAssumption
<1> QED
  BY <1>4, <1>8, <1>10, <1>11

LEMMA JoinedIs ==
    ASSUME NEW S, NEW a \in Seq(S), NEW b \in Seq(S), NEW w \in S
    PROVE  a \o b \o <<>> \in Seq(S) /\ a \o b \o <<w>> \in Seq(S)
<1>1. <<w>> \in Seq(S) /\ <<>> \in Seq(S)
  OBVIOUS
<1>2. a \o b \in Seq(S)
  BY ConcatProperties
<1> QED
  BY <1>1, <1>2, ConcatProperties

LEMMA BaseNameIs ==
    ASSUME NEW i, IsIngress(i), NEW x \in Places(i), At(i, x) \in UserPaths
    PROVE  /\ BaseName(i, At(i, x)) \in Seq(STRING)
           /\ LET base == BaseName(i, At(i, x))
              IN  {base} \cup {Append(base, Suffixes[k]) : k \in DOMAIN Suffixes} \subseteq LocationNames(i)
<1>1. BaseName(i, At(i, x)) \in Seq(STRING)
  <2> PICK path : path = At(i, x)
    OBVIOUS
  <2>1. path.service \in DOMAIN Dashed /\ path.path \in DOMAIN Stripped
    BY DEF UserPaths
  <2>2. Dashed[path.service] \in Seq(STRING) /\ Stripped[path.path] \in STRING
    BY <2>1, InputsAssumption
  <2>3. i.name \in Seq(STRING)
    BY DEF IsIngress
  <2>4. \/ BaseName(i, path) = i.name \o Dashed[path.service] \o <<>>
        \/ BaseName(i, path) = i.name \o Dashed[path.service] \o <<Stripped[path.path]>>
    BY DEF BaseName
  <2> QED
    BY <2>2, <2>3, <2>4, JoinedIs
<1>2. \A y \in Places(i) :
        {BaseName(i, At(i, y))} \cup {Append(BaseName(i, At(i, y)), Suffixes[k]) : k \in DOMAIN Suffixes}
            \subseteq LocationNames(i)
  BY DEF LocationNames
<1> QED
  BY <1>1, <1>2

LEMMA NewName ==
    ASSUME TypeInv, PlacesInv, Splitting, loc \in 1..Len(Server.locations),
           NEW c, c = LocationConf(Server.locations[loc]),
           NEW x, SlotIsFor(ing, srv, loc, x)
    PROVE  x \notin Done(ing) /\ c.name \notin UsedNames /\ c.name \in LocationNames(ing)
<1>1. /\ IsIngress(ing) /\ ing # Idle /\ srv \in DOMAIN Servers(ing) /\ Server = Servers(ing)[srv]
      /\ Len(Server.locations) \in Nat
  BY ServerHas DEF TypeInv
<1>2. srv \in Nat /\ loc \in Nat
  BY <1>1, ServerIs, RulesAre DEF TypeInv, PlaceInv
<1>3. x \in Places(ing) /\ SlotOf(ing, x) = <<srv, loc>> /\ At(ing, x) \in UserPaths
      /\ IsAt(ing, x, Server.locations[loc])
  BY <1>1 DEF SlotIsFor
<1>4. x \notin Done(ing)
  BY <1>2, <1>3 DEF Done, Before
<1>5. IsFiniteSet(UsedNames) /\ Cardinality(UsedNames) < Len(Suffixes)
  BY <1>1, <1>3, <1>4, FewUsed
<1> PICK base : base = BaseName(ing, At(ing, x))
  OBVIOUS
<1>6. /\ base \in Seq(STRING)
      /\ {base} \cup {Append(base, Suffixes[k]) : k \in DOMAIN Suffixes} \subseteq LocationNames(ing)
  BY <1>1, <1>3, BaseNameIs
<1>7. BaseName(ing, Server.locations[loc]) = base
  BY <1>3 DEF IsAt, BaseName
<1>8. c.name = UniqueName(base, UsedNames)
  BY <1>7, LocationConfIs
<1> QED
  BY <1>4, <1>5, <1>6, <1>8, UniqueNameIsNew

LEMMA NamesInvHolds ==
    ASSUME NamesApart(Inputs), TypeInv, NamesInv, PlacesInv, [Next]_vars
    PROVE  NamesInv'
<1> USE DEF TypeInv
<1>1. CASE UNCHANGED <<confs, ing, store, infos>> /\ (Splitting' => Splitting)
  BY <1>1 DEF NamesInv, Current
<1>2. CASE Start
  <2> PICK i \in todo : ing' = i
    BY <1>2 DEF Start
  <2>1. ing = Idle /\ UNCHANGED <<store, infos>> /\ confs' = <<>>
    BY <1>2 DEF Start
  <2>2. ing' # Idle
    BY InputIs, IdleIsNoUser
  <2>3. Current = infos /\ Current' = infos \cup {ing'}
    BY <2>1, <2>2 DEF Current
  <2>4. ASSUME NEW n \in DOMAIN store
        PROVE  /\ store[n].of # ing'.name
               /\ \E j \in Current' :
                     /\ store[n].of = j.name
                     /\ \/ store[n].kind = "location" /\ n \in LocationNames(j)
                        \/ store[n].kind = "server" /\ n = ServerName(j) /\ j \in infos'
    <3> PICK j \in infos :
               /\ store[n].of = j.name
               /\ \/ store[n].kind = "location" /\ n \in LocationNames(j)
                  \/ store[n].kind = "server" /\ n = ServerName(j) /\ j \in infos
      BY <2>3 DEF NamesInv
    <3>1. i # j
      BY DEF PlaceInv
    <3>2. i.name # j.name
      BY <3>1, ApartIs DEF Current
    <3> QED
      BY <2>1, <2>3, <3>2
  <2> QED
    BY <2>1, <2>2, <2>4, EmptyIs DEF NamesInv
<1>3. CASE AddLocation
  <2>1. /\ Splitting /\ loc \in 1..Len(Server.locations)
        /\ confs' = Append(confs, LocationConf(Server.locations[loc]))
        /\ UNCHANGED <<ing, servers, srv, store, infos>>
    BY <1>3 DEF AddLocation
  <2>2. PICK x \in Places(ing) : SlotIsFor(ing, srv, loc, x)
    BY <2>1, ServerHas
  <2>3. PICK c : c = LocationConf(Server.locations[loc])
    OBVIOUS
  <2>4. c.name \notin UsedNames /\ c.name \in LocationNames(ing) /\ c.of = ing.name
    BY <2>1, <2>2, <2>3, NewName, LocationConfIs
  <2>5. ing # Idle /\ ing \in Current
    BY <2>1, ServerHas DEF Current
  <2>6. c.name \notin DOMAIN store
    <3> SUFFICES ASSUME c.name \in DOMAIN store PROVE FALSE
      OBVIOUS
    <3> PICK j \in Current : /\ store[c.name].of = j.name
                             /\ c.name \in LocationNames(j) \cup {ServerName(j)}
      BY DEF NamesInv
    <3>1. j # ing
      BY <2>1 DEF NamesInv
    <3>2. c.name \in AllNames(j) \cap AllNames(ing)
      BY <2>4 DEF AllNames
    <3> QED
      BY <2>5, <3>1, <3>2, ApartIs
  <2>7. /\ DOMAIN confs' = 1..(Len(confs) + 1) /\ DOMAIN confs = 1..Len(confs)
        /\ confs'[Len(confs) + 1] = c /\ \A k \in 1..Len(confs) : confs'[k] = confs[k]
        /\ Len(confs) \in Nat
    BY <2>1, <2>3, AppendIs DEF ConfsInv, IsSequence
  <2>8. \A k \in DOMAIN confs : confs[k].name # c.name
    BY <2>4 DEF UsedNames
  <2>9. \A d, e \in DOMAIN confs' : confs'[d].name = confs'[e].name => d = e
    <3> SUFFICES ASSUME NEW d \in DOMAIN confs', NEW e \in DOMAIN confs', confs'[d].name = confs'[e].name
                 PROVE  d = e
      OBVIOUS
    <3>1. d \in DOMAIN confs /\ e \in DOMAIN confs => d = e
      BY <2>7 DEF NamesInv
    <3> QED
      BY <2>7, <2>8, <3>1
  <2>10. \A d \in DOMAIN confs' :
            /\ confs'[d].of = ing.name /\ confs'[d].name \in LocationNames(ing)
            /\ confs'[d].name \notin DOMAIN store
    <3> SUFFICES ASSUME NEW d \in DOMAIN confs'
                 PROVE  /\ confs'[d].of = ing.name /\ confs'[d].name \in LocationNames(ing)
                        /\ confs'[d].name \notin DOMAIN store
      OBVIOUS
    <3>1. CASE d = Len(confs) + 1
      BY <2>4, <2>6, <2>7, <3>1
    <3>2. CASE d \in DOMAIN confs
      BY <2>7, <3>2 DEF NamesInv
    <3> QED
      BY <2>7, <3>1, <3>2
  <2>11. Splitting' /\ Current' = Current
    BY <2>1 DEF Splitting, Current
  <2> QED
    BY <2>1, <2>5, <2>9, <2>10, <2>11 DEF NamesInv
<1>4. CASE Apply
  <2>1. /\ ing # Idle /\ srv > Len(servers) /\ confs # <<>>
        /\ store' = Put(store, Head(confs).name, Written(Head(confs))) /\ confs' = Tail(confs)
        /\ UNCHANGED <<ing, servers, srv, infos>>
    BY <1>4 DEF Apply
  <2>2. /\ Len(confs) \in Nat /\ Len(confs) > 0 /\ DOMAIN confs = 1..Len(confs)
        /\ DOMAIN confs' = 1..(Len(confs) - 1) /\ Head(confs) = confs[1]
        /\ \A k \in 1..(Len(confs) - 1) : confs'[k] = confs[k + 1]
    BY <2>1, TailIs DEF ConfsInv, IsSequence
  <2>3. PICK c : c = confs[1]
    OBVIOUS
  <2>4. PICK w : w = Written(c)
    OBVIOUS
  <2>5. 1 \in DOMAIN confs
    BY <2>2
  <2>6. /\ w.name = c.name /\ w.of = ing.name /\ w.kind = "location" /\ c.name \in LocationNames(ing)
        /\ c.name \notin DOMAIN store
    BY <2>3, <2>4, <2>5, WrittenIs DEF NamesInv, ConfsInv, SameButRoute
  <2>7. store' = Put(store, c.name, w)
    BY <2>1, <2>2, <2>3, <2>4
  <2>8. /\ DOMAIN store' = DOMAIN store \cup {c.name} /\ store'[c.name] = w
        /\ \A n \in DOMAIN store : store'[n] = store[n]
    BY <2>6, <2>7 DEF Put
  <2>9. \A d, e \in DOMAIN confs' : confs'[d].name = confs'[e].name => d = e
    <3> SUFFICES ASSUME NEW d \in DOMAIN confs', NEW e \in DOMAIN confs', confs'[d].name = confs'[e].name
                 PROVE  d = e
      OBVIOUS
    <3>1. /\ d + 1 \in DOMAIN confs /\ e + 1 \in DOMAIN confs
          /\ confs'[d] = confs[d + 1] /\ confs'[e] = confs[e + 1]
      BY <2>2
    <3>2. d + 1 = e + 1
      BY <3>1 DEF NamesInv
    <3> QED
      BY <2>2, <3>2
  <2>10. \A d \in DOMAIN confs' :
            /\ confs'[d].of = ing.name /\ confs'[d].name \in LocationNames(ing)
            /\ confs'[d].name \notin DOMAIN store'
    <3> SUFFICES ASSUME NEW d \in DOMAIN confs'
                 PROVE  /\ confs'[d].of = ing.name /\ confs'[d].name \in LocationNames(ing)
                        /\ confs'[d].name \notin DOMAIN store'
      OBVIOUS
    <3>1. d + 1 \in DOMAIN confs /\ confs'[d] = confs[d + 1] /\ d + 1 # 1
      BY <2>2
    <3>2. confs[d + 1].name # c.name
      BY <2>3, <2>5, <3>1 DEF NamesInv
    <3> QED
      BY <2>8, <3>1, <3>2 DEF NamesInv
  <2>11. ~Splitting' /\ Current' = Current /\ ing \in Current
    <3>1. Len(servers) \in Nat /\ srv \in Nat
      <4>1. IsIngress(ing)
        BY <2>1, InputIs
      <4> QED
        BY <2>1, <4>1, ServerIs, RulesAre DEF PlaceInv
    <3> QED
      BY <2>1, <3>1 DEF Splitting, Current
  <2>12. \A n \in DOMAIN store' : \E i \in Current :
            /\ store'[n].of = i.name
            /\ \/ store'[n].kind = "location" /\ n \in LocationNames(i)
               \/ store'[n].kind = "server" /\ n = ServerName(i) /\ i \in infos
    BY <2>6, <2>8, <2>11 DEF NamesInv
  <2>13. \A i \in infos : ServerName(i) \in DOMAIN store' /\ store'[ServerName(i)].kind = "server"
    BY <2>8 DEF NamesInv
  <2> QED
    BY <2>1, <2>9, <2>10, <2>11, <2>12, <2>13 DEF NamesInv
<1>5. CASE FinishIngress
  <2>1. /\ ing # Idle /\ confs = <<>> /\ store' = Put(store, ServerName(ing), ServerConf)
        /\ infos' = infos \cup {ing} /\ ing' = Idle /\ UNCHANGED confs
    BY <1>5 DEF FinishIngress
  <2>2. ServerConf.of = ing.name /\ ServerConf.kind = "server"
    BY DEF ServerConf
  <2>3. Current' = Current
    BY <2>1 DEF Current
  <2>4. /\ DOMAIN store' = DOMAIN store \cup {ServerName(ing)} /\ store'[ServerName(ing)] = ServerConf
        /\ \A n \in DOMAIN store : n # ServerName(ing) => store'[n] = store[n]
    BY <2>1 DEF Put
  <2>5. ASSUME NEW n \in DOMAIN store'
        PROVE  \E i \in Current :
                  /\ store'[n].of = i.name
                  /\ \/ store'[n].kind = "location" /\ n \in LocationNames(i)
                     \/ store'[n].kind = "server" /\ n = ServerName(i) /\ i \in infos'
    <3>1. CASE n = ServerName(ing)
      BY <2>1, <2>2, <2>4, <3>1 DEF Current
    <3>2. CASE n # ServerName(ing)
      BY <2>1, <2>4, <3>2 DEF NamesInv
    <3> QED
      BY <3>1, <3>2
  <2>6. \A i \in infos' : ServerName(i) \in DOMAIN store' /\ store'[ServerName(i)].kind = "server"
    BY <2>1, <2>2, <2>4 DEF NamesInv
  <2>7. ~Splitting'
    BY <2>1 DEF Splitting
  <2> QED
    BY <2>1, <2>3, <2>5, <2>6, <2>7, EmptyIs DEF NamesInv
<1>6. CASE Reject \/ ParserPanic \/ UNCHANGED vars
  <2>1. UNCHANGED <<confs, ing, store, infos, servers, srv>>
    BY <1>6 DEF Reject, ParserPanic, vars, splitVars
  <2> QED
    BY <1>1, <2>1 DEF Splitting
<1>7. CASE StartServer \/ EndServer
  BY <1>1, <1>7 DEF StartServer, EndServer
<1> QED
  BY <1>2, <1>3, <1>4, <1>5, <1>6, <1>7 DEF Next, Stopped

-----------------------------------------------------------------------------
LEMMA SlotIsPair ==
    ASSUME NEW i, IsIngress(i), NEW x \in Places(i)
    PROVE  SlotOf(i, x) = <<SlotOf(i, x)[1], SlotOf(i, x)[2]>>
<1>1. CASE OnlyBackend(i)
  BY <1>1, BackendPlaces DEF SlotOf
<1>2. CASE ~OnlyBackend(i)
  <2> PICK r \in DOMAIN i.rules : x = <<r, 0>> \/ \E p \in DOMAIN i.rules[r].paths : x = <<r, p>>
    BY <1>2, RulePlaces
  <2> QED
    BY DEF SlotOf
<1> QED
  BY <1>1, <1>2

(* Where the places of the Ingress that is split are.                        *)
LEMMA SlotIs ==
    ASSUME TypeInv, ing # Idle, NEW x \in Places(ing)
    PROVE  /\ SlotOf(ing, x)[1] \in 1..Len(servers)
           /\ SlotOf(ing, x)[2] \in 1..Len(servers[SlotOf(ing, x)[1]].locations)
<1>1. IsIngress(ing) /\ servers = Servers(ing)
  BY InputIs DEF TypeInv, PlaceInv
<1>2. SlotOf(ing, x)[1] \in DOMAIN Servers(ing) /\ DOMAIN Servers(ing) = 1..Len(Servers(ing))
  BY <1>1, PlaceHasSlot, ServerIs
<1> QED
  BY <1>1, <1>2, SlotsOfServer

(* No other place has the slot that is next.                                 *)
LEMMA OnePlace ==
    ASSUME TypeInv, Splitting, NEW x, SlotIsFor(ing, srv, loc, x), NEW y \in Places(ing),
           SlotOf(ing, y)[1] = srv, SlotOf(ing, y)[2] = loc
    PROVE  y = x
<1>1. IsIngress(ing) /\ srv \in DOMAIN Servers(ing)
  BY ServerHas DEF TypeInv
<1>2. SlotOf(ing, y) = <<srv, loc>> /\ SlotOf(ing, x) = <<srv, loc>> /\ x \in Places(ing)
  BY <1>1, SlotIsPair DEF SlotIsFor
<1> QED
  BY <1>1, <1>2, SlotsOfServer

LEMMA NumbersAre ==
    ASSUME TypeInv, ing # Idle
    PROVE  Len(servers) \in Nat /\ srv \in Nat /\ loc \in Nat
<1>1. IsIngress(ing) /\ servers = Servers(ing)
  BY InputIs DEF TypeInv, PlaceInv
<1>2. Len(servers) \in Nat
  BY <1>1, ServerIs, RulesAre
<1> QED
  BY <1>2 DEF TypeInv, PlaceInv

LEMMA NoModifier ==
    ASSUME NEW i, Convertible(i), ~Enhancements, NEW service
    PROVE  Modifier(i, service) # "'='"
<1> PICK map : map = GetAnnotationMap(i, "location-modifier", "Modifier")
  OBVIOUS
<1>1. Range(map) \cap Unsupported = {} /\ "'='" \in Unsupported
  BY DEF Convertible, Unsupported
<1>2. Lookup(map, service) \in Range(map) \cup {""}
  BY DEF Lookup, Range
<1> QED
  BY <1>1, <1>2 DEF Modifier

(* Before 1.18 no path has a type.                                           *)
LEMMA NoPathType ==
    ASSUME InputInv, NEW i \in Current, api.version < 118, NEW x \in Places(i)
    PROVE  At(i, x).pathType = ""
<1> PICK input \in Inputs : i \in input.ingresses /\ api = input.api
  BY DEF InputInv, Current
<1>0. IsIngress(i)
  BY InputIs DEF Current
<1>1. IsIngress(i) /\ \A r \in DOMAIN i.rules : \A p \in DOMAIN i.rules[r].paths :
                          i.rules[r].paths[p].pathType = ""
  BY InputsAssumption
<1>2. CASE x[2] = 0
  BY <1>2 DEF At
<1>3. CASE x[2] # 0
  <2>1. ~OnlyBackend(i)
    <3>1. <<0, 0>>[2] = 0
      OBVIOUS
    <3>2. OnlyBackend(i) => x = <<0, 0>>
      BY <1>0, BackendPlaces
    <3> QED
      BY <1>3, <3>1, <3>2
  <2>2. PICK r \in DOMAIN i.rules : x = <<r, 0>> \/ \E p \in DOMAIN i.rules[r].paths : x = <<r, p>>
    BY <1>0, <2>1, RulePlaces
  <2>3. PICK p \in DOMAIN i.rules[r].paths : x = <<r, p>>
    <3>1. <<r, 0>>[2] = 0
      OBVIOUS
    <3> QED
      BY <1>3, <2>2, <3>1
  <2>4. x[1] = r /\ x[2] = p /\ i.rules[r].paths[p] \in UserPaths
    <3>1. x[1] = r /\ x[2] = p
      BY <2>3
    <3> QED
      BY <1>0, <3>1, RulesAre
  <2>5. At(i, x).pathType = i.rules[x[1]].paths[x[2]].pathType
    BY <1>3, <2>4, PathIsAt
  <2> QED
    BY <1>1, <2>4, <2>5
<1> QED
  BY <1>2, <1>3

(* A location resource keeps the path type, and the port if YAML lets it.    *)
LEMMA RouteOfConf ==
    ASSUME TypeInv, Splitting, NEW x \in Places(ing), NEW location, IsAt(ing, x, location),
           At(ing, x) \in UserPaths, NEW c, IsConf(c), c.port = location.port,
           c.pathType = location.pathType, api.discovered
    PROVE  /\ At(ing, x).port.name \notin DOMAIN YamlNumbers => Written(c).port = At(ing, x).port
           /\ SamePathType(Written(c).pathType,
                 IF Modifier(ing, At(ing, x).service) = "'='" THEN "Exact" ELSE At(ing, x).pathType)
<1>1. ing # Idle /\ ing \in Current /\ Convertible(ing) /\ InputInv
  BY ServerHas DEF TypeInv, PlaceInv, Current
<1> PICK at : at = At(ing, x)
  OBVIOUS
<1> PICK type : type = IF Modifier(ing, at.service) = "'='" THEN "Exact" ELSE at.pathType
  OBVIOUS
<1>2. api.version \in Nat
  BY <1>1, InputIs
<1>3. at.pathType \in {"", "Exact", "Prefix", "ImplementationSpecific"}
  BY DEF UserPaths
<1>4. c.port = at.port /\ c.pathType = IF Enhancements THEN type ELSE ""
  BY DEF IsAt, CalcPathType
<1>5. /\ c.port.name \notin DOMAIN YamlNumbers => Written(c).port = c.port
      /\ Written(c).pathType = IF V1Only /\ c.pathType \notin {"Exact", "Prefix"}
                               THEN "ImplementationSpecific" ELSE c.pathType
  BY WrittenIs
<1>6. CASE Enhancements
  BY <1>3, <1>4, <1>5, <1>6 DEF SamePathType
<1>7. CASE ~Enhancements
  <2>1. ~V1Only /\ api.version < 118
    BY <1>2, <1>7 DEF V1Only, Enhancements
  <2>2. type = ""
    BY <1>1, <1>7, <2>1, NoModifier, NoPathType
  <2> QED
    BY <1>4, <1>5, <1>7, <2>1, <2>2 DEF SamePathType
<1> QED
  BY <1>6, <1>7

(* What is made for a location fits its place.                               *)
LEMMA ConfFits ==
    ASSUME TypeInv, ServerInv, Splitting, loc \in 1..Len(Server.locations),
           NEW c, c = LocationConf(Server.locations[loc]),
           NEW x, SlotIsFor(ing, srv, loc, x)
    PROVE  Fits(ing, x, Written(c))
<1>1. ing # Idle /\ Server = Servers(ing)[srv] /\ Len(Server.locations) \in Nat
  BY ServerHas DEF TypeInv
<1> PICK location : location = Server.locations[loc]
  OBVIOUS
<1>2. /\ x \in Places(ing) /\ IsAt(ing, x, location) /\ At(ing, x) \in UserPaths
      /\ Server.host = HostOf(ing, x)
  BY <1>1 DEF SlotIsFor
<1>3. /\ IsConf(c) /\ c.kind = "location" /\ c.of = ing.name /\ c.hosts = {host}
      /\ c.path = location.path /\ c.service = location.service /\ c.port = location.port
      /\ c.pathType = location.pathType /\ c.settings = location.settings
      /\ c.tls = IF Secret = NoSecret THEN EmptyMap ELSE Put(EmptyMap, Secret, {host})
  BY LocationConfIs
<1> PICK w : w = Written(c)
  OBVIOUS
<1>4. /\ w.kind = c.kind /\ w.of = c.of /\ w.hosts = c.hosts /\ w.path = c.path
      /\ w.service = c.service /\ w.settings = c.settings /\ w.tls = c.tls
  BY <1>3, WrittenIs DEF SameButRoute
<1>5. mode \notin TestModes => host = <<"user", Server.host>>
  BY <1>1 DEF ServerInv
<1>6. Secret = SecretFor(ing, host)
  BY <1>5 DEF Secret, SecretFor
<1>7. mode \notin TestModes => w.hosts = {<<"user", HostOf(ing, x)>>}
  BY <1>2, <1>3, <1>4, <1>5
<1>8. \E h \in w.hosts : w.hosts = {h} /\ w.tls = OneSecret(SecretFor(ing, h), h)
  BY <1>3, <1>4, <1>6 DEF OneSecret
<1>9. api.discovered =>
          /\ At(ing, x).port.name \notin DOMAIN YamlNumbers => w.port = At(ing, x).port
          /\ SamePathType(w.pathType,
                IF Modifier(ing, At(ing, x).service) = "'='" THEN "Exact" ELSE At(ing, x).pathType)
  BY <1>2, <1>3, RouteOfConf
<1>10. /\ w.path = At(ing, x).path /\ w.service = At(ing, x).service
       /\ w.settings = LocationAnnotations(ing, At(ing, x).service)
  BY <1>2, <1>3, <1>4 DEF IsAt
<1> QED
  BY <1>3, <1>4, <1>7, <1>8, <1>9, <1>10 DEF Fits

(* The name of the server resource is new, too.                              *)
LEMMA ServerNameIsNew ==
    ASSUME NamesApart(Inputs), TypeInv, NamesInv, ing # Idle
    PROVE  ServerName(ing) \notin DOMAIN store
<1> SUFFICES ASSUME ServerName(ing) \in DOMAIN store PROVE FALSE
  OBVIOUS
<1>1. ing \in Current /\ InputInv
  BY DEF Current, TypeInv
<1> PICK n : n = ServerName(ing)
  OBVIOUS
<1>2. PICK j \in Current : \/ n \in LocationNames(j)
                           \/ n = ServerName(j) /\ j \in infos
  BY DEF NamesInv
<1>3. CASE j = ing
  BY <1>1, <1>2, <1>3, ApartIs DEF TypeInv, PlaceInv
<1>4. CASE j # ing
  <2>1. n \in AllNames(j) /\ n \in AllNames(ing)
    BY <1>2 DEF AllNames
  <2> QED
    BY <1>1, <1>4, <2>1, ApartIs
<1> QED
  BY <1>3, <1>4

(* To store a resource of a new name changes what is stored of its Ingress.  *)
LEMMA StoredIs ==
    ASSUME NEW name, name \notin DOMAIN store, NEW r, store' = Put(store, name, r), NEW i
    PROVE  \A s : s \in Stored(i)' <=>
                     s \in Stored(i) \/ (s = r /\ r.of = i.name /\ r.kind = "location")
<1>1. /\ DOMAIN store' = DOMAIN store \cup {name} /\ store'[name] = r
      /\ \A n \in DOMAIN store : store'[n] = store[n]
  BY DEF Put
<1>2. \A s : s \in Stored(i)' <=>
                \E n \in DOMAIN store' : store'[n] = s /\ s.of = i.name /\ s.kind = "location"
  BY DEF Stored
<1>3. \A s : s \in Stored(i) <=>
                \E n \in DOMAIN store : store[n] = s /\ s.of = i.name /\ s.kind = "location"
  BY DEF Stored
<1> QED
  BY <1>1, <1>2, <1>3

(* What is still to be written, before and after a resource more.            *)
LEMMA PendingGrows ==
    ASSUME ConfsInv, NEW c, confs' = Append(confs, c), UNCHANGED api
    PROVE  \A s : s \in Pending' <=> s \in Pending \/ s = Written(c)
<1>1. /\ DOMAIN confs' = 1..(Len(confs) + 1) /\ DOMAIN confs = 1..Len(confs)
      /\ confs'[Len(confs) + 1] = c /\ \A k \in 1..Len(confs) : confs'[k] = confs[k]
      /\ Len(confs) \in Nat
  BY AppendIs DEF ConfsInv, IsSequence
<1>2. \A d : Written(d)' = Written(d)
  BY DEF Written, V1Only
<1>3. \A s : s \in Pending' <=> \E k \in DOMAIN confs' : s = Written(confs'[k])
  BY <1>2 DEF Pending
<1>4. \A s : s \in Pending <=> \E k \in DOMAIN confs : s = Written(confs[k])
  BY DEF Pending
<1>5. DOMAIN confs' = DOMAIN confs \cup {Len(confs) + 1}
  BY <1>1
<1>6. \A s : s \in Pending' <=> (\E k \in DOMAIN confs : s = Written(confs'[k])) \/ s = Written(c)
  BY <1>1, <1>3, <1>5
<1> QED
  BY <1>1, <1>4, <1>6

LEMMA PendingShrinks ==
    ASSUME ConfsInv, confs # <<>>, confs' = Tail(confs), UNCHANGED api
    PROVE  /\ Head(confs) = confs[1] /\ 1 \in DOMAIN confs
           /\ \A s : s \in Pending <=> s \in Pending' \/ s = Written(confs[1])
<1>1. /\ Len(confs) \in Nat /\ Len(confs) > 0 /\ DOMAIN confs = 1..Len(confs)
      /\ DOMAIN confs' = 1..(Len(confs) - 1) /\ Head(confs) = confs[1]
      /\ \A k \in 1..(Len(confs) - 1) : confs'[k] = confs[k + 1]
  BY TailIs DEF ConfsInv, IsSequence
<1>2. \A d : Written(d)' = Written(d)
  BY DEF Written, V1Only
<1>3. \A s : s \in Pending' <=> \E k \in DOMAIN confs' : s = Written(confs'[k])
  BY <1>2 DEF Pending
<1>4. \A s : s \in Pending <=> \E k \in DOMAIN confs : s = Written(confs[k])
  BY DEF Pending
<1>5. 1 \in DOMAIN confs
  BY <1>1
<1>6. \A k \in DOMAIN confs' : k + 1 \in DOMAIN confs /\ confs'[k] = confs[k + 1]
  BY <1>1
<1>7. ASSUME NEW k \in DOMAIN confs, k # 1
      PROVE  k - 1 \in DOMAIN confs' /\ confs'[k - 1] = confs[k]
  <2>1. k - 1 \in 1..(Len(confs) - 1) /\ k - 1 + 1 = k
    BY <1>1, <1>7
  <2> QED
    BY <1>1, <2>1
<1>8. \A s : s \in Pending' => s \in Pending
  BY <1>3, <1>4, <1>6
<1>9. \A s : s \in Pending => s \in Pending' \/ s = Written(confs[1])
  BY <1>3, <1>4, <1>7
<1> QED
  BY <1>1, <1>4, <1>5, <1>8, <1>9

LEMMA AllDone ==
    ASSUME TypeInv, ing # Idle, srv > Len(servers)
    PROVE  Done(ing) = Places(ing)
<1>1. Len(servers) \in Nat /\ srv \in Nat
  BY NumbersAre
<1>2. ASSUME NEW x \in Places(ing) PROVE Before(SlotOf(ing, x))
  <2>1. SlotOf(ing, x)[1] \in 1..Len(servers)
    BY SlotIs
  <2> QED
    BY <1>1, <2>1 DEF Before
<1> QED
  BY <1>2 DEF Done

(* The places that are done are the same but when a location is added.       *)
LEMMA DoneStays ==
    ASSUME TypeInv, StartServer \/ EndServer
    PROVE  Done(ing)' = Done(ing)
<1>1. Splitting /\ ing' = ing /\ ing # Idle
  BY ServerHas DEF StartServer, EndServer, TypeInv
<1>2. Len(servers) \in Nat /\ srv \in Nat /\ loc \in Nat /\ srv <= Len(servers)
      /\ Server = servers[srv] /\ Len(Server.locations) \in Nat
  BY <1>1, NumbersAre, ServerHas DEF Splitting, Server, TypeInv
<1>3. ASSUME NEW x \in Places(ing)
      PROVE  /\ SlotOf(ing, x)[1] \in Nat
             /\ SlotOf(ing, x)[2] \in Int /\ SlotOf(ing, x)[2] > 0
             /\ SlotOf(ing, x)[1] = srv => SlotOf(ing, x)[2] <= Len(Server.locations)
  <2>1. SlotOf(ing, x)[1] \in 1..Len(servers)
        /\ SlotOf(ing, x)[2] \in 1..Len(servers[SlotOf(ing, x)[1]].locations)
    BY <1>1, SlotIs
  <2> QED
    BY <1>2, <2>1
<1> DEFINE B(x, s, l) == SlotOf(ing, x)[1] < s \/ (SlotOf(ing, x)[1] = s /\ SlotOf(ing, x)[2] < l)
<1>4. ASSUME NEW x \in Places(ing) PROVE B(x, srv', loc') <=> B(x, srv, loc)
  <2> PICK a : a = SlotOf(ing, x)[1]
    OBVIOUS
  <2> PICK b : b = SlotOf(ing, x)[2]
    OBVIOUS
  <2>1. a \in Nat /\ b \in Int /\ b > 0 /\ (a = srv => b <= Len(Server.locations))
    BY <1>3
  <2>2. CASE StartServer
    <3>1. loc = 0 /\ loc' = 1 /\ srv' = srv
      BY <2>2 DEF StartServer
    <3> QED
      BY <1>2, <2>1, <3>1
  <2>3. CASE EndServer
    <3>1. loc > Len(Server.locations) /\ loc' = 0 /\ srv' = srv + 1
      BY <2>3 DEF EndServer
    <3>2. a = srv => b < loc
      BY <1>2, <2>1, <3>1
    <3> QED
      BY <1>2, <2>1, <3>1, <3>2
  <2> QED
    BY <2>2, <2>3
<1>5. Done(ing) = {x \in Places(ing) : B(x, srv, loc)}
  BY DEF Done, Before
<1>6. Done(ing)' = {x \in Places(ing) : B(x, srv', loc')}
  BY <1>1 DEF Done, Before
<1> QED
  BY <1>4, <1>5, <1>6

(* What is made of an Ingress changes only when a location is added.         *)
NoLocation ==
    Reject \/ ParserPanic \/ Start \/ StartServer \/ EndServer \/ Apply \/ FinishIngress \/ UNCHANGED vars

LEMMA MadeStays ==
    ASSUME NamesApart(Inputs), TypeInv, NamesInv, NoLocation, NEW i \in Current
    PROVE  \A r : r \in Made(i)' <=> r \in Made(i)
<1>1. UNCHANGED api
  BY DEF NoLocation, vars, Reject, ParserPanic, Start, StartServer, EndServer, Apply, FinishIngress
<1>2. \A r : r \in Made(i)' <=> r \in Stored(i)' \/ (i = ing' /\ r \in Pending')
  BY DEF Made
<1>3. \A r : r \in Made(i) <=> r \in Stored(i) \/ (i = ing /\ r \in Pending)
  BY DEF Made
<1>4. UNCHANGED store => Stored(i)' = Stored(i)
  BY DEF Stored
<1>5. UNCHANGED confs => Pending' = Pending
  BY <1>1 DEF Pending, Written, V1Only
<1>6. i # Idle
  BY IdleIsNoUser, InputIs DEF TypeInv, Current
<1>7. CASE Reject \/ ParserPanic \/ StartServer \/ EndServer \/ UNCHANGED vars
  <2>1. UNCHANGED <<confs, ing, store>>
    BY <1>7 DEF Reject, ParserPanic, StartServer, EndServer, vars, splitVars
  <2> QED
    BY <1>2, <1>3, <1>4, <1>5, <2>1
<1>8. CASE Start
  <2>1. ing = Idle /\ UNCHANGED store /\ ing' \in todo
    BY <1>8 DEF Start
  <2>2. i # ing' /\ i # ing
    BY <1>6, <2>1 DEF TypeInv, PlaceInv, Current
  <2> QED
    BY <1>2, <1>3, <1>4, <2>1, <2>2
<1>9. CASE FinishIngress
  <2>1. /\ ing # Idle /\ confs = <<>> /\ store' = Put(store, ServerName(ing), ServerConf) /\ ing' = Idle
    BY <1>9 DEF FinishIngress
  <2>2. ServerName(ing) \notin DOMAIN store
    BY <2>1, ServerNameIsNew
  <2> PICK name : name = ServerName(ing)
    OBVIOUS
  <2> PICK r : r = ServerConf
    OBVIOUS
  <2>3. r.kind # "location"
    BY DEF ServerConf
  <2>4. \A s : s \in Stored(i)' <=> s \in Stored(i)
    BY <2>1, <2>2, <2>3, StoredIs
  <2>5. Pending = {}
    BY <2>1, EmptyIs DEF Pending
  <2> QED
    BY <1>2, <1>3, <1>6, <2>1, <2>4, <2>5
<1>10. CASE Apply
  <2>1. /\ ing # Idle /\ confs # <<>>
        /\ store' = Put(store, Head(confs).name, Written(Head(confs))) /\ confs' = Tail(confs)
        /\ UNCHANGED ing
    BY <1>10 DEF Apply
  <2> PICK c : c = confs[1]
    OBVIOUS
  <2> PICK w : w = Written(c)
    OBVIOUS
  <2>2. /\ c = Head(confs) /\ 1 \in DOMAIN confs /\ \A s : s \in Pending <=> s \in Pending' \/ s = w
    BY <1>1, <2>1, PendingShrinks DEF TypeInv
  <2>3. w.of = ing.name /\ w.kind = "location" /\ c.name \notin DOMAIN store
    BY <2>2, WrittenIs DEF NamesInv, TypeInv, ConfsInv, SameButRoute
  <2>4. \A s : s \in Stored(i)' <=> s \in Stored(i) \/ (s = w /\ w.of = i.name /\ w.kind = "location")
    BY <2>1, <2>2, <2>3, StoredIs
  <2>5. CASE i = ing
    BY <1>2, <1>3, <2>1, <2>2, <2>3, <2>4, <2>5
  <2>6. CASE i # ing
    <3>1. w.of # i.name
      BY <2>1, <2>3, <2>6, ApartIs DEF TypeInv, Current
    <3> QED
      BY <1>2, <1>3, <2>1, <2>4, <2>6, <3>1
  <2> QED
    BY <2>5, <2>6
<1> QED
  BY <1>7, <1>8, <1>9, <1>10 DEF NoLocation

LEMMA MadeGrows ==
    ASSUME TypeInv, AddLocation, NEW i \in Current
    PROVE  \A r : r \in Made(i)' <=>
                     r \in Made(i) \/ (i = ing /\ r = Written(LocationConf(Server.locations[loc])))
<1>1. /\ confs' = Append(confs, LocationConf(Server.locations[loc])) /\ UNCHANGED <<ing, store, api>>
  BY DEF AddLocation
<1> PICK c : c = LocationConf(Server.locations[loc])
  OBVIOUS
<1>2. \A s : s \in Pending' <=> s \in Pending \/ s = Written(c)
  BY <1>1, PendingGrows DEF TypeInv
<1>3. Stored(i)' = Stored(i)
  BY <1>1 DEF Stored
<1> QED
  BY <1>1, <1>2, <1>3 DEF Made

LEMMA NothingMade ==
    ASSUME NamesApart(Inputs), TypeInv, NamesInv, Start
    PROVE  Made(ing)' = {}
<1> PICK j \in todo : ing' = j
  BY DEF Start
<1>1. ing = Idle /\ UNCHANGED store /\ confs' = <<>>
  BY DEF Start
<1>2. Current = infos /\ j \notin infos
  BY <1>1 DEF Current, TypeInv, PlaceInv
<1>3. ASSUME NEW n \in DOMAIN store PROVE store[n].of # j.name
  <2> PICK i \in Current : store[n].of = i.name
    BY DEF NamesInv
  <2> QED
    BY <1>2, ApartIs DEF TypeInv
<1>4. Stored(j)' = {}
  BY <1>1, <1>3 DEF Stored
<1>5. Pending' = {}
  BY <1>1, EmptyIs DEF Pending
<1> QED
  BY <1>4, <1>5 DEF Made

(* At the start of an Ingress none of its places is done.                    *)
LEMMA NothingDone ==
    ASSUME TypeInv, Start
    PROVE  Done(ing)' = {}
<1> PICK j \in todo : ing' = j
  BY DEF Start
<1>1. srv' = 1 /\ loc' = 0 /\ IsIngress(j)
  BY InputIs DEF Start, TypeInv
<1> SUFFICES ASSUME NEW x \in Places(j), Before(SlotOf(j, x))' PROVE FALSE
  BY DEF Done
<1> PICK a : a = SlotOf(j, x)[1]
  OBVIOUS
<1> PICK b : b = SlotOf(j, x)[2]
  OBVIOUS
<1>2. a \in DOMAIN Servers(j) /\ DOMAIN Servers(j) = 1..Len(Servers(j)) /\ Len(Servers(j)) \in Nat
  BY <1>1, PlaceHasSlot, ServerIs, RulesAre
<1>3. b \in 1..Len(Servers(j)[a].locations) /\ Len(Servers(j)[a].locations) \in Nat
  BY <1>1, <1>2, SlotsOfServer
<1>4. a < 1 \/ (a = 1 /\ b < 0)
  BY <1>1 DEF Before
<1> QED
  BY <1>2, <1>3, <1>4

(* When a location is added, one place more is done.                         *)
LEMMA OneMoreDone ==
    ASSUME TypeInv, AddLocation, NEW x, SlotIsFor(ing, srv, loc, x)
    PROVE  \A y : y \in Done(ing)' <=> y \in Done(ing) \/ y = x
<1>1. Splitting /\ UNCHANGED <<ing, srv>> /\ loc' = loc + 1
  BY DEF AddLocation
<1>2. srv \in Nat /\ loc \in Nat /\ ing # Idle
  BY <1>1, NumbersAre, ServerHas DEF TypeInv
<1>3. SlotOf(ing, x) = <<srv, loc>> /\ x \in Places(ing)
  BY DEF SlotIsFor
<1>4. SlotOf(ing, x)[1] = srv /\ SlotOf(ing, x)[2] = loc
  BY <1>3
<1>5. ASSUME NEW y \in Places(ing)
      PROVE  Before(SlotOf(ing, y))' <=> Before(SlotOf(ing, y)) \/ y = x
  <2> PICK a : a = SlotOf(ing, y)[1]
    OBVIOUS
  <2> PICK b : b = SlotOf(ing, y)[2]
    OBVIOUS
  <2>1. a = srv /\ b = loc <=> y = x
    BY <1>1, <1>4, OnePlace
  <2>2. a \in Nat /\ b \in Nat
    BY <1>2, SlotIs
  <2>3. Before(SlotOf(ing, y)) <=> a < srv \/ (a = srv /\ b < loc)
    BY DEF Before
  <2>4. Before(SlotOf(ing, y))' <=> a < srv \/ (a = srv /\ b < loc + 1)
    BY <1>1 DEF Before
  <2> QED
    BY <1>2, <2>1, <2>2, <2>3, <2>4
<1>6. \A y : y \in Done(ing)' <=> y \in Places(ing) /\ Before(SlotOf(ing, y))'
  BY <1>1 DEF Done
<1>7. \A y : y \in Done(ing) <=> y \in Places(ing) /\ Before(SlotOf(ing, y))
  BY DEF Done
<1> QED
  BY <1>3, <1>5, <1>6, <1>7

LEMMA PlacesInvHolds ==
    ASSUME NamesApart(Inputs), TypeInv, NamesInv, PlacesInv, ServerInv, [Next]_vars
    PROVE  PlacesInv'
<1>1. UNCHANGED <<mode, api>>
  BY DEF Next, vars, Reject, ParserPanic, Start, StartServer, AddLocation, EndServer, Apply,
         FinishIngress, Stopped
<1>2. \A i, x, r : Fits(i, x, r) => Fits(i, x, r)'
  BY <1>1 DEF Fits, SecretFor
<1>3. ASSUME NEW i \in Current, Done(i)' = Done(i), \A r : r \in Made(i)' <=> r \in Made(i)
      PROVE  Assigned(i, Done(i), Made(i))'
  <2>1. Made(i)' = Made(i)
    BY <1>3
  <2>2. PICK f \in [Done(i) -> Made(i)] :
           /\ \A x, y \in Done(i) : f[x] = f[y] => x = y
           /\ \A r \in Made(i) : \E x \in Done(i) : f[x] = r
           /\ \A x \in Done(i) : Fits(i, x, f[x])
    BY DEF PlacesInv, Assigned
  <2>3. \A x \in Done(i) : Fits(i, x, f[x])'
    BY <1>2, <2>2
  <2>4. f \in [Done(i)' -> Made(i)']
    BY <1>3, <2>1
  <2> QED
    BY <1>3, <2>1, <2>2, <2>3, <2>4 DEF Assigned
<1>4. \A i : i # ing => Done(i) = Places(i)
  BY DEF Done
<1>5. \A i : i # ing' => Done(i)' = Places(i)
  BY DEF Done
<1>6. ASSUME NoLocation, NEW i \in Current, Done(i)' = Done(i)
      PROVE  Assigned(i, Done(i), Made(i))'
  BY <1>3, <1>6, MadeStays
<1>7. CASE Reject \/ ParserPanic \/ Apply \/ UNCHANGED vars
  <2>1. UNCHANGED <<ing, infos, srv, loc>>
    BY <1>7 DEF Reject, ParserPanic, Apply, vars, splitVars
  <2>2. Current' = Current /\ \A i : Done(i)' = Done(i)
    BY <2>1 DEF Current, Done, Before
  <2> QED
    BY <1>6, <1>7, <2>2 DEF PlacesInv, NoLocation
<1>8. CASE StartServer \/ EndServer
  <2>1. UNCHANGED <<ing, infos>>
    BY <1>8 DEF StartServer, EndServer
  <2>2. Current' = Current
    BY <2>1 DEF Current
  <2>3. Done(ing)' = Done(ing)
    BY <1>8, DoneStays
  <2>4. \A i : Done(i)' = Done(i)
    BY <1>4, <1>5, <2>1, <2>3
  <2> QED
    BY <1>6, <1>8, <2>2, <2>4 DEF PlacesInv, NoLocation
<1>9. CASE FinishIngress
  <2>1. /\ ing # Idle /\ srv > Len(servers) /\ infos' = infos \cup {ing} /\ ing' = Idle
    BY <1>9 DEF FinishIngress
  <2>2. \A i \in Current : i # Idle
    BY <2>1, IdleIsNoUser, InputIs DEF TypeInv, Current
  <2>3. Current' = Current
    BY <2>1, <2>2 DEF Current
  <2>4. \A i \in Current : Done(i)' = Done(i)
    BY <1>4, <1>5, <2>1, <2>2, AllDone
  <2> QED
    BY <1>6, <1>9, <2>3, <2>4 DEF PlacesInv, NoLocation
<1>10. CASE Start
  <2> PICK j \in todo : ing' = j
    BY <1>10 DEF Start
  <2>1. ing = Idle /\ infos' = infos
    BY <1>10 DEF Start
  <2>2. j # Idle /\ j \notin infos
    BY InputIs, IdleIsNoUser DEF TypeInv, PlaceInv
  <2>3. Current = infos /\ Current' = infos \cup {j}
    BY <2>1, <2>2 DEF Current
  <2>4. ASSUME NEW i \in infos PROVE Assigned(i, Done(i), Made(i))'
    <3>1. i # j /\ i # Idle
      BY <2>2, <2>3, IdleIsNoUser, InputIs DEF TypeInv
    <3> QED
      BY <1>4, <1>5, <1>6, <1>10, <2>1, <2>3, <3>1 DEF NoLocation
  <2>5. Made(j)' = {} /\ Done(j)' = {}
    BY <1>10, NothingMade, NothingDone
  <2>6. Assigned(j, Done(j), Made(j))'
    <3>1. [x \in {} |-> x] \in [{} -> {}]
      OBVIOUS
    <3>2. \E f : f \in [{} -> {}]
      BY <3>1
    <3> QED
      BY <2>5, <3>2 DEF Assigned
  <2> QED
    BY <2>3, <2>4, <2>6 DEF PlacesInv
<1>11. CASE AddLocation
  <2>1. /\ Splitting /\ loc \in 1..Len(Server.locations) /\ loc' = loc + 1
        /\ confs' = Append(confs, LocationConf(Server.locations[loc]))
        /\ UNCHANGED <<ing, servers, srv, store, infos>>
    BY <1>11 DEF AddLocation
  <2>2. Current' = Current /\ ing \in Current /\ ing # Idle
    BY <2>1, ServerHas DEF Current, TypeInv
  <2>3. PICK x \in Places(ing) : SlotIsFor(ing, srv, loc, x)
    BY <2>1, ServerHas DEF TypeInv
  <2> PICK c : c = LocationConf(Server.locations[loc])
    OBVIOUS
  <2> PICK w : w = Written(c)
    OBVIOUS
  <2>4. /\ x \notin Done(ing) /\ c.name \notin UsedNames /\ c.name \in LocationNames(ing)
        /\ Fits(ing, x, w) /\ w.name = c.name
    BY <2>1, <2>3, NewName, ConfFits, LocationConfIs, WrittenIs DEF SameButRoute
  <2>5. \A y : y \in Done(ing)' <=> y \in Done(ing) \/ y = x
    BY <1>11, <2>3, OneMoreDone
  <2>6. \A i \in Current : \A r : r \in Made(i)' <=> r \in Made(i) \/ (i = ing /\ r = w)
    BY <1>11, MadeGrows
  <2>7. w \notin Made(ing)
    <3>1. Stored(ing) = {}
      BY <2>1 DEF NamesInv, Stored
    <3>2. w \notin Pending
      <4> SUFFICES ASSUME NEW k \in DOMAIN confs, w = Written(confs[k]) PROVE FALSE
        BY DEF Pending
      <4>1. w.name = confs[k].name
        BY WrittenIs DEF TypeInv, ConfsInv, SameButRoute
      <4> QED
        BY <2>4, <4>1 DEF UsedNames
    <3> QED
      BY <3>1, <3>2 DEF Made
  <2>8. ASSUME NEW i \in Current PROVE Assigned(i, Done(i), Made(i))'
    <3>1. CASE i # ing
      BY <1>3, <1>4, <1>5, <2>1, <2>6, <3>1
    <3>2. CASE i = ing
      <4> PICK D : D = Done(i)
        OBVIOUS
      <4> PICK M : M = Made(i)
        OBVIOUS
      <4>1. Done(i)' = D \cup {x} /\ x \notin D
        BY <2>1, <2>4, <2>5, <3>2
      <4>2. Made(i)' = M \cup {w} /\ w \notin M
        BY <2>1, <2>6, <2>7, <3>2
      <4>3. PICK f \in [D -> M] :
               /\ \A y, z \in D : f[y] = f[z] => y = z
               /\ \A r \in M : \E y \in D : f[y] = r
               /\ \A y \in D : Fits(i, y, f[y])
        BY DEF PlacesInv, Assigned
      <4> DEFINE g == [y \in D \cup {x} |-> IF y = x THEN w ELSE f[y]]
      <4>4. g[x] = w /\ (\A y \in D : g[y] = f[y]) /\ g \in [D \cup {x} -> M \cup {w}]
        BY <4>1, <4>3
      <4> HIDE DEF g
      <4>5. \A y, z \in D \cup {x} : g[y] = g[z] => y = z
        BY <4>2, <4>3, <4>4
      <4>6. \A r \in M \cup {w} : \E y \in D \cup {x} : g[y] = r
        BY <4>3, <4>4
      <4>7. \A y \in D \cup {x} : Fits(i, y, g[y])'
        <5>1. \A y \in D : Fits(i, y, g[y])'
          BY <1>2, <4>3, <4>4
        <5>2. Fits(i, x, g[x])'
          BY <1>2, <2>4, <3>2, <4>4
        <5> QED
          BY <5>1, <5>2
      <4> QED
        BY <4>1, <4>2, <4>4, <4>5, <4>6, <4>7 DEF Assigned
    <3> QED
      BY <3>1, <3>2
  <2> QED
    BY <2>2, <2>8 DEF PlacesInv
<1> QED
  BY <1>7, <1>8, <1>9, <1>10, <1>11 DEF Next, Stopped

-----------------------------------------------------------------------------
(* The hosts and secrets of the server resource.                             *)
LEMMA SecretsGrow ==
    ASSUME NEW i, NEW hosts, NEW tls, Secrets(i, hosts, tls), NEW h, NEW secret, secret = SecretFor(i, h),
           NEW all, all = IF secret = NoSecret THEN tls
                          ELSE Put(tls, secret, {h} \cup (IF secret \in DOMAIN tls THEN tls[secret] ELSE {}))
    PROVE  Secrets(i, hosts \cup {h}, all)
<1>1. /\ NoSecret \notin DOMAIN tls
      /\ \A g \in hosts : SecretFor(i, g) # NoSecret => SecretFor(i, g) \in DOMAIN tls
      /\ \A s \in DOMAIN tls : \A g : g \in tls[s] <=> g \in hosts /\ SecretFor(i, g) = s
  BY DEF Secrets
<1>2. CASE secret = NoSecret
  <2>1. ASSUME NEW s \in DOMAIN tls PROVE tls[s] = {g \in hosts \cup {h} : SecretFor(i, g) = s}
    <3>1. SecretFor(i, h) # s
      BY <1>1, <1>2
    <3> QED
      BY <1>1, <3>1
  <2> QED
    BY <1>1, <1>2, <2>1 DEF Secrets
<1>3. CASE secret # NoSecret
  <2> PICK those : those = {h} \cup (IF secret \in DOMAIN tls THEN tls[secret] ELSE {})
    OBVIOUS
  <2>1. /\ DOMAIN all = DOMAIN tls \cup {secret} /\ all[secret] = those
        /\ \A s \in DOMAIN tls : s # secret => all[s] = tls[s]
    BY <1>3 DEF Put
  <2>2. \A g : g \in those <=> g \in hosts \cup {h} /\ SecretFor(i, g) = secret
    BY <1>1, <1>3
  <2>3. ASSUME NEW s \in DOMAIN all PROVE all[s] = {g \in hosts \cup {h} : SecretFor(i, g) = s}
    <3>1. CASE s = secret
      BY <2>1, <2>2, <3>1
    <3>2. CASE s # secret
      <4>1. s \in DOMAIN tls /\ all[s] = tls[s]
        BY <2>1, <3>2
      <4> QED
        BY <1>1, <3>2, <4>1
    <3> QED
      BY <3>1, <3>2
  <2>4. \A g \in hosts \cup {h} : SecretFor(i, g) # NoSecret => SecretFor(i, g) \in DOMAIN all
    BY <1>1, <2>1
  <2>5. NoSecret \notin DOMAIN all
    BY <1>1, <1>3, <2>1
  <2> QED
    BY <2>3, <2>4, <2>5 DEF Secrets
<1> QED
  BY <1>2, <1>3

(* The server resource of an Ingress that was migrated is not written again. *)
LEMMA ServerStays ==
    ASSUME NamesApart(Inputs), TypeInv, NamesInv, [Next]_vars, NEW i \in infos
    PROVE  ServerName(i) \in DOMAIN store /\ store'[ServerName(i)] = store[ServerName(i)]
<1>1. ServerName(i) \in DOMAIN store
  BY DEF NamesInv
<1>2. \A name, r : name \notin DOMAIN store /\ store' = Put(store, name, r) =>
        store'[ServerName(i)] = store[ServerName(i)]
  BY <1>1 DEF Put
<1>3. CASE Apply
  <2>1. confs # <<>> /\ store' = Put(store, Head(confs).name, Written(Head(confs)))
    BY <1>3 DEF Apply
  <2>2. Head(confs).name \notin DOMAIN store
    <3>1. Head(confs) = confs[1] /\ 1 \in DOMAIN confs
      BY <2>1, TailIs DEF TypeInv, ConfsInv, IsSequence
    <3> QED
      BY <3>1 DEF NamesInv
  <2> QED
    BY <1>1, <1>2, <2>1, <2>2
<1>4. CASE FinishIngress
  <2>1. ing # Idle /\ store' = Put(store, ServerName(ing), ServerConf)
    BY <1>4 DEF FinishIngress
  <2> QED
    BY <1>1, <1>2, <2>1, ServerNameIsNew
<1>5. CASE UNCHANGED store
  BY <1>1, <1>5
<1> QED
  BY <1>3, <1>4, <1>5
  DEF Next, vars, Reject, ParserPanic, Start, StartServer, AddLocation, EndServer, Stopped

LEMMA ServerInvHolds ==
    ASSUME NamesApart(Inputs), TypeInv, NamesInv, ServerInv, [Next]_vars
    PROVE  ServerInv'
<1>1. UNCHANGED mode
  BY DEF Next, vars, Reject, ParserPanic, Start, StartServer, AddLocation, EndServer, Apply,
         FinishIngress, Stopped
<1>2. \A i, hosts, tls : Secrets(i, hosts, tls) => Secrets(i, hosts, tls)'
  BY <1>1 DEF Secrets, SecretFor
<1> DEFINE Split ==
             /\ \A r \in Made(ing) : r.hosts \subseteq server.hosts \cup Begun
             /\ Secrets(ing, server.hosts, server.tls)
             /\ loc > 0 /\ mode \notin TestModes => host = <<"user", Server.host>>
             /\ srv > 1 /\ ing.rules # <<>> => server.settings = ServerAnnotations(ing)
           Finished(i, s) ==
             /\ s.of = i.name
             /\ \A r \in Made(i) : r.hosts \subseteq s.hosts
             /\ Secrets(i, s.hosts, s.tls)
             /\ i.rules # <<>> => s.settings = ServerAnnotations(i)
<1>3. /\ ing # Idle => Split
      /\ \A i \in infos : Finished(i, store[ServerName(i)])
  BY DEF ServerInv
<1>4. ASSUME ing' # Idle => Split', \A i \in infos' : Finished(i, store[ServerName(i)])'
      PROVE  ServerInv'
  BY <1>4 DEF ServerInv
<1>5. ASSUME NEW i \in infos PROVE Finished(i, store[ServerName(i)])'
  <2>1. store'[ServerName(i)] = store[ServerName(i)]
    BY ServerStays
  <2>2. i # ing /\ i \in Current
    BY DEF TypeInv, PlaceInv, Current
  <2>3. \A r : r \in Made(i)' <=> r \in Made(i)
    <3>1. CASE AddLocation
      BY <2>2, <3>1, MadeGrows
    <3>2. CASE NoLocation
      BY <2>2, <3>2, MadeStays
    <3> QED
      BY <3>1, <3>2 DEF Next, NoLocation, Stopped
  <2> PICK s : s = store[ServerName(i)]
    OBVIOUS
  <2>4. /\ s.of = i.name /\ \A r \in Made(i) : r.hosts \subseteq s.hosts
        /\ Secrets(i, s.hosts, s.tls)
        /\ i.rules # <<>> => s.settings = ServerAnnotations(i)
    BY <1>3
  <2>5. Secrets(i, s.hosts, s.tls)'
    BY <1>2, <2>4
  <2> QED
    BY <2>1, <2>3, <2>4, <2>5
<1>6. infos' = infos => ServerInv' \/ (ing' # Idle /\ ~Split')
  BY <1>4, <1>5
<1>7. CASE Reject \/ ParserPanic \/ Apply \/ UNCHANGED vars
  <2>1. UNCHANGED <<ing, infos, server, servers, srv, loc, host>>
    BY <1>7 DEF Reject, ParserPanic, Apply, vars, splitVars
  <2>2. ASSUME ing # Idle PROVE Split'
    <3>1. \A r : r \in Made(ing)' <=> r \in Made(ing)
      <4> PICK i : i = ing
        OBVIOUS
      <4>1. \A r : r \in Made(i)' <=> r \in Made(i)
        BY <1>7, <2>2, MadeStays DEF NoLocation, Current
      <4> QED
        BY <2>1, <4>1
    <3>2. Split
      BY <1>3, <2>2
    <3>3. Begun' = Begun /\ Server' = Server
      BY <2>1 DEF Begun, Server
    <3>4. Secrets(ing, server.hosts, server.tls)'
      <4> PICK i, hosts, tls : i = ing /\ hosts = server.hosts /\ tls = server.tls
        OBVIOUS
      <4>1. Secrets(i, hosts, tls)'
        BY <1>2, <3>2
      <4> QED
        BY <2>1, <4>1
    <3> QED
      BY <1>1, <2>1, <3>1, <3>2, <3>3, <3>4
  <2> QED
    BY <1>6, <2>1, <2>2
<1>8. CASE Start
  <2>1. UNCHANGED infos /\ server' = NoServer /\ srv' = 1 /\ loc' = 0
    BY <1>8 DEF Start
  <2>2. Made(ing)' = {}
    BY <1>8, NothingMade
  <2>3. NoServer.hosts = {} /\ NoServer.tls = EmptyMap /\ DOMAIN EmptyMap = {}
    BY DEF NoServer, EmptyMap
  <2>4. Secrets(ing, server.hosts, server.tls)'
    BY <2>1, <2>3 DEF Secrets
  <2>5. Split'
    BY <2>1, <2>2, <2>4
  <2> QED
    BY <1>6, <2>1, <2>5
<1>9. ASSUME Splitting
      PROVE  /\ ing # Idle /\ ing \in Current /\ Split /\ srv \in Nat /\ loc \in Nat
             /\ Server = Servers(ing)[srv] /\ IsIngress(ing) /\ srv \in DOMAIN Servers(ing)
             /\ Len(Server.locations) \in Nat
  BY <1>3, <1>9, ServerHas, NumbersAre DEF TypeInv, Current
<1>10. CASE StartServer
  <2>1. /\ Splitting /\ loc = 0 /\ loc' = 1 /\ UNCHANGED <<infos, ing, server, servers, srv>>
        /\ mode \notin TestModes => host' = <<"user", Server.host>>
    BY <1>10 DEF StartServer
  <2>2. ing # Idle /\ ing \in Current /\ Split
    BY <1>9, <2>1
  <2>3. \A r : r \in Made(ing)' <=> r \in Made(ing)
    <3> PICK i : i = ing
      OBVIOUS
    <3>1. \A r : r \in Made(i)' <=> r \in Made(i)
      BY <1>10, <2>2, MadeStays DEF NoLocation
    <3> QED
      BY <2>1, <3>1
  <2>4. Begun = {} /\ Server' = Server
    BY <2>1 DEF Begun, Server
  <2>5. Secrets(ing, server.hosts, server.tls)'
    <3> PICK i, hosts, tls : i = ing /\ hosts = server.hosts /\ tls = server.tls
      OBVIOUS
    <3>1. Secrets(i, hosts, tls)'
      BY <1>2, <2>2
    <3> QED
      BY <2>1, <3>1
  <2>6. \A r \in Made(ing)' : r.hosts \subseteq server'.hosts \cup Begun'
    BY <2>1, <2>2, <2>3, <2>4
  <2>7. Split'
    BY <1>1, <2>1, <2>2, <2>4, <2>5, <2>6
  <2> QED
    BY <1>6, <2>1, <2>7
<1>11. CASE AddLocation
  <2>1. /\ Splitting /\ loc \in 1..Len(Server.locations) /\ loc' = loc + 1
        /\ UNCHANGED <<infos, ing, server, servers, srv, host>>
    BY <1>11 DEF AddLocation
  <2>2. ing # Idle /\ ing \in Current /\ Split /\ loc \in Nat /\ loc > 0
    BY <1>9, <2>1
  <2> PICK c : c = LocationConf(Server.locations[loc])
    OBVIOUS
  <2> PICK w : w = Written(c)
    OBVIOUS
  <2>3. w.hosts = {host}
    BY LocationConfIs, WrittenIs DEF SameButRoute
  <2>4. \A r : r \in Made(ing)' <=> r \in Made(ing) \/ r = w
    <3> PICK i : i = ing
      OBVIOUS
    <3>1. \A r : r \in Made(i)' <=> r \in Made(i) \/ r = w
      BY <1>11, <2>2, MadeGrows
    <3> QED
      BY <2>1, <3>1
  <2>5. Begun = {host} /\ Begun' = {host} /\ Server' = Server
    BY <2>1, <2>2 DEF Begun, Server
  <2>6. Secrets(ing, server.hosts, server.tls)'
    <3> PICK i, hosts, tls : i = ing /\ hosts = server.hosts /\ tls = server.tls
      OBVIOUS
    <3>1. Secrets(i, hosts, tls)'
      BY <1>2, <2>2
    <3> QED
      BY <2>1, <3>1
  <2>7. \A r \in Made(ing)' : r.hosts \subseteq server'.hosts \cup Begun'
    BY <2>1, <2>2, <2>3, <2>4, <2>5
  <2>8. Split'
    BY <1>1, <2>1, <2>2, <2>5, <2>6, <2>7
  <2> QED
    BY <1>6, <2>1, <2>8
<1>12. CASE EndServer
  <2>1. /\ Splitting /\ loc > Len(Server.locations) /\ loc' = 0
        /\ server' = [hosts |-> server.hosts \cup {host}, tls |-> WithSecret(server.tls, host),
                      settings |-> Server.settings]
        /\ UNCHANGED <<infos, ing>>
    BY <1>12 DEF EndServer
  <2>2. /\ ing # Idle /\ ing \in Current /\ Split /\ loc > 0 /\ Server = Servers(ing)[srv]
        /\ IsIngress(ing) /\ srv \in DOMAIN Servers(ing)
    BY <1>9, <2>1
  <2>3. \A r : r \in Made(ing)' <=> r \in Made(ing)
    <3> PICK i : i = ing
      OBVIOUS
    <3>1. \A r : r \in Made(i)' <=> r \in Made(i)
      BY <1>12, <2>2, MadeStays DEF NoLocation
    <3> QED
      BY <2>1, <3>1
  <2>4. /\ server'.hosts = server.hosts \cup {host} /\ server'.tls = WithSecret(server.tls, host)
        /\ server'.settings = Server.settings
    BY <2>1
  <2>5. \A r \in Made(ing)' : r.hosts \subseteq server'.hosts
    BY <2>2, <2>3, <2>4 DEF Begun
  <2>6. Secrets(ing, server.hosts, server.tls)'
    <3> PICK i, hosts, tls, h : i = ing /\ hosts = server.hosts /\ tls = server.tls /\ h = host
      OBVIOUS
    <3> PICK all : all = WithSecret(tls, h)
      OBVIOUS
    <3>1. Secret = SecretFor(i, h)
      BY <2>2 DEF Secret, SecretFor
    <3>2. Secrets(i, hosts, tls)
      BY <2>2
    <3>3. Secrets(i, hosts \cup {h}, all)
      BY <3>1, <3>2, SecretsGrow DEF WithSecret
    <3>4. Secrets(i, hosts \cup {h}, all)'
      BY <1>2, <3>3
    <3> QED
      BY <2>1, <2>4, <3>4
  <2>7. ing.rules # <<>> => Server.settings = ServerAnnotations(ing)
    BY <2>2, SlotsOfServer DEF OnlyBackend
  <2>8. Split'
    BY <2>1, <2>4, <2>5, <2>6, <2>7
  <2> QED
    BY <1>6, <2>1, <2>8
<1>13. CASE FinishIngress
  <2>1. /\ ing # Idle /\ srv > Len(servers) /\ confs = <<>>
        /\ store' = Put(store, ServerName(ing), ServerConf)
        /\ infos' = infos \cup {ing} /\ ing' = Idle
    BY <1>13 DEF FinishIngress
  <2> PICK i : i = ing
    OBVIOUS
  <2> PICK s : s = ServerConf
    OBVIOUS
  <2>2. /\ s.of = i.name /\ s.hosts = server.hosts /\ s.tls = server.tls
        /\ s.settings = server.settings
    BY DEF ServerConf
  <2>3. store'[ServerName(i)] = s
    BY <2>1 DEF Put
  <2>4. Split /\ i \in Current /\ loc = 0
    BY <1>3, <2>1 DEF Current, TypeInv, PlaceInv
  <2>5. \A r \in Made(i) : r.hosts \subseteq s.hosts
    BY <2>2, <2>4 DEF Begun
  <2>6. \A r \in Made(i)' : r.hosts \subseteq s.hosts
    BY <1>13, <2>4, <2>5, MadeStays DEF NoLocation
  <2>7. Secrets(i, s.hosts, s.tls)
    BY <2>2, <2>4
  <2>8. Secrets(i, s.hosts, s.tls)'
    BY <1>2, <2>7
  <2>9. i.rules # <<>> => s.settings = ServerAnnotations(i)
    <3> SUFFICES ASSUME i.rules # <<>> PROVE srv > 1
      BY <2>2, <2>4
    <3>1. IsIngress(i) /\ servers = Servers(i)
      BY <2>1, InputIs DEF TypeInv, PlaceInv
    <3>2. Len(servers) = Len(i.rules) /\ Len(i.rules) \in Nat /\ Len(i.rules) # 0
      BY <3>1, ServerIs, RulesAre DEF OnlyBackend
    <3> QED
      BY <2>1, <3>2, NumbersAre
  <2>10. Finished(i, store[ServerName(i)])'
    BY <2>2, <2>3, <2>6, <2>8, <2>9
  <2> QED
    BY <1>4, <1>5, <2>1, <2>10
<1> QED
  BY <1>7, <1>8, <1>10, <1>11, <1>12, <1>13 DEF Next, Stopped

-----------------------------------------------------------------------------
(* The hosts of a test mode.                                                 *)
LEMMA HostsOfServers ==
    ASSUME NEW i, IsIngress(i)
    PROVE  /\ UserHosts(i) = {Servers(i)[s].host : s \in DOMAIN Servers(i)}
           /\ ~OnlyBackend(i) => /\ DOMAIN Servers(i) = DOMAIN i.rules
                                 /\ \A s \in DOMAIN Servers(i) : Servers(i)[s].host = i.rules[s].host
<1>1. \A h, paths, own : ServerOf(h, paths, own, i).host = h
  BY DEF ServerOf
<1>2. CASE OnlyBackend(i)
  <2>1. UserHosts(i) = {NoHost}
    BY <1>2 DEF UserHosts, OnlyBackend
  <2>2. DOMAIN Servers(i) = 1..1 /\ \A s \in DOMAIN Servers(i) : Servers(i)[s].host = NoHost
    BY <1>1, <1>2, ServerIs
  <2> QED
    BY <1>2, <2>1, <2>2
<1>3. CASE ~OnlyBackend(i)
  <2>1. UserHosts(i) = {i.rules[r].host : r \in DOMAIN i.rules}
    BY <1>3 DEF UserHosts, OnlyBackend
  <2>2. DOMAIN Servers(i) = DOMAIN i.rules
    BY <1>3, ServerIs, RulesAre
  <2>3. ASSUME NEW s \in DOMAIN Servers(i) PROVE Servers(i)[s].host = i.rules[s].host
    <3>1. Servers(i)[s] = ServerOf(i.rules[s].host, Paths(i, i.rules[s]), ServerAnnotations(i), i)
      BY <1>3, ServerIs
    <3> QED
      BY <1>1, <3>1
  <2> QED
    BY <2>1, <2>2, <2>3
<1> QED
  BY <1>2, <1>3

LEMMA HostsApartIs ==
    ASSUME HostsApart(Inputs), InputInv, mode \in TestModes, NEW i \in Current
    PROVE  /\ \A s, t \in DOMAIN Servers(i) : Servers(i)[s].host = Servers(i)[t].host => s = t
           /\ \A j \in Current : i # j => UserHosts(i) \cap UserHosts(j) = {}
<1> PICK x \in Inputs : Current \subseteq x.ingresses /\ mode = x.mode
  BY DEF InputInv, Current
<1>1. /\ \A r, q \in DOMAIN i.rules : i.rules[r].host = i.rules[q].host => r = q
      /\ \A j \in x.ingresses \ {i} : UserHosts(i) \cap UserHosts(j) = {}
  BY DEF HostsApart
<1>2. IsIngress(i)
  BY InputIs DEF Current
<1>3. \A s, t \in DOMAIN Servers(i) : Servers(i)[s].host = Servers(i)[t].host => s = t
  <2>1. CASE OnlyBackend(i)
    <3>1. DOMAIN Servers(i) = 1..1
      BY <1>2, <2>1, ServerIs
    <3> QED
      BY <3>1
  <2>2. CASE ~OnlyBackend(i)
    BY <1>1, <1>2, <2>2, HostsOfServers
  <2> QED
    BY <2>1, <2>2
<1> QED
  BY <1>1, <1>3

(* The servers of the Ingress that is split which have their host.           *)
BegunServers == {t \in DOMAIN servers : t < srv \/ (t = srv /\ loc > 0)}

Injective(map) == \A g, h \in DOMAIN map : map[g] = map[h] => g = h

LEMMA BijectionOf ==
    ASSUME NEW map, Injective(map), IsFiniteSet(DOMAIN map)
    PROVE  Cardinality(Range(map)) = Cardinality(DOMAIN map)
<1> PICK D, R : D = DOMAIN map /\ R = Range(map)
  OBVIOUS
<1> DEFINE f == [x \in D |-> map[x]]
<1>1. f \in Bijection(D, R)
  BY DEF Bijection, Injection, Surjection, IsInjective, Injective, Range
<1> HIDE DEF f
<1>2. Cardinality(D) = Cardinality(R)
  BY <1>1, FS_Bijection DEF ExistsBijection
<1> QED
  BY <1>2

(* A host more, and a test host that no other has.                           *)
LEMMA InjectivePut ==
    ASSUME NEW map, Injective(map), NEW x, x \notin DOMAIN map, NEW v, v \notin Range(map)
    PROVE  Injective(Put(map, x, v)) /\ Range(Put(map, x, v)) = Range(map) \cup {v}
<1> PICK new : new = Put(map, x, v)
  OBVIOUS
<1>1. /\ DOMAIN new = DOMAIN map \cup {x} /\ new[x] = v
      /\ \A y \in DOMAIN map : new[y] = map[y]
  BY DEF Put
<1>2. \A y \in DOMAIN map : map[y] # v
  BY DEF Range
<1>3. Injective(new)
  BY <1>1, <1>2 DEF Injective
<1>4. \A w : w \in Range(new) <=> w \in Range(map) \/ w = v
  BY <1>1 DEF Range
<1> QED
  BY <1>3, <1>4

LEMMA TestInvHolds ==
    ASSUME NamesApart(Inputs), HostsApart(Inputs), TypeInv, NamesInv, TestInv, [Next]_vars
    PROVE  TestInv'
<1>1. UNCHANGED mode
  BY DEF Next, vars, Reject, ParserPanic, Start, StartServer, AddLocation, EndServer, Apply,
         FinishIngress, Stopped
<1> SUFFICES ASSUME mode \in TestModes PROVE TestInv'
  BY <1>1 DEF TestInv
<1> DEFINE Split ==
             /\ DOMAIN subdomains = {servers[s].host : s \in BegunServers}
             /\ Range(subdomains) = server.hosts \cup Begun
             /\ Injective(subdomains)
             /\ \A k \in Nat : <<"random", k>> \in Range(subdomains) => k < randoms
           Finished(i, s) ==
             /\ Cardinality(s.hosts) = Cardinality(UserHosts(i))
             /\ \A h \in UserHosts(i) : h \in DOMAIN reported /\ reported[h] \in s.hosts
<1>2. /\ ing # Idle => Split
      /\ \A i \in infos : Finished(i, store[ServerName(i)])
  BY DEF TestInv, BegunServers, Injective
<1>3. ASSUME ing' # Idle => Split', \A i \in infos' : Finished(i, store[ServerName(i)])'
      PROVE  TestInv'
  BY <1>3 DEF TestInv, BegunServers, Injective
<1>4. ASSUME NEW i \in infos,
             \A h \in UserHosts(i) \cap DOMAIN reported : h \in DOMAIN reported' /\ reported'[h] = reported[h]
      PROVE  Finished(i, store[ServerName(i)])'
  <2>1. store'[ServerName(i)] = store[ServerName(i)]
    BY ServerStays
  <2>2. Finished(i, store[ServerName(i)])
    BY <1>2
  <2>3. \A h \in UserHosts(i) : h \in DOMAIN reported' /\ reported'[h] = reported[h]
    BY <1>4, <2>2
  <2> QED
    BY <2>1, <2>2, <2>3
<1>5. infos' = infos /\ reported' = reported => TestInv' \/ (ing' # Idle /\ ~Split')
  BY <1>3, <1>4
<1>6. CASE Reject \/ ParserPanic \/ Apply \/ UNCHANGED vars
  <2>1. UNCHANGED <<ing, infos, reported, server, servers, srv, loc, host, subdomains, randoms>>
    BY <1>6 DEF Reject, ParserPanic, Apply, vars, splitVars
  <2>2. ASSUME ing # Idle PROVE Split'
    BY <1>2, <2>1, <2>2 DEF BegunServers, Begun, Injective
  <2> QED
    BY <1>5, <2>1, <2>2
<1>7. CASE Start
  <2>1. /\ UNCHANGED <<infos, reported, randoms>> /\ server' = NoServer /\ srv' = 1 /\ loc' = 0
        /\ subdomains' = EmptyMap
    BY <1>7 DEF Start
  <2>2. DOMAIN servers' \subseteq Nat \ {0}
    <3> PICK i \in todo : servers' = Servers(Read(i))
      BY <1>7 DEF Start
    <3>1. IsIngress(i) /\ api \in [version : Nat, discovered : BOOLEAN]
      BY InputIs DEF TypeInv
    <3>2. servers' = Servers(i)
      BY <3>1, ReadIsSame
    <3>3. DOMAIN Servers(i) = 1..Len(Servers(i)) /\ Len(Servers(i)) \in Nat
      BY <3>1, ServerIs, RulesAre
    <3> QED
      BY <3>2, <3>3
  <2>3. BegunServers' = {}
    BY <2>1, <2>2 DEF BegunServers
  <2>4. /\ NoServer.hosts = {} /\ DOMAIN EmptyMap = {} /\ Range(EmptyMap) = {} /\ Injective(EmptyMap)
    BY DEF NoServer, EmptyMap, Range, Injective
  <2>5. Begun' = {}
    BY <2>1 DEF Begun
  <2>6. DOMAIN subdomains' = {servers'[s].host : s \in BegunServers'}
    BY <2>1, <2>3, <2>4
  <2>7. Split'
    BY <2>1, <2>4, <2>5, <2>6 DEF Injective
  <2> QED
    BY <1>5, <2>1, <2>7
<1>8. ASSUME Splitting
      PROVE  /\ ing # Idle /\ ing \in Current /\ Split /\ srv \in Nat /\ loc \in Nat
             /\ Server = servers[srv] /\ Len(Server.locations) \in Nat
             /\ srv \in DOMAIN servers /\ DOMAIN servers \subseteq Nat
             /\ \A s, t \in DOMAIN servers : servers[s].host = servers[t].host => s = t
  <2>1. /\ ing # Idle /\ ing \in Current /\ IsIngress(ing) /\ servers = Servers(ing)
        /\ srv \in DOMAIN servers /\ Len(Server.locations) \in Nat
    BY <1>8, ServerHas DEF TypeInv, PlaceInv, Current
  <2>2. DOMAIN servers \subseteq Nat
    <3>1. DOMAIN servers = 1..Len(servers) /\ Len(servers) \in Nat
      BY <2>1, ServerIs, NumbersAre
    <3> QED
      BY <3>1
  <2>3. \A s, t \in DOMAIN servers : servers[s].host = servers[t].host => s = t
    BY <2>1, HostsApartIs DEF TypeInv
  <2> QED
    BY <1>2, <2>1, <2>2, <2>3, NumbersAre DEF Server
<1>9. CASE StartServer
  <2>1. /\ Splitting /\ loc = 0 /\ loc' = 1 /\ UNCHANGED <<infos, reported, ing, server, servers, srv>>
        /\ host' = IF Server.host \in Wildcards THEN <<"wc", WildcardID(subdomains)>>
                   ELSE <<"random", randoms>>
        /\ subdomains' = Put(subdomains, Server.host, host') /\ randoms' = randoms + 1
    BY <1>9 DEF StartServer
  <2> PICK map, h, v : map = subdomains /\ h = Server.host /\ v = host'
    OBVIOUS
  <2>2. /\ DOMAIN map = {servers[s].host : s \in BegunServers}
        /\ Range(map) = server.hosts \cup Begun /\ Injective(map)
        /\ \A k \in Nat : <<"random", k>> \in Range(map) => k < randoms
    BY <1>8, <2>1
  <2>3. randoms \in Nat /\ IsFiniteSet(DOMAIN map)
    BY DEF TypeInv, HostsInv
  <2>4. h = servers[srv].host /\ srv \in DOMAIN servers /\ srv \notin BegunServers
        /\ BegunServers \subseteq DOMAIN servers
    BY <1>8, <2>1 DEF BegunServers
  <2>5. h \notin DOMAIN map
    <3>1. \A s \in BegunServers : servers[s].host # h
      BY <1>8, <2>1, <2>4
    <3> QED
      BY <2>2, <3>1
  <2>6. v \notin Range(map)
    BY <2>1, <2>2, <2>3, WildcardIsNew
  <2>7. Injective(subdomains') /\ Range(subdomains') = Range(map) \cup {v}
    <3>1. subdomains' = Put(map, h, v)
      BY <2>1
    <3> QED
      BY <2>2, <2>5, <2>6, <3>1, InjectivePut
  <2>8. BegunServers' = BegunServers \cup {srv}
    <3>1. \A t \in DOMAIN servers : t < srv \/ (t = srv /\ 1 > 0) <=> (t < srv \/ (t = srv /\ 0 > 0)) \/ t = srv
      BY <1>8, <2>1
    <3> QED
      BY <2>1, <2>4, <3>1 DEF BegunServers
  <2>9. DOMAIN subdomains' = {servers[s].host : s \in BegunServers'}
    <3>1. DOMAIN subdomains' = DOMAIN map \cup {h}
      BY <2>1, PutIs
    <3> QED
      BY <2>2, <2>4, <2>8, <3>1
  <2>10. Begun = {} /\ Begun' = {v}
    BY <2>1 DEF Begun
  <2>11. \A k \in Nat : <<"random", k>> \in Range(subdomains') => k < randoms'
    <3> SUFFICES ASSUME NEW k \in Nat, <<"random", k>> \in Range(map) \cup {v} PROVE k < randoms + 1
      BY <2>1, <2>7
    <3>1. CASE <<"random", k>> \in Range(map)
      BY <2>2, <2>3, <3>1
    <3>2. CASE <<"random", k>> = v
      <4>1. v = <<"wc", WildcardID(subdomains)>> \/ v = <<"random", randoms>>
        BY <2>1
      <4>2. k = randoms
        BY <3>2, <4>1
      <4> QED
        BY <2>3, <4>2
    <3> QED
      BY <3>1, <3>2
  <2>12. Range(subdomains') = server'.hosts \cup Begun'
    BY <2>1, <2>2, <2>7, <2>10
  <2>13. Split'
    BY <2>1, <2>7, <2>9, <2>11, <2>12 DEF Injective
  <2> QED
    BY <1>5, <2>1, <2>13
<1>10. CASE AddLocation
  <2>1. /\ Splitting /\ loc \in 1..Len(Server.locations) /\ loc' = loc + 1
        /\ UNCHANGED <<infos, reported, ing, server, servers, srv, host, subdomains, randoms>>
    BY <1>10 DEF AddLocation
  <2>2. Split /\ loc > 0 /\ loc' > 0
    BY <1>8, <2>1
  <2>3. BegunServers' = BegunServers /\ Begun' = Begun
    BY <2>1, <2>2 DEF BegunServers, Begun
  <2>4. Split'
    BY <2>1, <2>2, <2>3 DEF Injective
  <2> QED
    BY <1>5, <2>1, <2>4
<1>11. CASE EndServer
  <2>1. /\ Splitting /\ loc > Len(Server.locations) /\ loc' = 0 /\ srv' = srv + 1
        /\ server' = [hosts |-> server.hosts \cup {host}, tls |-> WithSecret(server.tls, host),
                      settings |-> Server.settings]
        /\ UNCHANGED <<infos, reported, ing, servers, host, subdomains, randoms>>
    BY <1>11 DEF EndServer
  <2>2. Split /\ loc > 0 /\ srv \in Nat /\ DOMAIN servers \subseteq Nat
    BY <1>8, <2>1
  <2>3. BegunServers' = BegunServers
    <3>1. \A t \in DOMAIN servers :
            t < srv + 1 \/ (t = srv + 1 /\ 0 > 0) <=> t < srv \/ (t = srv /\ loc > 0)
      BY <2>2
    <3> QED
      BY <2>1, <3>1 DEF BegunServers
  <2>4. server'.hosts \cup Begun' = server.hosts \cup Begun
    BY <2>1, <2>2 DEF Begun
  <2>5. Split'
    BY <2>1, <2>2, <2>3, <2>4 DEF Injective
  <2> QED
    BY <1>5, <2>1, <2>5
<1>12. CASE FinishIngress
  <2>1. /\ ing # Idle /\ srv > Len(servers) /\ reported' = AllSubdomains
        /\ store' = Put(store, ServerName(ing), ServerConf)
        /\ infos' = infos \cup {ing} /\ ing' = Idle
    BY <1>12 DEF FinishIngress
  <2> PICK i : i = ing
    OBVIOUS
  <2> PICK s : s = ServerConf
    OBVIOUS
  <2>2. store'[ServerName(i)] = s /\ s.hosts = server.hosts
    BY <2>1 DEF Put, ServerConf
  <2>3. Split /\ i \in Current /\ loc = 0 /\ IsIngress(i) /\ servers = Servers(i)
    BY <1>2, <2>1, InputIs DEF Current, TypeInv, PlaceInv
  <2>4. BegunServers = DOMAIN servers
    <3>1. srv \in Nat /\ Len(servers) \in Nat /\ DOMAIN servers = 1..Len(servers)
      BY <2>1, <2>3, NumbersAre, ServerIs
    <3> QED
      BY <2>1, <3>1 DEF BegunServers
  <2>5. DOMAIN subdomains = UserHosts(i)
    BY <2>3, <2>4, HostsOfServers
  <2>6. Range(subdomains) = s.hosts
    BY <2>2, <2>3 DEF Begun
  <2>7. /\ \A h \in UserHosts(i) : h \in DOMAIN reported' /\ reported'[h] = subdomains[h]
        /\ \A h \in DOMAIN reported \ UserHosts(i) : h \in DOMAIN reported' /\ reported'[h] = reported[h]
    BY <2>1, <2>5 DEF AllSubdomains
  <2>8. Cardinality(s.hosts) = Cardinality(UserHosts(i))
    BY <2>3, <2>5, <2>6, BijectionOf DEF TypeInv, HostsInv
  <2>9. \A h \in UserHosts(i) : reported'[h] \in s.hosts
    BY <2>5, <2>6, <2>7 DEF Range
  <2>10. Finished(i, store[ServerName(i)])'
    BY <2>2, <2>7, <2>8, <2>9
  <2>11. ASSUME NEW j \in infos PROVE Finished(j, store[ServerName(j)])'
    <3>1. UserHosts(j) \cap UserHosts(i) = {}
      BY <2>1, <2>3, HostsApartIs DEF Current, TypeInv, PlaceInv
    <3> QED
      BY <1>4, <2>7, <3>1
  <2> QED
    BY <1>3, <2>1, <2>10, <2>11
<1> QED
  BY <1>6, <1>7, <1>9, <1>10, <1>11, <1>12 DEF Next, Stopped

-----------------------------------------------------------------------------
SplitInv == TypeInv /\ NamesInv /\ PlacesInv /\ ServerInv

LEMMA SplitInvStarts ==
    ASSUME Init
    PROVE  SplitInv /\ TestInv
<1>1. TypeInv
  BY TypeInvStarts
<1>2. ing = Idle /\ confs = <<>> /\ store = EmptyMap /\ infos = {} /\ srv = 1
  BY DEF Init
<1>3. DOMAIN EmptyMap = {}
  BY DEF EmptyMap
<1>4. Current = {} /\ ~Splitting
  BY <1>2 DEF Current, Splitting
<1>5. NamesInv
  BY <1>2, <1>3, <1>4, EmptyIs DEF NamesInv
<1>6. PlacesInv /\ ServerInv /\ TestInv
  BY <1>2, <1>4 DEF PlacesInv, ServerInv, TestInv
<1> QED
  BY <1>1, <1>5, <1>6 DEF SplitInv

LEMMA SplitInvHolds ==
    ASSUME NamesApart(Inputs), SplitInv, [Next]_vars
    PROVE  SplitInv'
BY TypeInvHolds, NamesInvHolds, PlacesInvHolds, ServerInvHolds DEF SplitInv

(* Each place of an Ingress that was migrated has a resource in the cluster. *)
LEMMA StoredHas ==
    ASSUME SplitInv, ing = Idle, NEW i \in infos
    PROVE  \E f : /\ DOMAIN f = Places(i)
                  /\ \A x, y \in Places(i) : f[x] = f[y] => x = y
                  /\ \A x \in Places(i) : f[x] \in DOMAIN store /\ Fits(i, x, store[f[x]])
                  /\ \A n \in DOMAIN store : store[n].of = i.name /\ store[n].kind = "location" =>
                        \E x \in Places(i) : f[x] = n
<1>1. i \in Current /\ i # ing
  BY DEF SplitInv, TypeInv, PlaceInv, Current
<1>2. Done(i) = Places(i) /\ Made(i) = Stored(i)
  BY <1>1 DEF Done, Made
<1>3. PICK f \in [Places(i) -> Stored(i)] :
         /\ \A x, y \in Places(i) : f[x] = f[y] => x = y
         /\ \A r \in Stored(i) : \E x \in Places(i) : f[x] = r
         /\ \A x \in Places(i) : Fits(i, x, f[x])
  BY <1>1, <1>2 DEF SplitInv, PlacesInv, Assigned
<1> DEFINE g == [x \in Places(i) |-> f[x].name]
<1>4. DOMAIN g = Places(i) /\ \A x \in Places(i) : g[x] = f[x].name
  OBVIOUS
<1> HIDE DEF g
<1>5. \A r \in Stored(i) : r.name \in DOMAIN store /\ store[r.name] = r
  BY DEF Stored, SplitInv, TypeInv, StoreInv
<1>6. ASSUME NEW x \in Places(i) PROVE g[x] \in DOMAIN store /\ store[g[x]] = f[x] /\ Fits(i, x, store[g[x]])
  BY <1>3, <1>4, <1>5
<1>7. ASSUME NEW n \in DOMAIN store, store[n].of = i.name, store[n].kind = "location"
      PROVE  \E x \in Places(i) : g[x] = n
  <2>1. store[n] \in Stored(i) /\ store[n].name = n
    BY <1>7 DEF Stored, SplitInv, TypeInv, StoreInv
  <2> QED
    BY <1>3, <1>4, <2>1
<1>8. \A x, y \in Places(i) : g[x] = g[y] => x = y
  BY <1>3, <1>6
<1> QED
  BY <1>4, <1>6, <1>7, <1>8

(* The resources for a place are those of the places that are like it.       *)
LEMMA ForIs ==
    ASSUME NEW i, NEW x, NEW y, NEW n \in DOMAIN store, Fits(i, y, store[n])
    PROVE  n \in ResourcesFor(i, x) <=> Alike(i, x, y)
<1> PICK r : r = store[n]
  OBVIOUS
<1>1. /\ r.of = i.name /\ r.kind = "location" /\ r.path = At(i, y).path /\ r.service = At(i, y).service
      /\ mode \notin TestModes => r.hosts = {<<"user", HostOf(i, y)>>}
  BY DEF Fits
<1>2. n \in ResourcesFor(i, x) <=>
        /\ r.path = At(i, x).path /\ r.service = At(i, x).service
        /\ mode \in TestModes \/ r.hosts = {<<"user", HostOf(i, x)>>}
  BY <1>1 DEF ResourcesFor
<1>3. ASSUME NEW g, NEW h, {<<"user", g>>} = {<<"user", h>>} PROVE g = h
  <2>1. <<"user", g>> = <<"user", h>>
    BY <1>3
  <2> QED
    BY <2>1
<1> QED
  BY <1>1, <1>2, <1>3 DEF Alike

LEMMA EveryLocationOnceHolds ==
    ASSUME SplitInv
    PROVE  EveryLocationOnce
<1> SUFFICES ASSUME ing = Idle, NEW i \in infos, NEW x \in Places(i)
             PROVE  Cardinality(ResourcesFor(i, x)) = Cardinality({y \in Places(i) : Alike(i, x, y)})
  BY DEF EveryLocationOnce, SplitInv, NamesInv
<1>1. PICK f : /\ DOMAIN f = Places(i)
               /\ \A y, z \in Places(i) : f[y] = f[z] => y = z
               /\ \A y \in Places(i) : f[y] \in DOMAIN store /\ Fits(i, y, store[f[y]])
               /\ \A n \in DOMAIN store : store[n].of = i.name /\ store[n].kind = "location" =>
                     \E y \in Places(i) : f[y] = n
  BY StoredHas
<1>2. PICK A : A = {y \in Places(i) : Alike(i, x, y)}
  OBVIOUS
<1>3. PICK R : R = ResourcesFor(i, x)
  OBVIOUS
<1>4. \A y \in Places(i) : f[y] \in R <=> y \in A
  BY <1>1, <1>2, <1>3, ForIs
<1>5. \A n \in R : \E y \in Places(i) : f[y] = n
  BY <1>1, <1>3 DEF ResourcesFor
<1>6. IsFiniteSet(A)
  <2>1. IsFiniteSet(Places(i))
    BY InputIs, PlacesFinite DEF SplitInv, TypeInv
  <2> QED
    BY <1>2, <2>1, FS_Subset
<1> DEFINE g == [y \in A |-> f[y]]
<1>7. g \in Bijection(A, R)
  <2>1. \A y \in A : y \in Places(i)
    BY <1>2
  <2>2. g \in [A -> R]
    BY <1>4, <2>1
  <2>3. \A y \in A : g[y] = f[y]
    OBVIOUS
  <2> HIDE DEF g
  <2>4. \A y, z \in A : g[y] = g[z] => y = z
    BY <1>1, <2>1, <2>3
  <2>5. \A n \in R : \E y \in A : g[y] = n
    BY <1>4, <1>5, <2>3
  <2> QED
    BY <2>2, <2>4, <2>5 DEF Bijection, Injection, Surjection, IsInjective
<1> HIDE DEF g
<1>8. Cardinality(R) = Cardinality(A)
  BY <1>6, <1>7, FS_Bijection DEF ExistsBijection
<1> QED
  BY <1>2, <1>3, <1>8

LEMMA RouteKeptHolds ==
    ASSUME SplitInv
    PROVE  RouteKept
<1> SUFFICES ASSUME ing = Idle, api.discovered, NEW i \in infos, NEW x \in Places(i)
             PROVE  \E n \in ResourcesFor(i, x) :
                       /\ At(i, x).port.name \notin DOMAIN YamlNumbers => store[n].port = At(i, x).port
                       /\ SamePathType(store[n].pathType,
                             IF Modifier(i, At(i, x).service) = "'='" THEN "Exact" ELSE At(i, x).pathType)
  BY DEF RouteKept
<1>1. PICK n \in DOMAIN store : Fits(i, x, store[n])
  BY StoredHas
<1>2. n \in ResourcesFor(i, x)
  BY <1>1, ForIs DEF Alike
<1> QED
  BY <1>1, <1>2 DEF Fits

LEMMA ServerAgreesHolds ==
    ASSUME NamesApart(Inputs), SplitInv
    PROVE  ServerAgrees
<1> SUFFICES ASSUME ing = Idle, NEW i \in infos, NEW n \in DOMAIN store, store[n].of = i.name,
                    NEW h \in store[n].hosts
             PROVE  /\ h \in store[ServerName(i)].hosts
                    /\ {s \in DOMAIN store[n].tls : h \in store[n].tls[s]} =
                          {s \in DOMAIN store[ServerName(i)].tls : h \in store[ServerName(i)].tls[s]}
  BY DEF ServerAgrees
<1> PICK one : one = store[ServerName(i)]
  OBVIOUS
<1> PICK r : r = store[n]
  OBVIOUS
<1>1. /\ \A s \in Made(i) : s.hosts \subseteq one.hosts
      /\ Secrets(i, one.hosts, one.tls)
  BY DEF SplitInv, ServerInv
<1>2. CASE r.kind = "location"
  <2>1. r \in Made(i)
    BY <1>2 DEF Made, Stored
  <2>2. \E x \in Places(i) : Fits(i, x, r)
    BY <1>2, StoredHas
  <2>3. r.hosts = {h} /\ r.tls = OneSecret(SecretFor(i, h), h)
    BY <2>2 DEF Fits
  <2>4. h \in one.hosts
    BY <1>1, <2>1
  <2> PICK secret : secret = SecretFor(i, h)
    OBVIOUS
  <2>5. \A s : s \in DOMAIN r.tls /\ h \in r.tls[s] <=> secret # NoSecret /\ s = secret
    BY <2>3 DEF OneSecret, Put, EmptyMap
  <2>6. \A s : s \in DOMAIN one.tls /\ h \in one.tls[s] <=> secret # NoSecret /\ s = secret
    BY <1>1, <2>4 DEF Secrets
  <2> QED
    BY <2>4, <2>5, <2>6
<1>3. CASE r.kind # "location"
  <2>1. PICK j \in Current : r.of = j.name /\ n = ServerName(j)
    BY <1>3 DEF SplitInv, NamesInv
  <2>2. j = i
    BY <2>1, ApartIs DEF Current, SplitInv, TypeInv
  <2> QED
    BY <2>1, <2>2
<1> QED
  BY <1>2, <1>3

LEMMA TestHostsHold ==
    ASSUME TestInv
    PROVE  TestHostsDiffer /\ HostsAreReported
BY DEF TestInv, TestHostsDiffer, HostsAreReported

(* When no resource can get the name that another one has, every location of *)
(* every migrated Ingress has as many Ingresses in the cluster as it was     *)
(* given, however long the suffixes of the names get.                        *)
THEOREM LocationsOnce == NamesApart(Inputs) => (Spec => []EveryLocationOnce)
<1> SUFFICES ASSUME NamesApart(Inputs) PROVE Spec => []EveryLocationOnce
  OBVIOUS
<1>1. Init => SplitInv
  BY SplitInvStarts
<1>2. SplitInv /\ [Next]_vars => SplitInv'
  BY SplitInvHolds
<1>3. SplitInv => EveryLocationOnce
  BY EveryLocationOnceHolds
<1> QED
  BY <1>1, <1>2, <1>3, PTL DEF Spec

(* And one of them has the port and the path type that the user gave it,     *)
(* whatever the version of the cluster.                                      *)
THEOREM RoutesKept == NamesApart(Inputs) => (Spec => []RouteKept)
<1> SUFFICES ASSUME NamesApart(Inputs) PROVE Spec => []RouteKept
  OBVIOUS
<1>1. Init => SplitInv
  BY SplitInvStarts
<1>2. SplitInv /\ [Next]_vars => SplitInv'
  BY SplitInvHolds
<1>3. SplitInv => RouteKept
  BY RouteKeptHolds
<1> QED
  BY <1>1, <1>2, <1>3, PTL DEF Spec

(* The server resource of a migrated Ingress has the hosts of all location   *)
(* resources, each with the same TLS secrets.                                *)
THEOREM ServersAgree == NamesApart(Inputs) => (Spec => []ServerAgrees)
<1> SUFFICES ASSUME NamesApart(Inputs) PROVE Spec => []ServerAgrees
  OBVIOUS
<1>1. Init => SplitInv
  BY SplitInvStarts
<1>2. SplitInv /\ [Next]_vars => SplitInv'
  BY SplitInvHolds
<1>3. SplitInv => ServerAgrees
  BY ServerAgreesHolds
<1> QED
  BY <1>1, <1>2, <1>3, PTL DEF Spec

(* In a test mode, when no host is in two rules, the hosts of a migrated     *)
(* Ingress get as many test hosts, wildcards or not.                         *)
THEOREM TestHosts == NamesApart(Inputs) /\ HostsApart(Inputs) => (Spec => []TestHostsDiffer)
<1> SUFFICES ASSUME NamesApart(Inputs), HostsApart(Inputs) PROVE Spec => []TestHostsDiffer
  OBVIOUS
<1>1. Init => SplitInv /\ TestInv
  BY SplitInvStarts
<1>2. SplitInv /\ TestInv /\ [Next]_vars => SplitInv' /\ TestInv'
  BY SplitInvHolds, TestInvHolds DEF SplitInv
<1>3. TestInv => TestHostsDiffer
  BY TestHostsHold
<1> QED
  BY <1>1, <1>2, <1>3, PTL DEF Spec

(* And the subdomain map of the status leads from each of them to a host     *)
(* that the server resource serves, whatever was migrated after it.          *)
THEOREM HostsReported == NamesApart(Inputs) /\ HostsApart(Inputs) => (Spec => []HostsAreReported)
<1> SUFFICES ASSUME NamesApart(Inputs), HostsApart(Inputs) PROVE Spec => []HostsAreReported
  OBVIOUS
<1>1. Init => SplitInv /\ TestInv
  BY SplitInvStarts
<1>2. SplitInv /\ TestInv /\ [Next]_vars => SplitInv' /\ TestInv'
  BY SplitInvHolds, TestInvHolds DEF SplitInv
<1>3. TestInv => HostsAreReported
  BY TestHostsHold
<1> QED
  BY <1>1, <1>2, <1>3, PTL DEF Spec

-----------------------------------------------------------------------------
(* The largest of some numbers up to n.                                      *)
LEMMA Largest ==
    ASSUME NEW n \in Nat, NEW S, S \subseteq 1..n, S # {}
    PROVE  Max(S) \in S /\ \A k \in S : Max(S) >= k
<1> DEFINE T == {n - k : k \in S}
<1>1. T \subseteq Nat /\ T # {} /\ \A k \in S : n - k \in T /\ k \in Nat
  <2>1. \A k \in S : k \in Nat /\ n - k \in Nat
    OBVIOUS
  <2>2. \A k \in S : n - k \in T
    OBVIOUS
  <2> QED
    BY <2>1, <2>2
<1>2. \A t \in T : n - t \in S
  OBVIOUS
<1> HIDE DEF T
<1> PICK t \in T : \A u \in T : t <= u
  BY <1>1, Smallest
<1>3. n - t \in S /\ \A k \in S : n - t >= k
  <2>1. n - t \in S /\ t \in Nat
    BY <1>1, <1>2
  <2>2. ASSUME NEW k \in S PROVE n - t >= k
    <3>1. t <= n - k /\ k \in Nat
      BY <1>1
    <3> QED
      BY <2>1, <3>1
  <2> QED
    BY <2>1, <2>2
<1> QED
  BY <1>3 DEF Max

(* What the first k of some entries make of a map: the keys of the services  *)
(* that they name, each with the setting of the last one that names it.      *)
Naming(entries, k, key) == {j \in 1..k : KeyOf(entries[j].service) = key}

LastOf(entries, setting, k) ==
    [key \in {KeyOf(entries[j].service) : j \in 1..k} |->
        entries[Max(Naming(entries, k, key))].settings[setting]]

LEMMA LastOfNext ==
    ASSUME NEW entries, NEW setting, NEW k \in Nat, k # 0
    PROVE  LastOf(entries, setting, k) =
              Put(LastOf(entries, setting, k - 1), KeyOf(entries[k].service), entries[k].settings[setting])
<1> DEFINE before == LastOf(entries, setting, k - 1)
           now == LastOf(entries, setting, k)
<1> PICK new : new = KeyOf(entries[k].service)
  OBVIOUS
<1> PICK value : value = entries[k].settings[setting]
  OBVIOUS
<1>1. k - 1 \in Nat /\ 1..k = (1..(k - 1)) \cup {k} /\ k \notin 1..(k - 1)
  OBVIOUS
<1>2. /\ DOMAIN before = {KeyOf(entries[j].service) : j \in 1..(k - 1)}
      /\ DOMAIN now = {KeyOf(entries[j].service) : j \in 1..k}
  BY DEF LastOf
<1>3. DOMAIN now = DOMAIN before \cup {new}
  BY <1>1, <1>2
<1>4. now[new] = value
  <2>1. k \in Naming(entries, k, new) /\ Naming(entries, k, new) \subseteq 1..k
    BY <1>1 DEF Naming
  <2> PICK m : m = Max(Naming(entries, k, new))
    OBVIOUS
  <2>2. m \in 1..k /\ m >= k
    BY <2>1, Largest
  <2>3. m = k
    BY <2>2
  <2> QED
    BY <1>2, <1>3, <2>3 DEF LastOf
<1>5. ASSUME NEW key \in DOMAIN before, key # new PROVE now[key] = before[key]
  <2>1. Naming(entries, k, key) = Naming(entries, k - 1, key)
    BY <1>1, <1>5 DEF Naming
  <2> QED
    BY <1>2, <1>3, <2>1 DEF LastOf
<1>6. now = [key \in DOMAIN now |-> now[key]]
  BY DEF LastOf
<1> HIDE DEF before, now
<1>7. now = [key \in DOMAIN before \cup {new} |-> IF key = new THEN value ELSE before[key]]
  BY <1>3, <1>4, <1>5, <1>6
<1> QED
  BY <1>7 DEF Put, before, now

(* To put the entries into a map one after the other gives that one.         *)
LEMMA Folded ==
    ASSUME NEW entries, NEW setting, NEW n \in Nat
    PROVE  LET values[k \in 0..n] ==
                   IF k = 0 THEN EmptyMap
                   ELSE Put(values[k - 1], KeyOf(entries[k].service), entries[k].settings[setting])
           IN  values[n] = LastOf(entries, setting, n)
<1> DEFINE Step(f, k) == IF k = 0 THEN EmptyMap
                          ELSE Put(f[k - 1], KeyOf(entries[k].service), entries[k].settings[setting])
           values[k \in 0..n] == Step(values, k)
           last == [k \in 0..n |-> LastOf(entries, setting, k)]
           Steps(f) == f = [k \in 0..n |-> Step(f, k)]
<1>1. LastOf(entries, setting, 0) = EmptyMap
  <2>1. {KeyOf(entries[j].service) : j \in 1..0} = {}
    OBVIOUS
  <2> QED
    BY <2>1 DEF LastOf, EmptyMap
<1>2. Steps(last)
  <2>1. \A k \in 0..n : last[k] = LastOf(entries, setting, k)
    OBVIOUS
  <2>2. last = [k \in 0..n |-> last[k]]
    OBVIOUS
  <2> HIDE DEF last
  <2>3. ASSUME NEW k \in 0..n PROVE last[k] = Step(last, k)
    <3>1. k \in Nat /\ (k # 0 => k - 1 \in 0..n)
      OBVIOUS
    <3> QED
      BY <1>1, <2>1, <3>1, LastOfNext
  <2> QED
    BY <2>2, <2>3
<1>3. values = CHOOSE f : Steps(f)
  OBVIOUS
<1>4. Steps(values)
  <2> HIDE DEF values, last, Steps
  <2> QED
    BY <1>2, <1>3
<1>5. \A k \in 0..n : values[k] = Step(values, k)
  <2> HIDE DEF values
  <2> QED
    BY <1>4
<1> HIDE DEF values, last, Steps
<1>6. \A k \in 0..n : values[k] = LastOf(entries, setting, k)
  <2> DEFINE S == {k \in 0..n : values[k] # LastOf(entries, setting, k)}
  <2> SUFFICES ASSUME S # {} PROVE FALSE
    OBVIOUS
  <2> PICK m : m = Min(S)
    OBVIOUS
  <2>1. m \in S /\ \A k \in S : m <= k
    BY Smallest
  <2>2. m # 0
    BY <1>1, <1>5, <2>1
  <2>3. m - 1 \in 0..n /\ m - 1 \notin S /\ m \in Nat
    BY <2>1, <2>2
  <2>4. values[m] = LastOf(entries, setting, m)
    BY <1>5, <2>1, <2>2, <2>3, LastOfNext
  <2> QED
    BY <2>1, <2>4
<1> QED
  BY <1>6 DEF values

(* The entries of an annotation that are for a key.                          *)
Keyed(i, annotation, key) ==
    {k \in DOMAIN Entries(i, annotation) : KeyOf(Meanings(i, annotation)[k].service) = key}

LEMMA EntriesAre ==
    ASSUME NEW i, IsIngress(i), NEW annotation
    PROVE  /\ Len(Meanings(i, annotation)) \in Nat
           /\ DOMAIN Entries(i, annotation) = 1..Len(Meanings(i, annotation))
<1> PICK e : e = Entries(i, annotation)
  OBVIOUS
<1>1. \E S : e \in Seq(S)
  <2>1. CASE annotation \in DOMAIN i.annotations
    BY <2>1 DEF IsIngress, Entries
  <2>2. CASE annotation \notin DOMAIN i.annotations
    <3>1. e = <<>>
      BY <2>2 DEF Entries
    <3>2. e \in Seq({})
      BY <3>1
    <3> QED
      BY <3>2
  <2> QED
    BY <2>1, <2>2
<1>2. Len(e) \in Nat /\ DOMAIN e = 1..Len(e)
  BY <1>1
<1> PICK n \in Nat : n = Len(e)
  BY <1>2
<1> DEFINE m == [k \in 1..n |-> Parse(annotation, e[k])]
           values == {Parse(annotation, e[k]) : k \in 1..n}
<1>3. m \in Seq(values) /\ Len(m) = n
  <2>1. m \in [1..n -> values]
    OBVIOUS
  <2> HIDE DEF m, values
  <2> QED
    BY <2>1
<1>4. Meanings(i, annotation) = m
  BY <1>2 DEF Meanings
<1> HIDE DEF m
<1> QED
  BY <1>2, <1>3, <1>4

LEMMA MapIs ==
    ASSUME NEW i, IsIngress(i), NEW annotation, NEW setting, NEW key
    PROVE  /\ key \in DOMAIN GetAnnotationMap(i, annotation, setting) <=> Keyed(i, annotation, key) # {}
           /\ Keyed(i, annotation, key) # {} =>
                 GetAnnotationMap(i, annotation, setting)[key] =
                    Meanings(i, annotation)[Max(Keyed(i, annotation, key))].settings[setting]
<1> PICK entries : entries = Meanings(i, annotation)
  OBVIOUS
<1>1. Len(entries) \in Nat /\ DOMAIN Entries(i, annotation) = 1..Len(entries)
  BY EntriesAre
<1> PICK n \in Nat : n = Len(entries)
  BY <1>1
<1>2. GetAnnotationMap(i, annotation, setting) = LastOf(entries, setting, n)
  BY Folded DEF GetAnnotationMap, LastValues
<1>3. Keyed(i, annotation, key) = Naming(entries, n, key)
  BY <1>1 DEF Keyed, Naming
<1>4. key \in DOMAIN LastOf(entries, setting, n) <=> Naming(entries, n, key) # {}
  BY DEF LastOf, Naming
<1> QED
  BY <1>2, <1>3, <1>4 DEF LastOf

(* An entry of one of these annotations, if it is right, has a service, or   *)
(* is for all of them.                                                       *)
Named ==
    {"client-max-body-size", "redirect-to-https", "mutual-auth", "large-client-header-buffers",
     "keepalive-requests", "keepalive-timeout"}

LEMMA RightOrWrong ==
    /\ \A service, settings : Ok(service, settings).service = service /\ Ok(service, settings).settings = settings
    /\ Bad("error").outcome # "ok"
BY DEF Ok, Bad

LEMMA AllIsNamed == All # ""
BY DEF All

LEMMA SingleIs ==
    ASSUME NEW entry, NEW key, NEW setting, Single(entry, key, setting).outcome = "ok"
    PROVE  /\ Single(entry, key, setting).service # ""
           /\ Single(entry, key, setting).settings[setting] # ""
<1> PICK value : value = SingleValue(entry, key)
  OBVIOUS
<1> PICK settings : settings = [s \in {setting} |-> value]
  OBVIOUS
<1>1. Single(entry, key, setting) = IF value # "" THEN Ok(ServiceOf(entry), settings) ELSE Bad("error")
  BY DEF Single, OkIf
<1>2. value # ""
  BY <1>1, RightOrWrong
<1>3. ServiceOf(entry) # ""
  BY <1>2 DEF SingleValue
<1>4. settings[setting] = value
  OBVIOUS
<1>5. Single(entry, key, setting) = Ok(ServiceOf(entry), settings)
  BY <1>1, <1>2
<1>6. /\ Single(entry, key, setting).service = ServiceOf(entry)
      /\ Single(entry, key, setting).settings = settings
  BY <1>5, RightOrWrong
<1> QED
  BY <1>2, <1>3, <1>4, <1>6

LEMMA NamesService ==
    ASSUME NEW annotation \in Named, NEW entry, Parse(annotation, entry).outcome = "ok"
    PROVE  Parse(annotation, entry).service # ""
<1>1. CASE annotation = "client-max-body-size"
  <2>1. Parse(annotation, entry) = Single(entry, "size", "ClientMaxBodySize")
    BY <1>1 DEF Parse
  <2> QED
    BY <2>1, SingleIs
<1>2. CASE annotation = "keepalive-requests"
  <2>1. Parse(annotation, entry) = Single(entry, "requests", "KeepaliveRequests")
    BY <1>2 DEF Parse
  <2> QED
    BY <2>1, SingleIs
<1>3. CASE annotation = "keepalive-timeout"
  <2>1. Parse(annotation, entry) = Single(entry, "timeout", "KeepaliveTimeout")
    BY <1>3 DEF Parse
  <2> QED
    BY <2>1, SingleIs
<1>4. ASSUME NEW settings, \/ Parse(annotation, entry) = Ok(All, settings)
                            \/ Parse(annotation, entry) = Bad("error")
      PROVE  Parse(annotation, entry).service # ""
  <2>1. CASE Parse(annotation, entry) = Ok(All, settings)
    BY <2>1, RightOrWrong, AllIsNamed
  <2>2. CASE Parse(annotation, entry) = Bad("error")
    BY <2>2, RightOrWrong
  <2> QED
    BY <1>4, <2>1, <2>2
<1>5. CASE annotation = "mutual-auth"
  <2>1. Parse(annotation, entry) = MutualAuth(entry)
    BY <1>5 DEF Parse
  <2>2. \E settings : \/ MutualAuth(entry) = Ok(All, settings)
                      \/ MutualAuth(entry) = Bad("error")
    BY DEF MutualAuth, OkIf
  <2> QED
    BY <1>4, <2>1, <2>2
<1>6. CASE annotation = "large-client-header-buffers"
  <2>1. Parse(annotation, entry) = LargeClientHeaderBuffers(entry)
    BY <1>6 DEF Parse
  <2>2. \E settings : \/ LargeClientHeaderBuffers(entry) = Ok(All, settings)
                      \/ LargeClientHeaderBuffers(entry) = Bad("error")
    BY DEF LargeClientHeaderBuffers, OkIf
  <2> QED
    BY <1>4, <2>1, <2>2
<1>7. CASE annotation = "redirect-to-https"
  <2>1. Parse(annotation, entry) = RedirectToHTTPS(entry)
    BY <1>7 DEF Parse
  <2> QED
    BY <2>1, <1>4 DEF RedirectToHTTPS
<1> QED
  BY <1>1, <1>2, <1>3, <1>5, <1>6, <1>7 DEF Named

(* No entry of an Ingress that is migrated is wrong.                         *)
LEMMA EntriesAreRight ==
    ASSUME NEW i, IsIngress(i), WellFormed(i), NEW annotation, NEW k \in DOMAIN Entries(i, annotation)
    PROVE  Meanings(i, annotation)[k].outcome = "ok"
<1> DEFINE bad == {j \in DOMAIN Entries(i, annotation) : Meanings(i, annotation)[j].outcome # "ok"}
<1>1. annotation \in DOMAIN i.annotations
  BY DEF Entries
<1>2. Outcome(i, annotation) = IF bad = {} THEN "ok" ELSE Meanings(i, annotation)[Min(bad)].outcome
  BY DEF Outcome
<1>3. bad # {} => Min(bad) \in bad
  <2>1. bad \subseteq Nat
    BY EntriesAre
  <2> QED
    BY <2>1, Smallest
<1>4. Outcome(i, annotation) = "ok"
  BY <1>1 DEF WellFormed
<1>5. bad = {}
  BY <1>2, <1>3, <1>4
<1> QED
  BY <1>5

(* What is found for a service, and for all of them, is what the last entry  *)
(* for it says.                                                              *)
KeyIsOf(i, annotation, key, service) ==
    \A k \in DOMAIN Entries(i, annotation) :
        KeyOf(Meanings(i, annotation)[k].service) = key <=> Meanings(i, annotation)[k].service = service

LEMMA FoundIsLasting ==
    ASSUME NEW i, IsIngress(i), NEW annotation, NEW setting, NEW key, NEW service,
           KeyIsOf(i, annotation, key, service)
    PROVE  Lookup(GetAnnotationMap(i, annotation, setting), key) = Lasting(i, annotation, service, setting)
<1> PICK map : map = GetAnnotationMap(i, annotation, setting)
  OBVIOUS
<1> PICK own : own = Keyed(i, annotation, key)
  OBVIOUS
<1> PICK last : last = Meanings(i, annotation)[Max(own)].settings[setting]
  OBVIOUS
<1>1. own = {k \in DOMAIN Entries(i, annotation) : Meanings(i, annotation)[k].service = service}
  BY DEF Keyed, KeyIsOf
<1>2. Lasting(i, annotation, service, setting) = IF own = {} THEN "" ELSE last
  BY <1>1 DEF Lasting
<1>3. (key \in DOMAIN map <=> own # {}) /\ (own # {} => map[key] = last)
  BY MapIs
<1> QED
  BY <1>2, <1>3 DEF Lookup

LEMMA FoundForService ==
    ASSUME NEW i, IsIngress(i), NEW annotation, NEW setting, NEW service, service # "", service # All
    PROVE  Lookup(GetAnnotationMap(i, annotation, setting), service) =
              Lasting(i, annotation, service, setting)
<1>1. \A named : KeyOf(named) = service <=> named = service
  BY DEF KeyOf
<1>2. KeyIsOf(i, annotation, service, service)
  BY <1>1 DEF KeyIsOf
<1> QED
  BY <1>2, FoundIsLasting

LEMMA FoundForAll ==
    ASSUME NEW i, IsIngress(i), WellFormed(i), NEW annotation \in Named, NEW setting
    PROVE  Lookup(GetAnnotationMap(i, annotation, setting), "") = Lasting(i, annotation, All, setting)
<1>1. ASSUME NEW k \in DOMAIN Entries(i, annotation) PROVE Meanings(i, annotation)[k].service # ""
  <2>1. Meanings(i, annotation)[k] = Parse(annotation, Entries(i, annotation)[k])
    BY DEF Meanings
  <2> QED
    BY <2>1, EntriesAreRight, NamesService
<1>2. \A named : named # "" => (KeyOf(named) = "" <=> named = All)
  BY DEF KeyOf
<1>3. KeyIsOf(i, annotation, "", All)
  BY <1>1, <1>2 DEF KeyIsOf
<1> QED
  BY <1>3, FoundIsLasting

LEMMA SizeIsGiven ==
    ASSUME NEW i, IsIngress(i), WellFormed(i),
           NEW service \in DOMAIN GetAnnotationMap(i, "client-max-body-size", "ClientMaxBodySize")
    PROVE  GetAnnotationMap(i, "client-max-body-size", "ClientMaxBodySize")[service] # ""
<1> PICK map : map = GetAnnotationMap(i, "client-max-body-size", "ClientMaxBodySize")
  OBVIOUS
<1> PICK of : of = Keyed(i, "client-max-body-size", service)
  OBVIOUS
<1>1. of # {}
  BY MapIs
<1>2. map[service] = Meanings(i, "client-max-body-size")[Max(of)].settings["ClientMaxBodySize"]
  BY <1>1, MapIs
<1>3. Max(of) \in DOMAIN Entries(i, "client-max-body-size")
  <2>1. of \subseteq DOMAIN Entries(i, "client-max-body-size")
    BY DEF Keyed
  <2> QED
    BY <1>1, <2>1, EntriesAre, Largest
<1> PICK entry : entry = Entries(i, "client-max-body-size")[Max(of)]
  OBVIOUS
<1>4. Meanings(i, "client-max-body-size")[Max(of)] = Parse("client-max-body-size", entry)
  BY <1>3 DEF Meanings
<1>5. Parse("client-max-body-size", entry) = Single(entry, "size", "ClientMaxBodySize")
  BY DEF Parse
<1>6. Single(entry, "size", "ClientMaxBodySize").outcome = "ok"
  BY <1>3, <1>4, <1>5, EntriesAreRight
<1> QED
  BY <1>2, <1>4, <1>5, <1>6, SingleIs

LEMMA SizeIsMeant ==
    ASSUME NEW i, IsIngress(i), WellFormed(i), NEW service, service # "", service # All
    PROVE  LET own == Lasting(i, "client-max-body-size", service, "ClientMaxBodySize")
               all == Lasting(i, "client-max-body-size", All, "ClientMaxBodySize")
           IN  Lookup(GetAnnotationSizes(i), service) =
                  IF service \in GetIngressSvcs(i) THEN OrDefault(own, all) ELSE own
<1> DEFINE own == Lasting(i, "client-max-body-size", service, "ClientMaxBodySize")
           all == Lasting(i, "client-max-body-size", All, "ClientMaxBodySize")
<1> PICK map : map = GetAnnotationMap(i, "client-max-body-size", "ClientMaxBodySize")
  OBVIOUS
<1> PICK sizes : sizes = GetAnnotationSizes(i)
  OBVIOUS
<1>1. Lookup(map, service) = own
  BY FoundForService
<1>0. Lookup(map, "") = all
  <2>1. "client-max-body-size" \in Named
    BY DEF Named
  <2> QED
    BY <2>1, FoundForAll
<1>2. service \in DOMAIN map => map[service] # ""
  BY SizeIsGiven
<1> DEFINE named == DOMAIN map \ {""}
           others == IF "" \in DOMAIN map THEN GetIngressSvcs(i) \ named ELSE {}
<1>3. sizes = [x \in named \cup others |-> IF x \in named THEN map[x] ELSE map[""]]
  BY DEF GetAnnotationSizes
<1> HIDE DEF own, all
<1>4. CASE service \in DOMAIN map
  <2>1. service \in named
    BY <1>4
  <2>2. Lookup(sizes, service) = map[service]
    BY <1>3, <2>1 DEF Lookup
  <2>3. own = map[service]
    BY <1>1, <1>4 DEF Lookup
  <2>4. OrDefault(own, all) = own
    BY <1>2, <1>4, <2>3 DEF OrDefault
  <2> QED
    BY <2>2, <2>3, <2>4 DEF own, all
<1>5. CASE service \notin DOMAIN map
  <2>1. service \notin named
    BY <1>5
  <2>2. own = ""
    BY <1>1, <1>5 DEF Lookup
  <2>3. OrDefault(own, all) = all
    BY <2>2 DEF OrDefault
  <2>4. CASE "" \in DOMAIN map
    <3>1. all = map[""]
      BY <1>0, <2>4 DEF Lookup
    <3>2. service \in others <=> service \in GetIngressSvcs(i)
      BY <2>1, <2>4
    <3>3. Lookup(sizes, service) = IF service \in GetIngressSvcs(i) THEN all ELSE own
      BY <1>3, <2>1, <2>2, <3>1, <3>2 DEF Lookup
    <3> QED
      BY <2>3, <3>3 DEF own, all
  <2>5. CASE "" \notin DOMAIN map
    <3>1. all = ""
      BY <1>0, <2>5 DEF Lookup
    <3>2. service \notin others
      BY <2>5
    <3>3. Lookup(sizes, service) = ""
      BY <1>3, <2>1, <3>2 DEF Lookup
    <3> QED
      BY <2>2, <2>3, <3>1, <3>3 DEF own, all
  <2> QED
    BY <2>4, <2>5
<1> QED
  BY <1>4, <1>5

AppidURLs == {"AppIDAuthURL", "AppIDSignInURL"}

LEMMA CarriedIs ==
    ASSUME NEW i, NEW service
    PROVE  /\ \A s \in DOMAIN LocationSource :
                 Lookup(LocationAnnotations(i, service), s) =
                    IF i.conflict /\ s \in AppidURLs THEN "" ELSE SettingOf(i, service, s)
           /\ \A s \in DOMAIN ServerSource :
                 Lookup(ServerAnnotations(i), s) =
                    Lookup(GetAnnotationMap(i, ServerSource[s], s), "")
<1> DEFINE Carries(carried, all, off) ==
             carried = Restrict(all, {t \in DOMAIN all : t \notin off /\ all[t] # ""})
<1>1. ASSUME NEW all, NEW off, NEW carried, NEW s \in DOMAIN all, Carries(carried, all, off)
      PROVE  (s \in off => Lookup(carried, s) = "") /\ (s \notin off => Lookup(carried, s) = all[s])
  <2>1. carried = [t \in {u \in DOMAIN all : u \notin off /\ all[u] # ""} |-> all[t]]
    BY <1>1 DEF Restrict
  <2>2. s \in DOMAIN carried <=> s \notin off /\ all[s] # ""
    BY <2>1
  <2>3. s \in DOMAIN carried => carried[s] = all[s]
    BY <2>1
  <2> QED
    BY <2>2, <2>3 DEF Lookup
<1> HIDE DEF Carries
<1>2. ASSUME NEW s \in DOMAIN LocationSource
      PROVE  Lookup(LocationAnnotations(i, service), s) =
                IF i.conflict /\ s \in AppidURLs THEN "" ELSE SettingOf(i, service, s)
  <2> DEFINE all == [setting \in DOMAIN LocationSource |-> SettingOf(i, service, setting)]
             off == IF i.conflict THEN AppidURLs ELSE {}
  <2>1. LocationAnnotations(i, service) = Restrict(all, {t \in DOMAIN all \ off : all[t] # ""})
    BY DEF LocationAnnotations, AppidURLs
  <2>2. s \in DOMAIN all /\ all[s] = SettingOf(i, service, s)
    OBVIOUS
  <2>3. s \in off <=> i.conflict /\ s \in AppidURLs
    OBVIOUS
  <2> HIDE DEF all, off
  <2>4. {t \in DOMAIN all \ off : all[t] # ""} = {t \in DOMAIN all : t \notin off /\ all[t] # ""}
    OBVIOUS
  <2> PICK carried : carried = LocationAnnotations(i, service)
    OBVIOUS
  <2>5. Carries(carried, all, off)
    BY <2>1, <2>4 DEF Carries
  <2>6. (s \in off => Lookup(carried, s) = "") /\ (s \notin off => Lookup(carried, s) = all[s])
    BY <1>1, <2>2, <2>5
  <2> QED
    BY <2>2, <2>3, <2>6
<1>3. ASSUME NEW s \in DOMAIN ServerSource
      PROVE  Lookup(ServerAnnotations(i), s) = Lookup(GetAnnotationMap(i, ServerSource[s], s), "")
  <2> DEFINE all == [setting \in DOMAIN ServerSource |->
                       Lookup(GetAnnotationMap(i, ServerSource[setting], setting), "")]
  <2>1. ServerAnnotations(i) = Restrict(all, {t \in DOMAIN all : all[t] # ""})
    BY DEF ServerAnnotations
  <2>2. s \in DOMAIN all /\ all[s] = Lookup(GetAnnotationMap(i, ServerSource[s], s), "")
    OBVIOUS
  <2> HIDE DEF all
  <2>3. {t \in DOMAIN all : all[t] # ""} = {t \in DOMAIN all : t \notin {} /\ all[t] # ""}
    OBVIOUS
  <2> PICK carried : carried = ServerAnnotations(i)
    OBVIOUS
  <2>4. Carries(carried, all, {})
    BY <2>1, <2>3 DEF Carries
  <2>5. Lookup(carried, s) = all[s]
    BY <1>1, <2>2, <2>4
  <2> QED
    BY <2>2, <2>5
<1> QED
  BY <1>2, <1>3

(* What a location resource carries for a setting is what the user meant.    *)
LEMMA SettingIsMeant ==
    ASSUME NEW i, IsIngress(i), WellFormed(i), NEW service, service # "", service # All,
           NEW s \in DOMAIN LocationSource
    PROVE  Lookup(LocationAnnotations(i, service), s) = Meant(i, service, s)
<1> PICK own : own = Lasting(i, LocationSource[s], service, s)
  OBVIOUS
<1> PICK all : all = Lasting(i, LocationSource[s], All, s)
  OBVIOUS
<1>1. Lookup(LocationAnnotations(i, service), s) =
         IF i.conflict /\ s \in AppidURLs THEN "" ELSE SettingOf(i, service, s)
  BY CarriedIs
<1>2. Meant(i, service, s) =
         CASE s = "RedirectToHTTPS" -> all
           [] s = "ClientMaxBodySize" /\ service \in GetIngressSvcs(i) -> OrDefault(own, all)
           [] s \in AppidURLs /\ i.conflict -> ""
           [] OTHER -> own
  BY DEF Meant, AppidURLs
<1>3. CASE s = "RedirectToHTTPS"
  <2>1. LocationSource[s] = "redirect-to-https" /\ s \notin AppidURLs
    BY <1>3 DEF LocationSource, AppidURLs
  <2>2. SettingOf(i, service, s) = Lookup(GetAnnotationMap(i, "redirect-to-https", s), "")
    BY <1>3 DEF SettingOf
  <2>3. SettingOf(i, service, s) = all
    <3>1. "redirect-to-https" \in Named
      BY DEF Named
    <3> QED
      BY <2>1, <2>2, <3>1, FoundForAll
  <2>4. Meant(i, service, s) = all
    BY <1>2, <1>3, <2>1
  <2> QED
    BY <1>1, <2>1, <2>3, <2>4
<1>4. CASE s = "ClientMaxBodySize"
  <2>1. LocationSource[s] = "client-max-body-size" /\ s \notin AppidURLs
    BY <1>4 DEF LocationSource, AppidURLs
  <2>2. SettingOf(i, service, s) = Lookup(GetAnnotationSizes(i), service)
    BY <1>4 DEF SettingOf
  <2>3. SettingOf(i, service, s) = IF service \in GetIngressSvcs(i) THEN OrDefault(own, all) ELSE own
    BY <1>4, <2>1, <2>2, SizeIsMeant
  <2>4. CASE service \in GetIngressSvcs(i)
    <3>1. Meant(i, service, s) = OrDefault(own, all)
      BY <1>2, <1>4, <2>1, <2>4
    <3> QED
      BY <1>1, <2>1, <2>3, <2>4, <3>1
  <2>5. CASE service \notin GetIngressSvcs(i)
    <3>1. Meant(i, service, s) = own
      BY <1>2, <1>4, <2>1, <2>5
    <3> QED
      BY <1>1, <2>1, <2>3, <2>5, <3>1
  <2> QED
    BY <2>4, <2>5
<1>5. CASE s \notin {"RedirectToHTTPS", "ClientMaxBodySize"}
  <2>1. SettingOf(i, service, s) = Lookup(GetAnnotationMap(i, LocationSource[s], s), service)
    BY <1>5 DEF SettingOf
  <2>2. SettingOf(i, service, s) = own
    BY <2>1, FoundForService
  <2>3. CASE s \in AppidURLs /\ i.conflict
    <3>1. Meant(i, service, s) = ""
      BY <1>2, <1>5, <2>3
    <3> QED
      BY <1>1, <2>3, <3>1
  <2>4. CASE ~(s \in AppidURLs /\ i.conflict)
    <3>1. Meant(i, service, s) = own
      BY <1>2, <1>5, <2>4
    <3> QED
      BY <1>1, <2>2, <2>4, <3>1
  <2> QED
    BY <2>3, <2>4
<1> QED
  BY <1>3, <1>4, <1>5

LEMMA ServerSettingIs ==
    ASSUME NEW i, IsIngress(i), WellFormed(i), NEW s \in DOMAIN ServerSource
    PROVE  Lookup(ServerAnnotations(i), s) = Lasting(i, ServerSource[s], All, s)
<1>1. ServerSource[s] \in Named
  BY DEF ServerSource, Named
<1> QED
  BY <1>1, CarriedIs, FoundForAll

(* No service of a place is "", which the API server does not let it be.     *)
LEMMA PlaceIsUsers ==
    ASSUME NEW i, IsIngress(i), NEW x \in Places(i)
    PROVE  At(i, x) \in UserPaths
<1> PICK s : s = SlotOf(i, x)[1]
  OBVIOUS
<1>1. s \in DOMAIN Servers(i)
  BY PlaceHasSlot
<1> PICK l : l = SlotOf(i, x)[2]
  OBVIOUS
<1>2. PICK y \in Places(i) : SlotIsFor(i, s, l, y)
  BY <1>1, SlotsOfServer
<1>3. SlotOf(i, y) = <<s, l>> /\ At(i, y) \in UserPaths
  BY <1>2 DEF SlotIsFor
<1>4. SlotOf(i, x) = <<s, l>>
  BY SlotIsPair
<1>5. x = y
  <2>1. SlotOf(i, x)[1] = s /\ SlotOf(i, x) = SlotOf(i, y)
    BY <1>3, <1>4
  <2> QED
    BY <1>1, <2>1, SlotsOfServer
<1> QED
  BY <1>3, <1>5

LEMMA ServiceHasName ==
    ASSUME NEW i, IsIngress(i), NEW x \in Places(i), All \notin DOMAIN Dashed
    PROVE  At(i, x).service # "" /\ At(i, x).service # All
<1>1. At(i, x).service \in DOMAIN Dashed
  BY PlaceIsUsers DEF UserPaths
<1>2. "" \notin DOMAIN Dashed
  BY InputsAssumption
<1> QED
  BY <1>1, <1>2

(* Only Ingresses without a wrong annotation are migrated.                   *)
RightInv == \A i \in infos : WellFormed(i)

LEMMA RightInvHolds ==
    ASSUME PlaceInv, RightInv, [Next]_vars
    PROVE  RightInv'
<1>1. infos' \subseteq infos \cup (IF ing = Idle THEN {} ELSE {ing})
  BY DEF Next, vars, splitVars, Reject, ParserPanic, Start, StartServer, AddLocation, EndServer,
         Apply, FinishIngress, Stopped
<1>2. ing # Idle => WellFormed(ing)
  BY DEF PlaceInv, Convertible
<1>3. \A i \in infos' : WellFormed(i)
  BY <1>1, <1>2 DEF RightInv
<1> QED
  BY <1>3 DEF RightInv

LEMMA SettingsArriveHolds ==
    ASSUME SplitInv, RightInv, All \notin DOMAIN Dashed
    PROVE  SettingsArrive
<1> SUFFICES ASSUME ing = Idle, NEW i \in infos
             PROVE  /\ \A x \in Places(i) : \A n \in ResourcesFor(i, x) : \A s \in DOMAIN LocationSource :
                          Lookup(store[n].settings, s) = Meant(i, At(i, x).service, s)
                    /\ i.rules # <<>> => \A s \in DOMAIN ServerSource :
                          Lookup(store[ServerName(i)].settings, s) = Lasting(i, ServerSource[s], All, s)
  BY DEF SettingsArrive
<1>1. IsIngress(i) /\ WellFormed(i)
  BY InputIs DEF SplitInv, TypeInv, RightInv
<1>2. ASSUME NEW x \in Places(i), NEW n \in ResourcesFor(i, x), NEW s \in DOMAIN LocationSource
      PROVE  Lookup(store[n].settings, s) = Meant(i, At(i, x).service, s)
  <2>1. /\ n \in DOMAIN store /\ store[n].of = i.name /\ store[n].kind = "location"
        /\ store[n].service = At(i, x).service
    BY DEF ResourcesFor
  <2>2. \E y \in Places(i) : Fits(i, y, store[n])
    BY <2>1, StoredHas
  <2>3. store[n].settings = LocationAnnotations(i, At(i, x).service)
    BY <2>1, <2>2 DEF Fits
  <2> QED
    BY <1>1, <2>3, ServiceHasName, SettingIsMeant
<1>3. ASSUME i.rules # <<>>, NEW s \in DOMAIN ServerSource
      PROVE  Lookup(store[ServerName(i)].settings, s) = Lasting(i, ServerSource[s], All, s)
  <2>1. store[ServerName(i)].settings = ServerAnnotations(i)
    BY <1>3 DEF SplitInv, ServerInv
  <2> QED
    BY <1>1, <2>1, ServerSettingIs
<1> QED
  BY <1>2, <1>3

(* When no service has the name that stands for all of them, every location  *)
(* resource of a migrated Ingress carries what the last entry for its        *)
(* service says and nothing of another one, and its server resource what is  *)
(* for the server, however many entries there are.                           *)
THEOREM SettingsReach ==
    NamesApart(Inputs) /\ All \notin DOMAIN Dashed => (Spec => []SettingsArrive)
<1> SUFFICES ASSUME NamesApart(Inputs), All \notin DOMAIN Dashed PROVE Spec => []SettingsArrive
  OBVIOUS
<1>1. Init => SplitInv /\ RightInv
  BY SplitInvStarts DEF Init, RightInv
<1>2. SplitInv /\ RightInv /\ [Next]_vars => SplitInv' /\ RightInv'
  BY SplitInvHolds, RightInvHolds DEF SplitInv, TypeInv
<1>3. SplitInv /\ RightInv => SettingsArrive
  BY SettingsArriveHolds
<1> QED
  BY <1>1, <1>2, <1>3, PTL DEF Spec

-----------------------------------------------------------------------------
(* The places of the pieces in a name that is joined of three.               *)
LEMMA PiecesAre ==
    ASSUME NEW S, NEW a \in Seq(S), NEW b \in Seq(S), NEW c \in Seq(S)
    PROVE  /\ a \o b \o c \in Seq(S) /\ Len(a \o b \o c) = Len(a) + Len(b) + Len(c)
           /\ \A k \in 1..Len(a) : (a \o b \o c)[k] = a[k]
           /\ \A k \in 1..Len(b) : (a \o b \o c)[Len(a) + k] = b[k]
<1> PICK m \in Nat : m = Len(a)
  OBVIOUS
<1> PICK n \in Nat : n = Len(b)
  OBVIOUS
<1> PICK o \in Nat : o = Len(c)
  OBVIOUS
<1> PICK ab : ab = a \o b
  OBVIOUS
<1>1. /\ ab \in Seq(S) /\ Len(ab) = m + n
      /\ \A k \in 1..(m + n) : ab[k] = IF k <= m THEN a[k] ELSE b[k - m]
  BY ConcatProperties
<1>2. /\ ab \o c \in Seq(S) /\ Len(ab \o c) = m + n + o
      /\ \A k \in 1..(m + n + o) : (ab \o c)[k] = IF k <= m + n THEN ab[k] ELSE c[k - (m + n)]
  BY <1>1, ConcatProperties
<1>3. \A k \in 1..m : (ab \o c)[k] = a[k]
  BY <1>1, <1>2
<1>4. ASSUME NEW k \in 1..n PROVE (ab \o c)[m + k] = b[k]
  <2>1. m + k \in 1..(m + n) /\ m + k \in 1..(m + n + o) /\ ~(m + k <= m) /\ (m + k) - m = k
    OBVIOUS
  <2> QED
    BY <1>1, <1>2, <2>1
<1> QED
  BY <1>2, <1>3, <1>4

LEMMA WiderSeq ==
    ASSUME NEW S, NEW T, S \subseteq T, NEW s \in Seq(S)
    PROVE  s \in Seq(T)
<1> PICK n \in Nat : n = Len(s)
  OBVIOUS
<1>1. s \in [1..n -> T]
  OBVIOUS
<1> QED
  BY <1>1

IsName(S, name, base) == name = base \/ \E v \in S : name = Append(base, v)

JoinedOf(S, base, a, b, c) ==
    /\ a \in Seq(S) /\ b \in Seq(S) /\ c \in Seq(S)
    /\ Len(b) # 0 /\ base = a \o b \o c

Begins(name, a) == \A k \in 1..Len(a) : k \in DOMAIN name /\ name[k] = a[k]
OnlyAs(name, a, b, w) == name = Append(a, w) => b = <<w>>

(* When such a name is the first piece with one more, the second is that one.*)
LEMMA BeginsWith ==
    ASSUME NEW S, NEW a, NEW b, NEW c, NEW base, JoinedOf(S, base, a, b, c),
           NEW w \in S, NEW name, IsName(S, name, base)
    PROVE  Begins(name, a) /\ OnlyAs(name, a, b, w)
<1>0. /\ a \in Seq(S) /\ b \in Seq(S) /\ c \in Seq(S)
      /\ Len(b) # 0 /\ base = a \o b \o c
  BY DEF JoinedOf
<1> USE <1>0
<1> PICK m \in Nat : m = Len(a)
  OBVIOUS
<1> PICK n \in Nat : n = Len(b)
  OBVIOUS
<1> PICK l \in Nat : l = Len(c)
  OBVIOUS
<1>1. n # 0
  OBVIOUS
<1>2. /\ base \in Seq(S) /\ Len(base) = m + n + l /\ DOMAIN base = 1..(m + n + l)
      /\ \A k \in 1..m : base[k] = a[k]
      /\ \A k \in 1..n : base[m + k] = b[k]
  BY PiecesAre
<1>3. Len(Append(a, w)) = m + 1 /\ Append(a, w)[m + 1] = w
  BY AppendProperties
<1>4. CASE name = base
  <2>1. \A k \in 1..m : k \in DOMAIN name /\ name[k] = a[k]
    BY <1>2, <1>4
  <2>2. ASSUME name = Append(a, w) PROVE b = <<w>>
    <3>1. n = 1
      BY <1>1, <1>2, <1>3, <1>4, <2>2
    <3>2. b[1] = w
      BY <1>2, <1>3, <1>4, <2>2, <3>1
    <3>3. Len(b) = 1 /\ Len(<<w>>) = 1 /\ <<w>> \in Seq(S) /\ <<w>>[1] = w
      BY <3>1
    <3> QED
      BY <3>2, <3>3, SeqEqual
  <2> QED
    BY <2>1, <2>2 DEF Begins, OnlyAs
<1>5. CASE name # base
  <2>1. PICK v \in S : name = Append(base, v)
    BY <1>5 DEF IsName
  <2>2. /\ Len(name) = m + n + l + 1 /\ DOMAIN name = 1..(m + n + l + 1)
        /\ \A k \in 1..(m + n + l) : name[k] = base[k]
    BY <1>2, <2>1, AppendProperties
  <2>3. \A k \in 1..m : k \in DOMAIN name /\ name[k] = a[k]
    BY <1>2, <2>2
  <2>4. name # Append(a, w)
    BY <1>1, <1>3, <2>2
  <2> QED
    BY <2>3, <2>4 DEF Begins, OnlyAs
<1> QED
  BY <1>4, <1>5

(* The name of a resource begins with that of its Ingress.                   *)
LEMMA NameIsExtended ==
    ASSUME NEW i, IsIngress(i), NEW name \in AllNames(i)
    PROVE  /\ \A k \in DOMAIN i.name : k \in DOMAIN name /\ name[k] = i.name[k]
           /\ <<"server">> \notin Range(Dashed) /\ name = ServerName(i) => name \notin LocationNames(i)
<1> PICK own \in Seq(STRING) : own = i.name
  BY DEF IsIngress
<1> PICK n \in Nat : n = Len(own) /\ DOMAIN own = 1..n
  OBVIOUS
<1>1. ServerName(i) = Append(own, "server")
  BY DEF ServerName
<1>2. /\ Len(ServerName(i)) = n + 1 /\ ServerName(i)[n + 1] = "server"
      /\ \A k \in 1..n : k \in DOMAIN ServerName(i) /\ ServerName(i)[k] = own[k]
  BY <1>1
<1>3. ASSUME NEW other \in LocationNames(i)
      PROVE  /\ \A k \in 1..n : k \in DOMAIN other /\ other[k] = own[k]
             /\ <<"server">> \notin Range(Dashed) => other # ServerName(i)
  <2>1. PICK x \in Places(i) : LET base == BaseName(i, At(i, x)) IN
           other = base \/ \E k \in DOMAIN Suffixes : other = Append(base, Suffixes[k])
    BY <1>3 DEF LocationNames
  <2> PICK location : location = At(i, x)
    OBVIOUS
  <2>2. location.service \in DOMAIN Dashed /\ location.path \in DOMAIN Stripped
    BY PlaceIsUsers DEF UserPaths
  <2> PICK d : d = Dashed[location.service]
    OBVIOUS
  <2>3. d \in Seq(STRING) /\ d # <<>> /\ d \in Range(Dashed) /\ Stripped[location.path] \in STRING
    BY <2>2, InputsAssumption DEF Range
  <2> PICK base : base = BaseName(i, location)
    OBVIOUS
  <2>4. PICK rest \in Seq(STRING) : base = own \o d \o rest
    <3>1. <<Stripped[location.path]>> \in Seq(STRING) /\ <<>> \in Seq(STRING)
      BY <2>3
    <3>2. base = own \o d \o <<>> \/ base = own \o d \o <<Stripped[location.path]>>
      BY DEF BaseName
    <3> QED
      BY <3>1, <3>2
  <2> PICK S : S = STRING \cup {"server"}
    OBVIOUS
  <2>5. STRING \subseteq S /\ "server" \in S
    OBVIOUS
  <2>6. IsName(S, other, base)
    <3>1. \A k \in DOMAIN Suffixes : Suffixes[k] \in S
      BY <2>5, SuffixesAssumption
    <3> QED
      BY <2>1, <3>1 DEF IsName
  <2>7. own \in Seq(S) /\ d \in Seq(S) /\ rest \in Seq(S)
    BY <2>3, <2>5, WiderSeq
  <2>8. /\ \A k \in 1..Len(own) : k \in DOMAIN other /\ other[k] = own[k]
        /\ other = Append(own, "server") => d = <<"server">>
    <3>1. Len(d) # 0
      BY <2>3
    <3>2. JoinedOf(S, base, own, d, rest)
      BY <2>4, <2>7, <3>1 DEF JoinedOf
    <3>3. Begins(other, own) /\ OnlyAs(other, own, d, "server")
      BY <2>5, <2>6, <3>2, BeginsWith
    <3> QED
      BY <3>3 DEF Begins, OnlyAs
  <2> QED
    BY <1>1, <2>3, <2>8
<1>4. name \in LocationNames(i) \/ name = ServerName(i)
  BY DEF AllNames
<1> QED
  BY <1>2, <1>3, <1>4

(* The names of the resources are apart as soon as those of the Ingresses    *)
(* differ in a piece that both have and no service is called "server": then  *)
(* the theorems above hold, whatever else the services and paths are called. *)
THEOREM DifferingNamesAreApart == NamesDiffer(Inputs) => NamesApart(Inputs)
<1> SUFFICES ASSUME NamesDiffer(Inputs), NEW x \in Inputs, NEW i \in x.ingresses
             PROVE  /\ ServerName(i) \notin LocationNames(i)
                    /\ \A j \in x.ingresses \ {i} :
                          i.name # j.name /\ AllNames(i) \cap AllNames(j) = {}
  BY DEF NamesApart
<1>1. \A j \in x.ingresses : IsIngress(j)
  BY InputsAssumption
<1>2. ServerName(i) \notin LocationNames(i)
  BY <1>1, NameIsExtended DEF NamesDiffer, AllNames
<1>3. ASSUME NEW j \in x.ingresses \ {i}
      PROVE  i.name # j.name /\ AllNames(i) \cap AllNames(j) = {}
  <2>1. PICK k \in DOMAIN i.name \cap DOMAIN j.name : i.name[k] # j.name[k]
    BY DEF NamesDiffer
  <2>2. ASSUME NEW name \in AllNames(i), name \in AllNames(j) PROVE FALSE
    <3>1. name[k] = i.name[k]
      BY <1>1, NameIsExtended
    <3>2. name[k] = j.name[k]
      BY <1>1, <2>2, NameIsExtended
    <3> QED
      BY <2>1, <3>1, <3>2
  <2> QED
    BY <2>1, <2>2
<1> QED
  BY <1>2, <1>3

=============================================================================
