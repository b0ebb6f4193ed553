--------------------------- MODULE MCProxySecrets ---------------------------
(***************************************************************************)
(* Instances of ProxySecrets for TLC.                                      *)
(***************************************************************************)
EXTENDS ProxySecrets, TLC

MCNamespaces == {Default, Secured, "apps"}

MCPairs == {"ca", "cert"}

Empty == [p \in MCPairs |-> Absent]

Of(source, target, reference) ==
    [source |-> source, target |-> target, reference |-> reference, version |-> 0]

Own == Of([p \in MCPairs |-> "x"], Empty, FALSE)
Half == Of("ca" :> "x" @@ "cert" :> Absent, "ca" :> "y" @@ "cert" :> Absent, FALSE)
Reference == Of(Empty, Empty, TRUE)

SomeSecrets == {Absent, Own, Half, Reference}

(* Any secret or none in each of the three namespaces.                      *)
AllStores ==
    {(<<"apps", "s">> :> a) @@ (<<Default, "s">> :> d) @@ (<<Secured, "s">> :> c) :
        a \in SomeSecrets, d \in SomeSecrets, c \in SomeSecrets \ {Reference}}

(* Two services and a mutual-auth annotation name the same secret, from two  *)
(* namespaces.                                                              *)
ThreeUses ==
    {[namespace |-> "apps", name |-> "s", updates |-> TRUE],
     [namespace |-> Default, name |-> "s", updates |-> TRUE],
     [namespace |-> "apps", name |-> "s", updates |-> FALSE]}

=============================================================================
