------------------------- MODULE MCLocationSnippets -------------------------
(***************************************************************************)
(* Instances of LocationSnippets for TLC.                                  *)
(***************************************************************************)
EXTENDS LocationSnippets, TLC

MCAuthLike == {<<"user", "lua", k>> : k \in 1..8}

UserSection(author, n) == [k \in 1..n |-> <<"user", author, k>>]

Nothing == [s \in {} |-> 0]

NoHeaders == [p \in Range(HeaderPhases) |-> Nothing]

Annotated(sections, eos, appid, headers, reqs, timeouts) ==
    [services |-> {"a", "b"}, sections |-> sections, eos |-> eos, appid |-> appid,
     headers |-> headers, requests |-> reqs, timeouts |-> timeouts]

(* One service has lines of its own, some of them like those of App ID.     *)
OwnSections ==
    {Nothing} \cup {"a" :> UserSection(x, n) : x \in {"plain", "lua"}, n \in {1, 3}}

(* All services have the same lines, and their array has no room left.      *)
FullSections == {All :> UserSection("plain", 4), All :> UserSection("lua", 2)}

(* All services have the same lines, and their array has room for one more.  *)
RoomySections == {All :> UserSection("plain", 3)}

SomeAuth == {Nothing, "a" :> "true", "a" :> "false" @@ "b" :> "true"}

SomeHeaders ==
    {NoHeaders,
     [NoHeaders EXCEPT !["add"] = ("a" :> 1 @@ "b" :> 2), !["remove"] = ("a" :> 1)],
     [NoHeaders EXCEPT !["response"] = ("b" :> 3 @@ Every :> 1)]}

OneRequest == {Nothing, "b" :> 100, "a" :> 100 @@ Every :> 10}

SomeTimeouts == {Nothing, "a" :> 5 @@ "b" :> 6 @@ Every :> 7}

(* No two keepalive requests, no shared array with room.                     *)
Apart ==
    {Annotated(x[1], x[2], appid, headers, reqs, timeouts) :
        x \in (OwnSections \X {TRUE}) \cup (FullSections \X BOOLEAN)
                 \cup (RoomySections \X {FALSE}),
        appid \in SomeAuth, headers \in SomeHeaders, reqs \in OneRequest,
        timeouts \in SomeTimeouts}

ASSUME ApartAssumption == NoSharedRoom(Apart) /\ OneRequestKey(Apart)

TwoRequests ==
    {Annotated(x, TRUE, Nothing, NoHeaders, "a" :> 100 @@ "b" :> 200, timeouts) :
        x \in OwnSections, timeouts \in SomeTimeouts}

SharedRoom ==
    {Annotated(x, TRUE, appid, NoHeaders, Nothing, "a" :> 5 @@ "b" :> 6) :
        x \in RoomySections, appid \in SomeAuth}

=============================================================================
