------------------------- MODULE MCConfigMapParams --------------------------
(***************************************************************************)
(* The instance of ConfigMapParams for TLC.                                *)
(***************************************************************************)
EXTENDS ConfigMapParams, TLC

Piece(digits, unit) == [digits |-> digits, unit |-> unit]

MCPieces ==
    "8s" :> <<Piece(8, "s")>> @@
    "1h2m" :> <<Piece(1, "h"), Piece(2, "m")>> @@
    "2d" :> <<Piece(2, "d")>>

MCLasting == "8s" :> 8 @@ "1h2m" :> 3720

Logs(buffering) ==
    "access-log-buffering" :> <<buffering>> @@ "buffer-size" :> <<"64k">> @@
    "flush-interval" :> <<"5m">>

MCIksCms ==
    {Logs("true"), Logs("false") @@ ("ssl-dhparam-file" :> <<"dh">>),
     "access-log-buffering" :> <<"true">> @@ "flush-interval" :> <<"5m">> @@
         "buffer-size" :> <<>> @@ "public-ports" :> <<"80">>,
     "access-log-buffering" :> <<"true">> @@ "keep-alive" :> <<"8s">>,
     "keep-alive" :> <<"1h2m">> @@ "ssl-ciphers" :> <<"HIGH">> @@
         "server-names-hash-max-size" :> <<"512">> @@ "vts-status-zone-size" :> <<"1m">>,
     "keep-alive" :> <<"2d">> @@ "server-names-hash-bucket-size" :> <<"64">> @@
         "worker-processes" :> <<"4">> @@ "ssl-protocols" :> <<>>,
     << >>}

MCK8sCms ==
    {<< >>, "keep-alive" :> <<"75">> @@ "use-http2" :> <<"true">>,
     "access-log-params" :> <<"gzip">>}

MCTestCms == {"keep-alive" :> <<"9">> @@ "old" :> <<"x">>}

MCEdits ==
    {[key |-> "use-http2", value |-> <<"false">>],
     [key |-> "access-log-params", value |-> <<"gzip">>]}

(* The hypotheses of the theorems about what is converted.                 *)
ASSUME MeaningAssumption == SecondsAgree /\ NoEmptyKeepAlive
=============================================================================
