------------------------------ MODULE MCConfig ------------------------------
(* An instance of Config for TLC. *)
EXTENDS Config

\* Paths beside each other, above each other, through links, and out of one.
RawPaths == {<<"a", "b">>, <<"a", "x">>, <<"l", "x">>, <<"l", "..", "x">>, <<"a", "b", "k", "x">>}

MCValues ==
    [k \in {"scan_interval", "address", "device_id", "source", "peers",
            "state_dir", "path"} |->
        CASE k = "scan_interval" -> {"invalid"}
          [] k = "address" -> {"valid"}
          [] k = "device_id" -> {"i", "j"}
          [] k = "source" -> {Local, "p"}
          [] k = "peers" -> {<<"p">>, <<"p", "p">>}
          [] k = "state_dir" -> {<<"a", "b">>, <<"a", "x">>}
          [] k = "path" -> RawPaths]

Dangling == <<"l">> :> <<"e">>
Crossing == <<"l">> :> <<"a", "b">> @@ <<"a", "b", "k">> :> <<"c">>

\* With a link that leads nowhere; with one into /a/b and one out of it.
MCFileSystems ==
    {[dirs |-> {<<>>, <<"a">>, <<"a", "b">>, <<"c">>}, links |-> l] :
        l \in {Dangling, Crossing}}
============================================================================
