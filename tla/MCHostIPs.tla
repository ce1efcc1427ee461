------------------------------ MODULE MCHostIPs ------------------------------
(***************************************************************************)
(* Three nested names with and without wildcards, two pods of two          *)
(* workspaces.                                                             *)
(***************************************************************************)
EXTENDS HostIPs

MCLabel == {"com", "a", "b", "c"}
MCPort == {80, 443}
MCName == {<<"com", "a">>, <<"com", "a", "b">>, <<"com", "a", "b", "c">>}

Host(form, name, port) == [kind |-> "host", key |-> [form |-> form, name |-> name, port |-> port]]
WildA == Host("wild", <<"com", "a">>, 443)
WildB == Host("wild", <<"com", "a", "b">>, 443)
ExactB == Host("exact", <<"com", "a", "b">>, 443)
ExactC == Host("exact", <<"com", "a", "b", "c">>, 443)
PlainC == Host("exact", <<"com", "a", "b", "c">>, 80)
Dns == [kind |-> "dns", key |-> [form |-> "wild", name |-> <<"com", "a">>, port |-> 80]]
Bad == Host("wild", <<"com">>, 443)

MCValid == {WildA, WildB, ExactB, ExactC, PlainC, Dns}

\* A pod of w1 in the default zone, if there is one; a pod of w2 there or in z2.
MCInputs ==
  {[default   |-> za[1],
    zoneRules |-> [z \in {"z1", "z2"} |-> IF z = "z1" THEN r \cup {Dns} ELSE {Bad, WildA}],
    assign    |-> [w \in {"w1", "w2"} |-> IF w = "w1" THEN "none" ELSE za[2]],
    grants    |-> [w \in {"w1", "w2"} |-> IF w = "w1" THEN g ELSE h],
    pods      |-> {[ws |-> "w1", ip |-> "ip1"], [ws |-> "w2", ip |-> "ip2"],
                   [ws |-> "w2", ip |-> "noip"]}] :
     za \in {<<"z1", "none">>, <<"z1", "z2">>, <<"none", "z2">>},
     r \in SUBSET {WildA, WildB}, g \in SUBSET {ExactC, WildB, PlainC}, h \in {{}, {ExactB}}}

=============================================================================
