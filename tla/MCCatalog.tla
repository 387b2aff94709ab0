----------------------------- MODULE MCCatalog -----------------------------
(* Instances of Catalog for TLC. *)
EXTENDS Catalog

MCNode == {[type |-> "vless", tag |-> "n", data |-> "d1"],
           [type |-> "ssh", tag |-> "m", data |-> "d1"]}
MCTagOrder == <<"m", "n">>
MCIdOrder == <<1, 2>>
MCFeed == [u |-> <<[type |-> "vless", tag |-> "x", data |-> "d1"]>>,
           v |-> <<[type |-> "vless", tag |-> "y", data |-> "d1"],
                   [type |-> "wireguard", tag |-> "z", data |-> "d1"]>>]
MCOverride == {[enabled |-> "inherit", params |-> "inherit"],
               [enabled |-> "off", params |-> "inherit"]}
MCDefaults == {[enabled |-> "on", params |-> "p1"]}
MCUser == {[NewEntry EXCEPT !.type = "ssh", !.tag = "home"],
           [NewEntry EXCEPT !.type = "vless", !.tag = "own"],
           [NewEntry EXCEPT !.type = "selector", !.tag = "mine",
                            !.members = <<"home", "proxy">>]}
MCInitFile == {[outbounds |-> <<Direct>>, final |-> "unset"]}
MCInitSub == {[name |-> "a", url |-> "u", outbounds |-> MCFeed["u"],
               test |-> [enabled |-> "inherit", params |-> "inherit"],
               error |-> FALSE]}

Symmetry == Permutations(Proc)
=============================================================================
