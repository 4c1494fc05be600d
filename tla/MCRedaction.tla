----------------------------- MODULE MCRedaction -----------------------------
(***************************************************************************)
(* Redaction with a listed and an unlisted name, in every spelling; bodies *)
(* of three levels; a prefix and two routes that hold bodies back, and     *)
(* paths that leave no line.                                               *)
(***************************************************************************)
EXTENDS Redaction

MCNames     == {"token", "page"}
MCListed    == {"token"}
MCForms == {"plain", "cased", "separated", "escaped"}
MCExactKeys == {{}, {Key("token", "plain")}, {Key("token", "cased"), Key("page", "plain")}}

MCKeys == {Key(n, s) : n \in MCNames, s \in {"plain", "cased"}}

\* Leaves and objects, arrays of them, objects of those.
MCFlat   == {Leaf(1)} \cup {Object([k \in ks |-> Leaf(2)]) : ks \in SUBSET MCKeys}
MCArrays == {Array(<<a, Leaf(3)>>) : a \in MCFlat}
MCDocs ==
    MCFlat \cup MCArrays
    \cup {Object(k :> a @@ Key("page", "separated") :> b) :
            k \in MCKeys, a \in MCFlat \cup MCArrays,
            b \in {Leaf(4), Array(<<Object(Key("token", "separated") :> Leaf(5)), Leaf(6)>>)}}

MCWords == {"auth", "login"}
MCSkipRules ==
    {[paths |-> {<<"/", "login">>}, prefixes |-> {<<"/", "auth", "/">>}, routes |-> {}],
     [paths |-> {<<"/", "login", "/">>}, prefixes |-> {},
      routes |-> {[method |-> "", path |-> <<"/", "login">>],
                 [method |-> "POST", path |-> <<"/", "auth", "/", "login">>]}]}
MCMethods == {"GET", "get", "POST"}
=============================================================================
