---------------------- MODULE MCConnectionLifecycle ----------------------
(* The tokens' phones, and what a behaviour may combine *)
EXTENDS ConnectionLifecycle, TLC

CONSTANTS p1, p2, k1, k2

EveryPhone == [k \in Creds |-> Phones]
OnePhoneEach == k1 :> {p1} @@ k2 :> {p2}

Asked(operations, sellers, pins, connections, overlap) ==
    [operations |-> operations, sellers |-> sellers, pins |-> pins,
     connections |-> connections, overlap |-> overlap]

ManualSetup == {"setup", "select", "configure", "manual"}

\* Embedded connections of two sellers, and manual ones of one, with
\* overlapping requests; one manual connection that gets new credentials; and
\* both kinds together, one request after the other
MCScenarios ==
    {Asked({"complete", "finalize", "disconnect"}, Sellers, Pins, 2, TRUE)} \cup
    UNION {{Asked(ManualSetup, {s}, {x}, 2, TRUE),
            Asked(ManualSetup \cup {"replace"}, {s}, Pins, 1, TRUE),
            Asked(ManualSetup \cup {"complete", "finalize"}, {s}, {x}, 2, FALSE)}
             : s \in Sellers, x \in Pins}

\* New credentials while the assets are chosen
Selecting == {Asked({"setup", "select", "replace"}, {s}, Pins, 1, TRUE) : s \in Sellers}

Symmetric == Permutations(Sellers) \cup Permutations(Conns) \cup Permutations(Phones)
                \cup Permutations(Requests) \cup Permutations(Pins)
==========================================================================
