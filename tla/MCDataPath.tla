------------------------------ MODULE MCDataPath ------------------------------
EXTENDS DataPath

MCNumberOf   == ("1" :> 1) @@ ("01" :> 1) @@ ("2" :> 2) @@ ("3" :> 3) @@ ("4" :> 4)
MCNumberText == [n \in 1..9 |-> ToString(n)]
MCSixDigits  == ("1234567" :> "1.23457e+06")

=============================================================================
