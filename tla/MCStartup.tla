------------------------------ MODULE MCStartup ------------------------------
EXTENDS Startup, TLC

MCTables ==
    [file : {"skeleton.so", "other.so", "data.so", "unloadable", "table"}, url : {FALSE}]
      \union [file : {"mongo.so"}, url : BOOLEAN] \union {Null}

MCDeclares == ("skeleton.so" :> 1) @@ ("mongo.so" :> 2) @@ ("other.so" :> 2) @@ ("data.so" :> None)

=============================================================================
