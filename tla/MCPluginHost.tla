---------------------------- MODULE MCPluginHost ----------------------------
(***************************************************************************)
(* A small instance of PluginHost for TLC: a script between two libraries   *)
(* that declare the same id.                                                *)
(***************************************************************************)
EXTENDS PluginHost

MCDir == <<"a.so", "b.rhai", "c.so">>
MCIdOf == [f \in {"a.so", "b.rhai", "c.so"} |-> IF f = "b.rhai" THEN "y" ELSE "x"]

\* "Launch" is a filter name that does not exist.
MCAsks == "a.so" :> <<"ProfileChanged">> @@ "b.rhai" :> <<"Launch", "All">>
          @@ "c.so" :> <<>>
MCValues == "ProfileChanged" :> {"p", "q"} @@ "GameLaunching" :> {}
=============================================================================
