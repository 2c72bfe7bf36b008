------------------------------- MODULE MCPlugins ------------------------------
(* Small instances of Plugins: plugins of one name, one made by the program  *)
(* and two of a file that is loaded twice, and one with another name.        *)
EXTENDS Plugins, TLC

Names == "old" :> "filter" @@ "new" :> "filter" @@ "newer" :> "filter" @@ "audit" :> "audit"
         @@ "unnamed" :> ""

Counts(decision, load, shutdown) ==
    "pre_decision" :> decision @@ "on_load" :> load @@ "on_shutdown" :> shutdown

MCHandlers == "old" :> Counts(0, 0, 1) @@ "new" :> Counts(0, 1, 0)
              @@ "newer" :> Counts(0, 1, 0)
              @@ "audit" :> Counts(2, 0, 0) @@ "unnamed" :> Counts(1, 0, 0)

MCFiles == <<{"unnamed"}, {"new", "newer"}>>

==============================================================================
