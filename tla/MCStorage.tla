------------------------------ MODULE MCStorage ------------------------------
(* Small instances of Storage: two processes, one of them with two threads, *)
(* and a few operations on each file.                                       *)
EXTENDS Storage, TLC

Call(kind, id, value) == [kind |-> kind, id |-> id, value |-> value]

TwoProcesses == "a1" :> "p1" @@ "a2" :> "p1" @@ "a3" :> "p2"

MCOperations ==
    {Call("create_tenant", "t", "first"), Call("create_tenant", "t", "second"),
     Call("get_tenant", "t", "none"),
     Call("create_api_key", "k", "admin"), Call("validate_api_key", "k", "none"),
     Call("validate_api_key", "k", "again"),
     Call("revoke_api_key", "k", "none"),
     Call("store_event", "e1", "data"), Call("store_event", "e1", "again"),
     Call("store_event", "e2", "data"), Call("store_audit_log", "l1", "data"),
     Call("store_audit_log", "l2", "data"), Call("store_audit_log", "l3", "data"),
     Call("create_webhook", "w", "new"), Call("update_webhook", "w", "failed"),
     Call("delete_webhook", "w", "none"),
     Call("create_agent_profile", "g", "new"),
     Call("create_agent_profile", "g", "second"),
     Call("update_agent_profile", "g", "seen"),
     Call("create_alert", "x", "open"), Call("update_alert", "x", "closed"),
     Call("get_daily_stats", "d", "none"),
     Call("update_daily_stats", "d", "1"), Call("update_daily_stats", "d", "2")}

==============================================================================
