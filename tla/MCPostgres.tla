------------------------------ MODULE MCPostgres -----------------------------
(* Small instances of PostgresStorage: two processes, one of them with two  *)
(* coroutines for one connection, and a few operations on each table.       *)
EXTENDS PostgresStorage, TLC

Call(kind, id, value) == [kind |-> kind, id |-> id, value |-> value]

TwoProcesses == "a1" :> "p1" @@ "a2" :> "p1" @@ "a3" :> "p2"

MCOperations ==
    {Call("create_tenant", "t", "first"), Call("create_tenant", "t", "second"),
     Call("get_tenant", "t", "none"),
     Call("create_api_key", "k", "admin"), Call("validate_api_key", "k", "none"),
     Call("revoke_api_key", "k", "none"),
     Call("store_event", "e", "one"), Call("store_event", "e", "two"),
     Call("store_audit_log", "l", "data"),
     Call("create_webhook", "w", "new"), Call("update_webhook", "w", "active"),
     Call("delete_webhook", "w", "none"),
     Call("create_agent_profile", "g", "new"), Call("update_agent_profile", "g", "seen"),
     Call("create_alert", "x", "open"), Call("get_alerts", "x", "none"),
     Call("update_daily_stats", "d", "1"), Call("update_daily_stats", "d", "2"),
     Call("update_daily_stats", "d", "3"), Call("update_daily_stats", "d", "4")}

==============================================================================
