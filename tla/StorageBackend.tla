--------------------------- MODULE StorageBackend ----------------------------
(***************************************************************************)
(* The operations of a storage (hestia/storage_base.py) and the collection *)
(* of records that each works on.  Health checks, list_tenants and the     *)
(* count of events are left out; what a reading operation is asked for is  *)
(* whether one record is there.                                            *)
(***************************************************************************)

Creating == {"create_api_key", "create_webhook", "create_agent_profile",
             "create_alert"}
Logging == {"store_event", "store_audit_log"}
Updating == {"update_webhook", "update_agent_profile", "update_alert"}
Reading == {"get_tenant", "get_agent_profile", "get_events", "get_audit_logs",
            "get_webhooks_for_tenant", "get_alerts", "get_daily_stats"}

CollectionOf ==
    [create_tenant           |-> "tenants",  get_tenant           |-> "tenants",
     create_api_key          |-> "api_keys", validate_api_key     |-> "api_keys",
     revoke_api_key          |-> "api_keys", store_event          |-> "events",
     get_events              |-> "events",   store_audit_log      |-> "audit",
     get_audit_logs          |-> "audit",    create_webhook       |-> "webhooks",
     get_webhooks_for_tenant |-> "webhooks", update_webhook       |-> "webhooks",
     delete_webhook          |-> "webhooks", create_agent_profile |-> "agents",
     get_agent_profile       |-> "agents",   update_agent_profile |-> "agents",
     create_alert            |-> "alerts",   get_alerts           |-> "alerts",
     update_alert            |-> "alerts",   get_daily_stats      |-> "stats",
     update_daily_stats      |-> "stats"]

Kinds == DOMAIN CollectionOf
Collections == {CollectionOf[k] : k \in Kinds}

(* A call; for an operation that creates a record with a generated id, id  *)
(* is the one it will get.  No call carries the mark of a revoked key.      *)
Operation == [kind : Kinds, id : STRING, value : STRING \ {"revoked"}]

(* An update of a webhook may set is_active again.                          *)
Restores(op) == op.kind = "update_webhook" /\ op.value = "active"

==============================================================================
